# A TLA+ verification of arbexpert-backend

arbexpert-backend watches the order books of spot and futures markets on
several exchanges, compares their best prices and tells its websocket clients
when the spread of a pair moves. This directory holds TLA+ models of it, the
TLC configurations that check them on small instances, and TLAPS proofs of the
most important invariants for every value of the constants.

Paths below are relative to the repository.

## The system

| Component | State | Operations | Interacts with |
|---|---|---|---|
| **Rate limiter** `dependencies/ratelimit` | `available`, `dropped`, `last_tick` (atomics); parameters under an `RwLock` | `build`, `try_wait_n`, `maybe_refill` | HTTP and connect limiters are statics shared by all worker *threads*; each client has a send limiter |
| **WsClient** `base/ws/client.rs` | `connect_status`, `sender`; a spawned socket task with its in-flight handlers and sends | `connect`, `send`, the task's `select!` loop | calls `on_message`, `on_error`, `on_close` of the SubClient |
| **select!** `dependencies/macros` | none between uses | polls its branches, takes the first that is ready | the loops of sockets, sessions and workers |
| **SubClient** `base/exchange/sub_client.rs` | `subscribed` (symbol to book), `pending` (symbol to senders), `connecting`, `connecting_id` | `watch`, `unwatch`, `connect`, `on_fail` | owns a WsClient; the exchange's handler fills `pending` |
| **Client pools** `exchange/{gate,binance}/public/watch.rs` | a list of clients per market | `watch_orderbook`, `unwatch_orderbook` | SubClient |
| **Gate order book** `exchange/gate/public/sub_client.rs`, `base/exchange/order.rs` | a book per symbol with `update_id`; `init`, `history_bids`, `backup` per symbol | `handle_message`, `process_gate_depth`, `apply_update`, `on_fail` | runs inside the socket task; REST snapshots go through the HTTP limiter |
| **Binance order book** `exchange/binance/public/sub_client.rs` | as above, another protocol | the same | constructed, but not returned by `setup_exchanges` |
| **Monitor** `worker/monitor.rs` | a snapshot of prices per arbitrage | `detect_arbitrage`: watch, read, compare, notify, store, again | reads the *shared* book of the SubClient; broadcasts to the websocket sessions of `main.rs` |
| **Dispatch, server** `main.rs`, `worker/` | `symbol_map`, `next_worker`, `worker_channels`, `started`, `arbitrages` | HTTP routes, worker threads | starts monitors in workers |
| **Exchange start-up** `exchange/{gate,binance}/public/constructor.rs` | `TIME_OFFSET_MS`, `ASSETS`, limiter cells | `sync_time`, `load_assets` | all worker threads |
| **MEXC order books** `exchange/mexc/public` | a pool of clients, a book per symbol | `watch_orderbook`, `unwatch_orderbook`, `handle_binary` | its own websockets, without limiters |
| **MEXC private orders** `exchange/mexc/private`, `exchange/catch.rs` | the private socket, a log per `OrderCatch` | `catch_orders`, `next`, `drop` | callers of the library |
| **Account** `base/exchange/account.rs` | actual and temporary balances, recent orders | `insert_order`, `simulate_order`, `reset_temporary_balance` | callers of the library |
| **Arbitrage calculation** `arbitrage/` | none | `find_max_price`, entry and exit | books |
| **Channel** `base/utils/mpsc.rs` | a queue, a waker | `send`, `recv`, `close`, `drop` of both ends | nothing at this commit |

### What is hard here

*Threads.* The limiters, the start-up of the exchanges and the maps of the
dispatch are shared between threads. The limiter uses compare-exchange loops and
two atomics that are updated one after the other; the start-up keeps std
mutexes locked across awaits.

*Tasks.* Everything else of a worker runs on a single-threaded executor, so
code between two `await`s is atomic; every `await` is a place where another
task, a message or the failure of the socket may come in. A book is an
`Rc<RefCell<..>>` that the handler mutates while the monitor holds it.

*The network.* Events of the exchange are lost, repeated and out of order;
snapshots are older or newer than the events; sockets die at any time; dials
and HTTP requests fail; commands that wait for a limiter overtake each other.

*Panics.* The release profile aborts on panic, so each `unwrap`, `expect` and
`panic!` is a claim about reachable states.

### What makes each component correct

- Rate limiter: tokens are neither minted nor lost, an interval is credited
  once, the bucket stays within its capacity and the rate within its quota.
- SubClient: one socket; every waiter is answered; nobody awaits a book whose
  sender is gone or that the server was never asked for; no unwrap fails.
- Client pools: a limit is kept and a symbol stays with one client while
  connections are up; no socket is kept for nothing; the server streams only
  what is registered, as long as commands stay in order.
- Order books: a book that claims to be at update *k* equals the exchange's
  book after update *k*, and never goes back; one handler synchronises it; each
  synchronisation ends; the assertions hold.
- Monitor: a snapshot holds what was last read; a session never skips a
  message.
- Dispatch: a symbol belongs to one worker and is monitored once; what is handed
  to a worker that runs is monitored there in the end.
- Start-up: an exchange is asked once, whoever starts; its limiters are set
  before anyone uses them; start-up does not deadlock.
- MEXC: a registered symbol is streamed and its book is whole; the caller of
  `next()` gets each order once.
- Account: a repeated report is counted once. Arbitrage: the plan is the
  largest the books allow. Channel: nothing is lost, no wakeup is lost.

`PROJECT.json` lists the hazards at their lines, with the properties that
would catch each going wrong.

## The modules

| Module | What it is |
|---|---|
| `TokenQuota` | abstract specification of a limiter: tokens granted never exceed the quota of the elapsed time |
| `RateLimiter` | the lock-free token bucket, one action per atomic access |
| `SubClient` | SubClient on WsClient, one action per stretch between suspension points |
| `ClientPool` | the pool of one market, and the way of its commands to the server |
| `BookMirror` | abstract specification of a book: nothing, or the exchange's book at an update that never goes back |
| `GateBook` | the synchronisation of one symbol's book at Gate and the monitor that reads it; implements `BookMirror` |
| `BinanceBook` | Binance's protocol for the same; implements `BookMirror` |
| `Monitor` | the two tasks of an arbitrage, the broadcast channel and the websocket sessions |
| `Dispatch` | worker threads that start, symbols that are given to them, and the requests that do so |
| `ExchangeInit` | the set-up of the exchanges by worker threads, one executor each, with locks that block the thread |
| `MexcBook` | MEXC's pool, whose sockets are opened once, and its books |
| `OrderStream` | MEXC's private orders from the websocket to the caller of `next()` |
| `Account` | the balances and the 30 s window |
| `ArbitragePlan` | `find_max_price` and the two loops, with a reference definition of their result |
| `Channel` | the single-threaded channel |
| `SelectLoop` | the `select!` of a socket's task: which of its branches is taken |
| `RateLimiterProofs`, `SubClientProofs`, `GateBookProofs` | theorems about the module they are named after |
| `ThreadsProofs` | theorems about `ExchangeInit` and `Dispatch`, as parts of `MC_Threads` |
| `PartsProofs` | lemmas about numbers, sequences, folds and sums; theorems about `Channel`, `Account` and `Monitor`, as parts of `MC_Parts` |
| `PlanProofs` | the theorem about `ArbitragePlan` |
| `MexcProofs` | theorems about `OrderStream` and `MexcBook` |
| `BinanceProofs` | theorems about `BinanceBook` and `ClientPool`, and the types of all parts together |
| `MC_RateLimiter`, `MC_RateLimiterWindow`, `MC_SubClient`, `MC_GateBook`, `MC_ExchangeInit` | instances: symmetry sets, views, a log of grants |
| `MC_Threads`, `MC_Parts` | parts that share no state, side by side in one run |

Operators whose comment begins with *Mutant* are plausible bugs. They are not
part of any specification: each is put in the place of the operator it is
named after, to see that the property it is paired with in `PROJECT.json`
really depends on the code.

A run that holds several parts has a variable `part`, chosen in the initial
state: only that part moves, the others keep their initial states, so the run
explores the sum of the parts' state spaces and not their product.
`MC_Threads` has the start-up, the dispatch and the select loop; `MC_Parts` all
other parts that have no run of their own.

### RateLimiter

`pc[t]` is the next atomic access of thread *t* in `try_wait_n`:
`Call` (load of `last_tick`), `ReadClock`, `Claim` (compare-exchange of
`last_tick`), `LoadAvailable`, `Credit` (a round of the weak compare-exchange
loop), `Spill` (`dropped.fetch_add`), `Take` (load of `available` and the
comparison), `Grab` (the compare-exchange that acquires). `last`, `ticks` and
`cur` are the thread's locals. `owed[t]` holds the tokens a thread has claimed
and not yet credited or dropped; `claimed` and `granted` are ghosts.

A spuriously failing weak compare-exchange reloads the value it had: a
stuttering step. Atomics are sequentially consistent in the model. Each
variable of the code is only changed by read-modify-write operations with
acquire-release ordering, and a relaxed load feeds nothing but a
compare-exchange on the same variable; a stale value makes it fail, as in
an interleaving where the load came earlier. `Take` with too few tokens and a
stale value is the exception: it may refuse a caller that would have been
served, which the properties, all upper bounds, do not mind. The parameters
are constants because no code calls the setters.

### SubClient

`pc[w]` is where watcher *w* is suspended: at the limiters (`limit`), in
`WsClient::connect` (`dial`), in the queue for somebody else's dial (`wait`),
with an answer from the dialer it has not resumed with yet (`woken`,
`refused`), at `rx.await` (`await`), with its answer (`book`, `canceled`).
`dialer` is the holder of `ws.try_borrow_mut()`, which is kept across the
awaits of a dial. `requested` holds the symbols SUBSCRIBE was sent for on the
current connection, as `watch()` sees it: the call of `ws.send` (or not). `RegisterIf` is the part of `watch()` after its loop:
registering, and SUBSCRIBE for the first watcher. Answering a oneshot and
resuming the task that awaits it are separate steps, because other tasks run
in between.

What happens to a command after the call is not the subject here: in the socket
task it becomes a future that waits for the send limiter beside others and may
be overtaken. `ClientPool` has these sends and the server's streams
(`OrphansWereOvertaken`); here nothing is claimed of either. The books of the symbols are in
`GateBook`, which abstracts this module to `Watch`, `Fail` and `Unwatch` of one
symbol.

### ClientPool

`watch.rs` of Gate and of Binance differ in names only; `map` points at one or
the other. A client is what SubClient shows of itself: its `subscribed`, the
state of its `link`, and who dials. `wire[c]` holds the commands that the socket
task has in `ext_tasks`, each waiting for the send limiter; `Transmit` sends any
of them, and `overtaken` remembers the symbols for which it was not the oldest.
A task that chose a client and was suspended by its dial registers later, when
the pool has changed: `CrossingNeedsDial` says that this is the only way past
a limit or to a symbol with two clients. A client that failed stays in the pool
and is dialed again by the next watch.

### GateBook

`hist[i]` is the exchange's book after update *i*. An event says which updates
it covers, and the quantities after the last of them; it may start anywhere,
at most `Overlap` ids before the newest one published, so events get lost,
repeated and reordered. The snapshot may be of any update not older than what
the handler asked for.

| Code | Action |
|---|---|
| first event on a book at 0 | `StartSync`: marks the book, starts fetching |
| full event on a book at 0; next event on a live book | `Live` (`Broadcast`) |
| event on a book at 1 | `Buffer` |
| event that does not extend a live book | `Gap` |
| `process_gate_depth` returns | `SnapshotOk`, `SnapshotErr` |
| a round of the loop over `init` | `ScanFor`, in `SnapshotOk` and `Rescan`; `GiveUp` after the last |
| the replay loop | `Replay`, one event per step; nothing else runs until it is done |
| the socket dies | `Fail`: the handlers go with their task |
| `watch`, the monitor's read, `unwatch` | `Watch`, `Read`, `Unwatch` |

A book object is a number in `Books`: a failure or an unwatch drops the object
from the registry and the next watch makes another, but handlers and the
monitor may still hold the old one. `init` and `history` are shared by all of
them, as in the code, where they are keyed by symbol. `AllowUnwatch`
distinguishes the program, which never calls `unwatch_orderbook`, from a user
of the exchange API who does.

Assumed of the exchange: its book never has an empty side, and never more
levels than the 100 per side a snapshot returns.

`Mirrored` maps the registered book to `BookMirror`: `at` is its `update_id`
when it is synchronised, 0 otherwise. `Change` is the mirror's `Change`; a step
that leaves the book synchronised is `Advance`, any other `Lose`.

### BinanceBook

The same registry and the same hazards with another protocol: an event carries
the id where the one before it ended (`pu`); spot and futures continue a book by
different rules (`Extends`); a handler applies the snapshot and *all* events from
the first match on, in one step and without a check that they follow each
other (`ScanFor`), and tells nobody. Events come in order and may be lost, so
that a loss between two buffered events is not noticed: such a book is `torn`
until a gap clears it, and differs from the exchange's book meanwhile. `Mirrored`
speaks of books that are not torn. What tears a book is a question of its own:
`init` keeps what an earlier attempt, or a handler of another book, left there, and
such events do not connect to what is buffered after them. `OnlyLossTears` says that
they never get into a replay, because the snapshot is newer: a registered book
is torn only when an event was lost since its buffering began, which the ghost
`missed` records. `GiveUp` is the code's fifth retry.

### Monitor

`Detect` is all of `detect_arbitrage` after `watch_orderbook` returned, which has
no `await`: the snapshot with the fresh side, the decision, the notification
(serialised from the snapshot still stored) and the store. `WatchFails` is the
path on which the default snapshot is stored. A session of `ws_service` is
`Recv`, `Sent` and `Closed`, the branches of its `select!`, with the order the
macro gives them; the channel drops its oldest message when it is full, and
`Recv` on a session that lags ends the session's task while the connection stays
open. Prices are integers, percentages hundredths of a percent truncated as in
the code.

A spread that drifts by 0.05 or less between two reads is never notified,
however far it goes: the comparison is with the last read, not with the last
notification. No document promises otherwise.

### Dispatch

`worker[w]` is how far the thread has come: `numbered` (`fetch_add`), `setup` (its
channel published), `loop`. `cross[k]` is the task of one `POST /monitor/start`, an
action per lock it takes: `Choose` (under `symbol_map`), `List` (under
`arbitrages`), `Hand` (under `worker_channels`, and the send). `request[r]` is one
`POST /arbitrage/{symbol}/start`, `Claim` and `Command`. `Assign` is given the number
the counter names, with `% NumCpus` in the one and without in the other.
`HandOut` is what a call does after `setup_exchanges()`: it runs in one poll.

`setup_exchanges()` may return or not: `ExchangeInit` shows threads that wait for
each other's locks for ever, and an abort. No fairness is given to `SetUp` or
`Pair`. `HandOutsReachWorkers` is about what comes after them: once every worker
has its channel, a symbol that a call has paired is monitored by the worker
`symbol_map` names, provided that this worker gets through its set-up and goes
on. That the other workers may be blocked or gone, that requests interleave, and
that monitoring another symbol never ends must not matter. It says nothing of
symbols whose number is not a worker's (`Claim` takes no modulo), of what is
handed out before all channels are there, of a call that never pairs anything
because its set-up hangs or `assets().unwrap()` panics, and of a process that is
aborted; these lose symbols in the code, and the list is not meant to be complete. A
`StartArbitrage` is received and answered with "Started!", and nothing is done
for it (`worker/mod.rs` 20): there is no state to model. After a panic the model
goes on with the other tasks, which allows more than the release profile does.

### ExchangeInit

Each worker thread runs an executor with one task for `worker_loop`, whose
first act is `setup_exchanges`, and tasks for the HTTP requests it serves.
`pc[k][e]` is where task *k* is in the constructor of exchange *e*; `join!` polls
the constructors of a task one after the other, so `polled[t]` and `branch[t]`
say which of them a thread is running. A constructor that awaits a response is
passed over (`Skip`, `Leave`); one that needs a lock held by another task blocks
the thread, which shows as none of its actions being enabled: no other task
of that thread is polled either.

| Code | Action |
|---|---|
| an executor polls a ready task | `Poll` |
| `sync_time` up to its `await` | `LockSync`: the offset is known, or the request is sent with `SYNC_TIME` and `TIME_OFFSET_MS` locked |
| the rest of `sync_time` | `EndSync`: offset and limiters set on success; both locks released |
| `load_assets` up to its `await` | `LockLoad`: the assets are known, or the request is sent with `LOAD_ASSETS` locked, or the limiter's `expect` aborts |
| the rest of `load_assets` | `EndLoad` |
| a response or an error | `Respond` |

The constructors of Gate and Binance have the same control; `map` points at
Gate's code for the first halves and at Binance's for the second halves. A
std mutex locked twice by one thread is modelled as blocking (the library says
it may also panic). `TIME_OFFSET_MS` is always taken under `SYNC_TIME` and kept
as long, so one variable stands for both. The two requests of `fetch_assets`
are one, which fails if either does.

### MexcBook

`watch_orderbook` takes the exchange by `&mut`, so there is one `call` at a time:
`WatchAgain`, `WatchThere` and `WatchAnew` are its three ways to a client. A book is
the number of updates it was made from. `Bodyless` is the `?` on a message without
a body, which returns after `mem::take` of the book. `leftover` holds the symbols
that a failed SUBSCRIPTION left registered on a client whose socket is down; a
second watch of one waits for ever, which `StreamsAreHeld` states as the only way
to wait in vain.

### OrderStream

`pending` is the map of channels by symbol, `queue` a channel, `log` the state of
an `OrderCatch`, `last` the nonce its caller has seen. `Catch`, `ListenKey` and
`Handshake` are `catch_orders` up to its awaits; `Order` and `Fail` the websocket's
callbacks; `Fill` the task that empties the channel and fires the wakers;
`CallNext` and `Wake` the two halves of `next()`. `Drop` and `Order` panic on an
entry that a failure or an unknown symbol has left missing; what follows a panic
is not modelled. `subscribed_private_orders` is never reset, so orders come on
the first socket only, as the type invariant records; and a caller asleep in
`next()` when the stream ends is never woken. `filled` and `remaning` are filled
from each other's field (`watch.rs` 119–120); no state depends on it.

### Account, ArbitragePlan, Channel, SelectLoop

`Account`: an action per operation, each under the mutex, and `Tick` for the clock.
`counted` is a ghost: when an id last moved the balance. `ArbitragePlan`: `Round` is
one turn of the loop of `do_entry_arbitrage` or `do_exit_arbitrage`, by the kind of
request, and `Finish` what follows it; `PlanIsLargest` compares the result with the
largest quantity that is feasible. Numbers are integers: what a budget buys is
rounded down to a unit, where the code keeps 28 digits. With contracts of another size than one the
loops take an unscaled quantity from a level counted in contracts: a level can
be left with less than nothing and the loop can go on for ever, so `MaxSteps`
bounds it and the property speaks of contracts of one unit; entering at a
negative percentage, the loop stops at a level where the two prices are equal,
whatever lies beyond it, so the property speaks of percentages from 0 up there.
`Channel`: an action
per operation of either end; the receiver's task is `parked` when `poll_recv`
returned `Pending`. `SelectLoop`: `Arrive` makes a branch's future ready, `Poll` takes
the first one from `thread_rng_n` on, which is always 0.

## The runs

| Run | Checks | Result |
|---|---|---|
| `limiter` | conservation of tokens, ticks, rate, and refinement of `TokenQuota`; 3 threads | holds |
| `limiter_window` | the sliding window of the crate's documentation | violated |
| `limiter_aligned` | the alignment the comments of `build` claim | violated |
| `client` | five invariants, and every waiter is answered; 3 watchers, 2 symbols, id wraps at 2 | holds |
| `client_subscribe` | whoever awaits a book, SUBSCRIBE was sent for it | violated |
| `book` | over two connections: the book equals the exchange's; one handler per book and none that outlives its connection; no panic of the bid check; refinement of `BookMirror` | holds |
| `book_unwatch` | with unwatch: the book equals the exchange's and each synchronisation ends | holds |
| `book_no_price` | the monitor finds prices in the book it was handed | violated |
| `book_unwatch_panic` | the bid check with unwatch | violated |
| `startup` | each exchange is asked by one task at a time and never again; limiters are set before use; a set-up ends unless the process aborts or threads deadlock; 2 workers and a request; three symbols dispatched to two workers by two calls and a request: one worker per symbol, listed and monitored at most once, and what is handed out reaches a worker that goes on; in a socket's loop a branch starves only behind earlier ones | holds |
| `startup_deadlock` | no thread is blocked for ever; 2 workers alone | violated |
| `parts` | types of eight parts; Binance: handlers, what tears a book, and refinement of `BookMirror`; the pool's limit, its sockets and its streams; orders once; MEXC's streams; snapshot and sessions of the monitor; the account's window; the plan; the channel | holds |

### Bounds, and why they suffice

- *Limiter.* Three threads are enough for one to claim a tick while another
  holds a stale `last` and a third changes `available` between a load and its
  compare-exchange. `Capacity = 2`, requests of 1 and 2, and two intervals up to
  `MaxNow` give refusals, refills that overflow, and refills of more than one
  tick. `Align` is not a multiple of `Interval`, so `start` and the ticks differ.
- *Client.* Two watchers make a dialer and a waiter; the third arrives during
  the waiter's resumption. `IdMax = 2` lets `connecting_id` wrap.
- *Gate book.* Two bids and an ask let one bid come and go while the book keeps a
  side (the sides are symmetric in the code, so the ask stays put); ids 2 to 5
  allow events before, at and after a snapshot. `Overlap = 2` lets an event be
  repeated or arrive after a newer one (`book`), 0 only loses events
  (`book_unwatch`, whose subject is two handlers). `MaxInit = 2` is what it takes
  to have a match and something to replay after it. `MaxRetries` is 5 in the code;
  2 still has a scan, a rescan and giving up. Two books let an old handler meet a
  new book. `book` uses a VIEW that forgets books nobody holds any more: their
  state is frozen, so an invariant that held when they were dropped still does.
- *Binance book.* One level that comes and goes, both markets, ids 2 to 6: a
  snapshot with a match, an event lost before the next, and so a gap, while
  replaying or live.
- *Pool.* Clients full with 2 symbols (35 in the code), three symbols and two
  tasks: the third symbol needs a second client. `MaxWire = 2` is a SUBSCRIBE and an
  UNSUBSCRIBE that can cross; `MaxOvertaken = 1` symbol that did at a time.
- *Dispatch.* Two workers and three symbols: the third number is beyond the last
  worker. Two calls race for `started`.
- *Monitor.* Four tops of book: apart by too little, by enough, and by more than is
  believed. A channel of 2 messages (1000000) and three of them overflow it.
- *MEXC.* Two clients of 2 symbols (35), three symbols, batches of up to two
  updates. Two catches, two orders, two sockets.
- *Account.* `Keep = 2` seconds (30) and a clock up to 5: reports repeated within the
  window, at its edge and after it. *Plan.* All books of at most two levels a side
  with even quantities and small prices, percentages of 0, 50 and 100, and of -50
  when leaving. `Orders`, `Tops` and `Requests` are constants, given small sets here;
  the theorems hold for any.
  *Channel.* Three items sent, of two kinds, by two senders. *Start-up.* Two threads with two exchanges are
  the least that can hold locks crosswise; the request on the first thread is a
  task that shares a thread with another.
- `CHECK_DEADLOCK FALSE` in the book runs and in `parts` (the process may abort, a
  computation ends, and the bounded exchange may run out of updates with every
  task waiting for one) and in the start-up runs (all set-ups are done, or the
  process has aborted; threads that wait for each other are the subject of
  `NoDeadlock`, which is stated explicitly and finds a deadlock of some threads
  while others still run).

Symmetry is used for threads, watchers, tasks, watched symbols and bid prices,
never in a run with a liveness property. The VIEW of `parts` forgets, beside
dropped books, clients nobody holds and the last choice of tasks that will
choose anew.

### Fairness

- `SubClient`: weak fairness of each watcher's `Step`. The executor polls ready
  tasks, the limiters refill and a handshake ends with success or failure. There
  is no fairness for the server's messages, for failures or for new calls.
- `GateBook` with `unwatch`: weak fairness of each handler of a book and of the
  replay loop (HTTP requests end and timers fire; the exchange need not publish
  anything). The handlers are futures of the socket's task, polled by the branch
  `client_tasks` of its `select!`, which starts with its first branch every time:
  this assumes that frames do not keep the branches before it ready for ever.
  `StarvedOnlyByEarlier` says that nothing else starves it.
- `MC_Threads`: weak fairness of each thread, of polling each ready task and of
  each response (requests have a timeout); nothing is assumed of the order in
  which a mutex is handed to the threads that wait for it. The socket's task
  runs when it is woken; nothing is assumed of what arrives. Nothing is assumed
  of the dispatch, whose set-ups may hang: `HandOutsReachWorkers` names what it
  needs, that the one worker's loop goes on receiving (`GoesOn`) and that a call
  goes on once `setup_exchanges()` is behind it (`HandsOut`), where it waits for
  nothing but locks that are held for a few statements.

### Disagreements found

1. **Sliding window** (`limiter_window`). The documentation of the crate promises
   at most 1000 tokens in any hour; a bucket drained before and after a refill
   gives 2000. The rate that does hold is `RateBound`.
2. **Alignment** (`limiter_aligned`). `build` moves `start_instant` back to the
   window's start and sets `last_tick` to the same distance: the two cancel, and
   refills fall at the build time plus whole intervals.
3. **Lost SUBSCRIBE** (`client_subscribe`). `connect()` ignores the result of a
   failed dial. The symbol stays registered, later watchers of it are not the
   first, and they wait for a book until the connection fails.
4. **"no price"** (`book_no_price`). The monitor is handed the live book, not a
   copy. A gap handled before the monitor runs empties it, and `expect` aborts.
5. **Bid check after unwatch** (`book_unwatch_panic`). The handler of an unwatched
   book replays into the history of its successor. The program does not
   call unwatch, so this concerns users of the exchange API; without unwatch the
   check is proved never to fail.
6. **Deadlock at start** (`startup_deadlock`). Two workers start. The first holds
   `SYNC_TIME` of both exchanges and gets Gate's time; the second takes it from
   there, locks Gate's `LOAD_ASSETS`, sends that request and goes on to Binance,
   whose `SYNC_TIME` is locked: its thread blocks. The first blocks on Gate's
   `LOAD_ASSETS`. Neither thread can finish a request any more. A single
   thread does the same to itself when it serves `GET /orderbook` while its
   worker's set-up awaits a response: the second `lock` of that thread never returns.

Two comments differ from the code without a run of their own. `select!` says that
it picks its starting branch at random so that no future is always polled
first (`dependencies/macros/src/select.rs` 61–66, 804–805), but `thread_rng_n`
returns 0 (`support.rs` 4–6): `SelectLoop` is modelled with 0, and
`StarvedOnlyByEarlier` is the fairness that is left. `watch_orderbook` speaks of
clients "com < 7 subscriptions" (`exchange/gate/public/watch.rs` 33) and takes those
with fewer than 35.

## The proofs

All theorems hold for every value of the constants allowed by the named
assumptions, which TLC evaluates in the runs: `LimiterAssumption` (what `build`
does not reject), `ClientAssumption`, `BookAssumption` and `BinanceAssumption`
(update ids start above 1, which is a state marker in the code; there is at
least one retry), `InitAssumption` (each task joins some exchange),
`CpusAssumption` (there is a CPU), `StreamAssumption` (no symbol is the name the
model has for "not made"), and, for the bounds of the other parts, that they
are natural numbers (`MexcAssumption`: a client has room for a symbol;
`PoolAssumption` lets the limit be anything). What the parts are given is as
general: any set of orders of the two markets (`AccountAssumption`), any prices at
the tops of the books (`MonitorAssumption`), and any requests whose sides are
sequences of positive prices and quantities, sorted as the books keep them
(`PlanAssumption`).

The parts of `MC_Parts` and `MC_Threads` are proved about where they are checked:
every theorem is about the very definition a run names, and about the
specification of that run. A step of one part leaves the variables of the
others alone, so each part has an invariant of its own, kept by its own
next-state relation (lemmas `...Moves`: `[PartsNext]_parts` implies the part's
`[Next]`).

- `RateLimiterProofs`. The inductive invariant adds, to the properties, where
  a thread may owe tokens (only in `load`, `credit` and `spill`), that a thread
  about to grab has seen enough tokens, and that the ticks it is about to claim
  have passed since the `last` it holds: `Claim` is safe because the
  compare-exchange makes that `last` the current one. Conservation counts the
  owed tokens as a finite set, so that the library's facts about cardinality
  apply. `RateBounded` follows from conservation and the ticks;
  `ImplementsQuota` from both, step by step: `Grab` is `Acquire`, `Tick` is
  `Pass`, all else stutters.
- `SubClientProofs`. The invariant ties `dialer` to the one watcher in `limit`
  or `dial`, `connecting` to those in `wait`, and the status to both.
- `GateBookProofs`. What makes `LiveBookMatchesExchange` inductive is that every
  buffered event is genuine (its range lies within the exchange's history), that
  a snapshot a handler holds is of an existing update, and that the books not
  created yet are untouched. Applying an event that extends a book at update
  *k* yields the exchange's book at its last update: a level not touched during
  the event has the same quantity before and after. The scan of the buffer
  preserves genuineness of what is left, and the replay loop is a sequence of
  such applications. `BookImplementsMirror`, the refinement, adds that no step
  takes a synchronised book back (`NeverBack`) and that the registered book is
  replaced only by nothing or by a fresh one (`RegistryMoves`). `BidCheckHolds`
  rests on a second invariant, `Recorded`: without unwatch, handlers and the replay
  belong to the registered book, so that what `Apply` does to its bids `Record`
  does to the history.
- `ThreadsProofs`, start-up. The invariant adds `Holders`: whoever awaits a
  response holds the lock of what it asks for. A lock has one holder, hence
  `AskedOnce`; and since assets are only requested, and only found, after the time
  is known, `LimitersAreSet` is inductive with it.
- `ThreadsProofs`, dispatch. `SymbolsAreRouted` needs that the workers that have a
  number have the first ones (`Numbered`), so that a number identifies a queue, and
  that a task or request that was told a symbol's worker still finds it in
  `symbol_map` (`Held`), where nothing is ever overwritten. `SymbolsAreMonitoredOnce`
  adds that at most one call is beyond the `started` flag (`OneActive`) and that what
  it has still to hand out is not listed and is nowhere (`Handout`). A symbol's
  place is a worker, monitored or at an index of its queue; receiving moves it
  from the first index, sending puts it at the last one.
- `PartsProofs`, channel. Both halves of `Delivered` (nothing overtakes, and no
  wake-up is lost) are inductive together with the types.
- `PartsProofs`, account. `Remembered`: an id that moved the balance in the last
  `Keep` seconds is in `orders` with that time. `clean_old_orders` stops at the first
  entry that is young, and times ascend in the deque, so what it drops is old.
- `PartsProofs`, monitor. `Uninterrupted` is inductive once a session that is absent
  has passed nothing on; that a session's queue and output are a run of numbers is
  a lemma about appending the successor.
- `PartsProofs`, folds and sums. The folds of the community modules are defined
  through recursive functions on sets. `FoldSolved` shows that such a function
  exists and is the one chosen, for any operation that picks its next element as
  they do; `SumSolved` that a sum over a finite set is what is left without one
  element plus that element, so that sums grow level by level (`SumOfOneMore`).
  Induction goes over sets of numbers (`AllNumbers`, from the least number that is
  missing), which needs no theorem with an operator for a parameter.
- `PlanProofs`, `PlansAreLargest`. The inductive invariant (`LargestInv`) says how far
  the loop has come: on each side, the levels before the index are used up, those
  after it are untouched, and what was taken is what the first units of the side
  hold (`Walked`, `PlanRuns`); the same number of units was planned on both; entering,
  the budget has paid exactly their cost; and that number can be traded
  (`CanTrade`). `RoundTakes` and `RoundRuns` keep it: a round takes no more than either
  level holds, at one price on each side (`CostAtOnePrice`). When the loop stops,
  `NothingMore`: a further unit is missing, is not paid for, or lies at prices no
  better than the two where the loop stopped, because the sides are sorted
  (`LaterIsWorse`). What `find_max_price` returns is `ClosestIsFound`, by induction over
  the increasing prices: an index that went down past a price need not go
  back up, since a higher price of the one side asks more of the other
  (`ReachesMore`), and of those that reach the percentage the lowest is the
  closest (`LowerIsCloser`).
- `BinanceProofs`, book. As for Gate, buffered events are genuine and snapshots exist.
  What differs is that events are applied in bulk: a book that is not torn got a
  run of events that connect, from the first match on. That such a run gives the
  exchange's book is shown by a minimal counterexample: were a level wrong, the
  least event after which it is wrong would be preceded by a right one
  (`LeastNumber`). `WholeBooksMatch` speaks of all books that are
  not torn, registered or not. `BinanceImplementsMirror` maps every step to `Change`,
  `Advance`, `Lose` or a stutter.
- `BinanceProofs`, what tears a book. `BuffersArrived`: buffered events are no newer
  than the last that arrived. `BufferConnects`: while nothing was lost for the
  registered book, its buffer is a rest that ends before what the handler wants
  of the snapshot, followed by events that connect (`RunAfter`). A snapshot that is
  recent enough matches beyond that rest (`ReplayConnects`), so the replay is a
  run; `TornAreLive` says that a torn book is a live one, so that a new
  synchronisation starts whole.
- `MexcProofs`, orders. `Kept`: what a catch was owed is its log followed by its
  channel, and its caller has the first part of its log. `OfCatches` and
  `AllConnected` tie the map of channels to the catches whose tasks run, so that an
  order reaches each of them; `CallsAreFirst` and `AskedOnce` say when the one
  SUBSCRIPTION is sent, and so that no catch is made without a stream it missed.
- `MexcProofs`, books. `Sound`: a client's registry, its `pending` and the server's
  streams agree while its socket is up, and only failed subscriptions are left when
  it is not. `Apart` is the pool's; it needs `CallHolds` and `OthersAreNew`, about the
  client that is being connected and is not in the pool yet.
- `BinanceProofs`, pool. `Heeded` is what is true of a registry although commands wait:
  the *last* command that waits for a symbol says whether it is registered, and a
  symbol that is streamed and has no command waiting is registered. Registering
  appends such a last command; a command that leaves either was the oldest of its
  symbol, and then the server now agrees with what was said, or is noted in
  `overtaken`. With no command left, `OrphansWereOvertaken` remains.
  `OnlyADialCrosses` goes by cases over the action: a task that chooses and
  registers in one step saw the pool as it is; that one symbol more does not lead
  past a limit that was not reached needs that registries are finite.
- `PartsTypeCorrect`, at the end of `BinanceProofs`, puts the parts' types together.

`TypeOK` of the modules with a run of their own, and the limiter's
`NeverOverCapacity`, are theorems and not checked by a run.

Only model-checked:

- the liveness properties (`WaitersAreAnswered`, `SyncEnds`, `SetupEnds`,
  `HandOutsReachWorkers`, `StarvedOnlyByEarlier`): they need fairness, and so ENABLED,
  which the prover does not treat;
- the properties that are violated.

Every safety invariant and every action property of the passing runs is a
theorem.

## Plan

Left to model: the limiter's run-time setters and MEXC's start-up, which nothing
that runs today reaches; what the loops of a plan do with contracts of another
size than one, for which no reference definition is stated.

## Not modelled

- The setters of the limiter, `sync_time` and `set_alignment` on a live one, and
  `WsClient::close`: no code calls them.
- MEXC's start-up: two requests, each with a std mutex (`TIME_OFFSET_MS`, `SYMBOLS`)
  kept locked across its `await`. It is the pattern of `ExchangeInit` for an exchange
  that only `GET /symbols` constructs.
- MEXC's private requests (signing, sending, parsing), `base/http`, and the routes
  that only read: no state of their own.
- The server's own threads and what it does with a worker that panicked.
- Vendored crates (`clocksource`, `tokio-macros`) and entry points that are not
  built (`main-docker.rs`, `test.rs`, `worker/worker.rs`).
- The debugging dump (`backup`, `BREAKPOINT`, `TEMP`), which keeps every message for
  ever, and the wording of messages.

## Running

    tlc -workers 2 -config MC_GateBook.cfg MC_GateBook
    tlapm GateBookProofs.tla
