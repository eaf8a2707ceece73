------------------------------ MODULE Dispatch ------------------------------
(***************************************************************************)
(* How symbols are spread over the workers (main.rs, worker/mod.rs).       *)
(*                                                                         *)
(* Each of the server's threads takes a number, publishes a channel under  *)
(* it and starts worker_loop, all while other threads already serve HTTP.  *)
(* POST /monitor/start spawns cross_assets_all_exchanges, which gives each *)
(* symbol a worker and sends it the symbol's arbitrages; POST              *)
(* /arbitrage/{symbol}/start gives a symbol without a worker one, too.     *)
(*                                                                         *)
(* The channels are unbounded, so send() never waits.  The threads are     *)
(* told apart by their numbers only.  An action ends where a lock is       *)
(* released.                                                               *)
(*                                                                         *)
(* setup_exchanges() is the subject of ExchangeInit.  Here it may return   *)
(* or not: it may wait for ever for a lock, or panic.  A panic, which ends *)
(* its task or the process, shows as steps that are not taken any more.    *)
(***************************************************************************)
EXTENDS Naturals, FiniteSets, SequencesExt

CONSTANTS
  NumCpus,   \* num_cpus::get(): the number of workers
  Symbols,   \* the keys of symbol_map
  Calls,     \* the requests to /monitor/start
  Requests   \* the requests to /arbitrage/{symbol}/start

VARIABLES
  worker,           \* how far worker w has come
  worker_channels,  \* the numbers that have a channel
  queue,            \* what waits in each channel
  monitored,        \* the symbols whose arbitrages each worker monitors
  next_worker,
  symbol_map,       \* the worker of each symbol that has one
  started,
  arbitrages,       \* the symbols whose arbitrages were listed, in order
  cross,            \* what each call's task is doing,
  left,             \* the symbols it has still to hand out,
  held,             \* and the symbol and worker in its hands
  request           \* where each arbitrage request is

workers == <<worker, worker_channels, monitored>>
mapping == <<next_worker, symbol_map>>
handouts == <<cross, left, held>>
vars    == <<workers, queue, mapping, started, arbitrages, handouts, request>>

Workers == 0 .. NumCpus - 1

\* Every number fetch_add can give out.
Numbers == 0 .. Cardinality(Symbols) - 1

Message(kind, s) == [kind |-> kind, symbol |-> s]
Charge(s, n)     == [symbol |-> s, worker |-> n]

\* What a task or a request holds before and after.
Nobody   == [symbol |-> "none", worker |-> 0]
Answered == [answered : {"Started!", "Worker not found"}]

-----------------------------------------------------------------------------
(* on_worker_start and worker_loop                                         *)

\* last_id.fetch_add(1)
last_id == Cardinality({w \in Workers : worker[w] # "absent"})

TakeNumber ==
  /\ last_id < NumCpus
  /\ worker' = [worker EXCEPT ![last_id] = "numbered"]
  /\ UNCHANGED <<mapping, handouts, worker_channels, queue, monitored, started, arbitrages, request>>

Register(w) ==
  /\ worker[w] = "numbered"
  /\ worker' = [worker EXCEPT ![w] = "setup"]
  /\ worker_channels' = worker_channels \cup {w}
  /\ UNCHANGED <<mapping, handouts, queue, monitored, started, arbitrages, request>>

\* setup_exchanges() returns, if it does.
SetUp(w) ==
  /\ worker[w] = "setup"
  /\ worker' = [worker EXCEPT ![w] = "loop"]
  /\ UNCHANGED <<mapping, handouts, worker_channels, queue, monitored, started, arbitrages, request>>

\* Mutant: the request is awaited, so monitoring never lets go of the loop.
ReceiveInLine(w) ==
  /\ worker[w] = "loop" /\ queue[w] # << >> /\ monitored[w] = {}
  /\ queue' = [queue EXCEPT ![w] = Tail(@)]
  /\ monitored' = IF Head(queue[w]).kind = "monitor"
                  THEN [monitored EXCEPT ![w] = @ \cup {Head(queue[w]).symbol}] ELSE monitored
  /\ UNCHANGED <<mapping, handouts, worker, worker_channels, started, arbitrages, request>>

\* A request becomes a task beside those that run.  start_monitor never ends;
\* nothing is done for an arbitrage request.
Receive(w) ==
  /\ worker[w] = "loop" /\ queue[w] # << >>
  /\ queue' = [queue EXCEPT ![w] = Tail(@)]
  /\ monitored' = IF Head(queue[w]).kind = "monitor"
                  THEN [monitored EXCEPT ![w] = @ \cup {Head(queue[w]).symbol}] ELSE monitored
  /\ UNCHANGED <<mapping, handouts, worker, worker_channels, started, arbitrages, request>>

-----------------------------------------------------------------------------
(* symbol_map, under its lock                                              *)

Known(s) == s \in DOMAIN symbol_map

\* insert(s, n)
Mapped(s, n) == [x \in DOMAIN symbol_map \cup {s} |-> IF x = s THEN n ELSE symbol_map[x]]

\* Mutant: whoever has the symbol, the counter decides.
AssignAnew(s, named, n) ==
  /\ n = named
  /\ symbol_map' = Mapped(s, named)
  /\ next_worker' = next_worker + 1

\* Mutant: the number is the counter's next value.
AssignAfter(s, named, n) ==
  IF Known(s)
  THEN n = symbol_map[s] /\ UNCHANGED mapping
  ELSE /\ n = named + 1
       /\ symbol_map' = Mapped(s, named + 1)
       /\ next_worker' = next_worker + 1

\* Symbol s belongs to worker n, its worker or the one the counter names.
Assign(s, named, n) ==
  IF Known(s)
  THEN n = symbol_map[s] /\ UNCHANGED <<mapping>>
  ELSE /\ n = named
       /\ symbol_map' = Mapped(s, named)
       /\ next_worker' = next_worker + 1

\* The message goes to worker n if it has a channel, and nowhere if not.
Send(n, message) ==
  queue' = IF n \in worker_channels THEN [queue EXCEPT ![n] = Append(@, message)] ELSE queue

-----------------------------------------------------------------------------
(* cross_assets_all_exchanges                                              *)

\* A worker serves the request and spawns the task.
PostMonitor(k) ==
  /\ cross[k] = "absent" /\ worker_channels # {}
  /\ cross' = [cross EXCEPT ![k] = "spawned"]
  /\ UNCHANGED <<workers, mapping, queue, started, arbitrages, left, held, request>>

\* Mutant: the second call starts again.
BeginUnchecked(k) ==
  /\ cross[k] = "spawned"
  /\ started' = TRUE
  /\ cross' = [cross EXCEPT ![k] = "setup"]
  /\ UNCHANGED <<workers, mapping, queue, arbitrages, left, held, request>>

\* Only the first to change started goes on.
Begin(k) ==
  /\ cross[k] = "spawned"
  /\ started' = TRUE
  /\ cross' = [cross EXCEPT ![k] = IF started THEN "done" ELSE "setup"]
  /\ UNCHANGED <<workers, mapping, queue, arbitrages, left, held, request>>

\* The exchanges are set up and their assets paired; assets() is None, and
\* unwrap() panics, when loading them failed.  The call may also stay here.
Pair(k) ==
  /\ cross[k] = "setup"
  /\ \/ \E listed \in SUBSET Symbols :
          /\ left' = [left EXCEPT ![k] = listed]
          /\ cross' = [cross EXCEPT ![k] = IF listed = {} THEN "done" ELSE "choose"]
     \/ /\ cross' = [cross EXCEPT ![k] = "panicked"]
        /\ UNCHANGED left
  /\ UNCHANGED <<workers, mapping, queue, started, arbitrages, held, request>>

\* The next symbol, in the order of a HashMap.
Choose(k, s) ==
  /\ cross[k] = "choose" /\ s \in left[k]
  /\ \E n \in Numbers : /\ Assign(s, next_worker % NumCpus, n)
                        /\ held' = [held EXCEPT ![k] = Charge(s, n)]
  /\ left' = [left EXCEPT ![k] = @ \ {s}]
  /\ cross' = [cross EXCEPT ![k] = "list"]
  /\ UNCHANGED <<workers, queue, started, arbitrages, request>>

List(k) ==
  /\ cross[k] = "list"
  /\ arbitrages' = Append(arbitrages, held[k].symbol)
  /\ cross' = [cross EXCEPT ![k] = "hand"]
  /\ UNCHANGED <<workers, mapping, queue, started, left, held, request>>

Hand(k) ==
  /\ cross[k] = "hand"
  /\ Send(held[k].worker, Message("monitor", held[k].symbol))
  /\ held' = [held EXCEPT ![k] = Nobody]
  /\ cross' = [cross EXCEPT ![k] = IF left[k] = {} THEN "done" ELSE "choose"]
  /\ UNCHANGED <<workers, mapping, started, arbitrages, left, request>>

-----------------------------------------------------------------------------
(* start_arbitrage                                                         *)

\* A symbol without a worker gets the number itself, whatever NumCpus is.
Claim(r, s) ==
  /\ request[r] = Nobody /\ worker_channels # {}
  /\ \E n \in Numbers : /\ Assign(s, next_worker, n)
                        /\ request' = [request EXCEPT ![r] = Charge(s, n)]
  /\ UNCHANGED <<workers, handouts, queue, started, arbitrages>>

Command(r) ==
  /\ request[r] \notin {Nobody} \cup Answered
  /\ Send(request[r].worker, Message("arbitrage", request[r].symbol))
  /\ request' = [request EXCEPT ![r] = [answered |->
       IF request[r].worker \in worker_channels THEN "Started!" ELSE "Worker not found"]]
  /\ UNCHANGED <<workers, mapping, handouts, started, arbitrages>>

-----------------------------------------------------------------------------
Init ==
  /\ worker = [w \in Workers |-> "absent"]
  /\ worker_channels = {}
  /\ queue = [w \in Workers |-> << >>]
  /\ monitored = [w \in Workers |-> {}]
  /\ next_worker = 0
  /\ symbol_map = << >>
  /\ started = FALSE
  /\ arbitrages = << >>
  /\ cross = [k \in Calls |-> "absent"]
  /\ left = [k \in Calls |-> {}]
  /\ held = [k \in Calls |-> Nobody]
  /\ request = [r \in Requests |-> Nobody]

WorkerStep(w) == Register(w) \/ SetUp(w) \/ Receive(w)

\* What follows setup_exchanges() runs in one poll: the locks are held for a
\* few statements, and an unbounded channel takes a message at once.
HandOut(k) == List(k) \/ Hand(k) \/ \E s \in Symbols : Choose(k, s)

CrossStep(k) == Begin(k) \/ Pair(k) \/ HandOut(k)

Next ==
  \/ TakeNumber
  \/ \E w \in Workers : WorkerStep(w)
  \/ \E k \in Calls : PostMonitor(k) \/ CrossStep(k)
  \/ \E r \in Requests : Command(r) \/ \E s \in Symbols : Claim(r, s)

-----------------------------------------------------------------------------
(* Type invariant: every worker given out was named by the counter.        *)
TypeOK ==
  /\ worker \in [Workers -> {"absent", "numbered", "setup", "loop"}]
  /\ worker_channels = {w \in Workers : worker[w] \in {"setup", "loop"}}
  /\ queue \in [Workers -> Seq([kind : {"monitor", "arbitrage"}, symbol : Symbols])]
  /\ monitored \in [Workers -> SUBSET Symbols]
  /\ next_worker \in Nat
  /\ DOMAIN symbol_map \subseteq Symbols
  /\ \A s \in DOMAIN symbol_map : symbol_map[s] \in 0 .. next_worker - 1
  /\ started \in BOOLEAN
  /\ arbitrages \in Seq(Symbols)
  /\ cross \in [Calls -> {"absent", "spawned", "setup", "choose", "list", "hand", "done", "panicked"}]
  /\ left \in [Calls -> SUBSET Symbols]
  /\ held \in [Calls -> [symbol : Symbols, worker : Numbers] \cup {Nobody}]
  /\ request \in [Requests -> [symbol : Symbols, worker : Numbers] \cup {Nobody} \cup Answered]

(* A symbol's commands and its monitoring meet at one worker, the one      *)
(* symbol_map names: whichever request came first, and on whatever thread. *)
Routed ==
  \A w \in Workers, s \in Symbols :
    s \in monitored[w] \/ (\E i \in DOMAIN queue[w] : queue[w][i].symbol = s)
      => Known(s) /\ symbol_map[s] = w

\* Where monitoring of s is: with a worker, or on its way in a queue.
Places(s) ==
  {<<w, 0>> : w \in {v \in Workers : s \in monitored[v]}}
  \cup UNION {{w} \X {i \in DOMAIN queue[w] : queue[w][i] = Message("monitor", s)} : w \in Workers}

(* However often monitoring is started, a symbol is listed once and        *)
(* monitored once in the whole server.                                     *)
MonitoredOnce ==
  /\ IsInjective(arbitrages)
  /\ \A s \in Symbols : \A p, q \in Places(s) : p = q

\* The task that runs worker_loop goes on: its thread is not blocked and no
\* panic has ended it.  Likewise for a call once setup_exchanges() is behind it.
GoesOn(w)     == WF_vars(Receive(w))
HandsOut(k)   == WF_vars(HandOut(k))

(* Once every worker has its channel, what a call has paired is monitored  *)
(* by the worker symbol_map names, if that worker gets through its set-up  *)
(* and goes on: however the calls, the requests, and the monitoring of     *)
(* other symbols, which never ends, interleave, and whatever becomes of    *)
(* the other workers.                                                      *)
HandOutsReachWorkers ==
  \A w \in Workers :
    GoesOn(w) /\ (\A k \in Calls : HandsOut(k)) =>
      \A s \in Symbols :
        (\E k \in Calls : s \in left[k]) /\ worker_channels = Workers
          ~> \/ s \in monitored[w]
             \/ Known(s) /\ symbol_map[s] # w
             \/ [](worker[w] # "loop")
=============================================================================
