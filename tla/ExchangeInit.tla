---------------------------- MODULE ExchangeInit ----------------------------
(***************************************************************************)
(* How exchanges are set up: GateExchange::new and BinanceExchange::new    *)
(* (exchange/*/public/constructor.rs), joined by setup_exchanges           *)
(* (utils/exchange.rs), which every worker runs when it starts and         *)
(* POST /monitor/start once more; GET /orderbook runs GateExchange::new    *)
(* for each request.                                                       *)
(*                                                                         *)
(* The clock offset and the assets of an exchange are statics, filled once *)
(* under a std Mutex whose guard is kept across the await of the request.  *)
(* Such a lock blocks the thread, and with it every task the thread runs,  *)
(* so the state includes which task a thread is polling and how far it is. *)
(*                                                                         *)
(* The two constructors differ in URLs, limiters and parsing, which are    *)
(* left out.  A response without a time or without spot assets counts as a *)
(* failure, as it does for the code that asks next.                        *)
(***************************************************************************)
EXTENDS Naturals, Sequences

CONSTANTS
  Threads,    \* the workers' threads, one executor each
  Tasks,      \* the tasks that set up exchanges
  Exchanges,
  NoTask,
  ThreadOf,   \* the thread of each task
  Joins       \* the constructors each task joins, in the order they are polled

ASSUME InitAssumption ==
  /\ NoTask \notin Tasks
  /\ ThreadOf \in [Tasks -> Threads]
  /\ Joins \in [Tasks -> Seq(Exchanges) \ {<< >>}]

VARIABLES
  pc,         \* where the constructor of an exchange is, in each task
  polled,     \* the task a thread is polling
  branch,     \* the constructor of that task it has reached
  sync_time,  \* who holds SYNC_TIME (and TIME_OFFSET_MS), per exchange
  load,       \* who holds LOAD_ASSETS, per exchange
  offset,     \* whether TIME_OFFSET_MS and the limiters are set
  assets,     \* whether ASSETS is filled
  aborted     \* a panic has aborted the process

vars == <<pc, polled, branch, sync_time, load, offset, assets, aborted>>

\* sync, load: about to lock.  syncing, loading: awaiting the response, with
\* the lock.  The others: the response is there.
Answered == {"synced", "sync_failed", "loaded", "load_failed"}
PCs == {"sync", "syncing", "load", "loading", "done"} \cup Answered

Init ==
  /\ pc = [k \in Tasks |-> [e \in Exchanges |-> "sync"]]
  /\ polled = [t \in Threads |-> NoTask]
  /\ branch = [t \in Threads |-> 1]
  /\ sync_time = [e \in Exchanges |-> NoTask]
  /\ load = [e \in Exchanges |-> NoTask]
  /\ offset = [e \in Exchanges |-> FALSE]
  /\ assets = [e \in Exchanges |-> FALSE]
  /\ aborted = FALSE

-----------------------------------------------------------------------------
Joined(k) == {Joins[k][i] : i \in DOMAIN Joins[k]}

Done(k) == \A e \in Joined(k) : pc[k][e] = "done"

\* Thread t runs the constructor of e within the join of task k.
At(t, k, e) ==
  /\ ~aborted
  /\ k = polled[t] /\ k \in Tasks
  /\ e = Joins[k][branch[t]]

Goto(k, e, label) == pc' = [pc EXCEPT ![k][e] = label]

Stay == UNCHANGED <<polled, branch>>

\* The constructor is pending or complete: the join polls the next one, and
\* after the last the task is suspended or ends.
Leave(t, k) ==
  /\ polled' = [polled EXCEPT ![t] = IF branch[t] < Len(Joins[k]) THEN k ELSE NoTask]
  /\ branch' = [branch EXCEPT ![t] = IF branch[t] < Len(Joins[k]) THEN @ + 1 ELSE 1]

\* An idle thread polls a new task or one that has an answer.
Poll(t, k) ==
  /\ ~aborted
  /\ polled[t] = NoTask /\ ThreadOf[k] = t
  /\ \E e \in Joined(k) : pc[k][e] = "sync" \/ pc[k][e] \in Answered
  /\ polled' = [polled EXCEPT ![t] = k]
  /\ branch' = [branch EXCEPT ![t] = 1]
  /\ UNCHANGED <<pc, sync_time, load, offset, assets, aborted>>

Skip(t, k, e) ==
  /\ At(t, k, e)
  /\ pc[k][e] \in {"syncing", "loading", "done"}
  /\ Leave(t, k)
  /\ UNCHANGED <<pc, sync_time, load, offset, assets, aborted>>

-----------------------------------------------------------------------------
(* sync_time                                                               *)

\* Mutant: the guard is dropped before the request.
LockSyncBriefly(t, k, e) ==
  /\ At(t, k, e) /\ pc[k][e] = "sync" /\ sync_time[e] = NoTask
  /\ \/ offset[e] /\ Goto(k, e, "load") /\ Stay
     \/ ~offset[e] /\ Goto(k, e, "syncing") /\ Leave(t, k)
  /\ UNCHANGED <<sync_time, load, offset, assets, aborted>>

\* Blocks the thread while another task holds the lock.
LockSync(t, k, e) ==
  /\ At(t, k, e) /\ pc[k][e] = "sync" /\ sync_time[e] = NoTask
  /\ \/ offset[e] /\ Goto(k, e, "load") /\ Stay /\ UNCHANGED sync_time
     \/ /\ ~offset[e]
        /\ sync_time' = [sync_time EXCEPT ![e] = k]
        /\ Goto(k, e, "syncing") /\ Leave(t, k)
  /\ UNCHANGED <<load, offset, assets, aborted>>

\* A success sets the offset and the limiters.  new() ignores an error.
EndSync(t, k, e) ==
  /\ At(t, k, e) /\ pc[k][e] \in {"synced", "sync_failed"}
  /\ sync_time' = [sync_time EXCEPT ![e] = NoTask]
  /\ offset' = [offset EXCEPT ![e] = @ \/ pc[k][e] = "synced"]
  /\ Goto(k, e, "load") /\ Stay
  /\ UNCHANGED <<load, assets, aborted>>

-----------------------------------------------------------------------------
(* load_assets                                                             *)

\* Mutant: assets are requested without a limiter if there is none.
LockLoadUnlimited(t, k, e) ==
  /\ At(t, k, e) /\ pc[k][e] = "load" /\ load[e] = NoTask
  /\ \/ assets[e] /\ Goto(k, e, "done") /\ Leave(t, k) /\ UNCHANGED load
     \/ /\ ~assets[e]
        /\ load' = [load EXCEPT ![e] = k]
        /\ Goto(k, e, "loading") /\ Leave(t, k)
  /\ UNCHANGED <<sync_time, offset, assets, aborted>>

\* Blocks the thread while another task holds the lock.  Without a limiter,
\* because no time was synchronised, the expect of fetch_assets_by aborts.
LockLoad(t, k, e) ==
  /\ At(t, k, e) /\ pc[k][e] = "load" /\ load[e] = NoTask
  /\ \/ assets[e] /\ Goto(k, e, "done") /\ Leave(t, k) /\ UNCHANGED <<load, aborted>>
     \/ /\ ~assets[e] /\ offset[e]
        /\ load' = [load EXCEPT ![e] = k]
        /\ Goto(k, e, "loading") /\ Leave(t, k)
        /\ aborted' = aborted
     \/ /\ ~assets[e] /\ ~offset[e]
        /\ aborted' = TRUE
        /\ Stay /\ UNCHANGED <<pc, load>>
  /\ UNCHANGED <<sync_time, offset, assets>>

\* Mutant: an error returns without releasing the lock.
EndLoadLeaking(t, k, e) ==
  /\ At(t, k, e) /\ pc[k][e] \in {"loaded", "load_failed"}
  /\ load' = [load EXCEPT ![e] = IF pc[k][e] = "loaded" THEN NoTask ELSE @]
  /\ assets' = [assets EXCEPT ![e] = @ \/ pc[k][e] = "loaded"]
  /\ Goto(k, e, "done") /\ Leave(t, k)
  /\ UNCHANGED <<sync_time, offset, aborted>>

EndLoad(t, k, e) ==
  /\ At(t, k, e) /\ pc[k][e] \in {"loaded", "load_failed"}
  /\ load' = [load EXCEPT ![e] = NoTask]
  /\ assets' = [assets EXCEPT ![e] = @ \/ pc[k][e] = "loaded"]
  /\ Goto(k, e, "done") /\ Leave(t, k)
  /\ UNCHANGED <<sync_time, offset, aborted>>

-----------------------------------------------------------------------------
\* A request ends: with a usable answer, or an error, or the client's timeout.
Respond(k, e) ==
  /\ ~aborted
  /\ \/ pc[k][e] = "syncing" /\ \E r \in {"synced", "sync_failed"} : Goto(k, e, r)
     \/ pc[k][e] = "loading" /\ \E r \in {"loaded", "load_failed"} : Goto(k, e, r)
  /\ UNCHANGED <<polled, branch, sync_time, load, offset, assets, aborted>>

Run(t) ==
  \E k \in Tasks, e \in Exchanges :
    \/ Skip(t, k, e)
    \/ LockSync(t, k, e) \/ EndSync(t, k, e)
    \/ LockLoad(t, k, e) \/ EndLoad(t, k, e)

Next ==
  \/ \E t \in Threads : Run(t) \/ \E k \in Tasks : Poll(t, k)
  \/ \E k \in Tasks, e \in Exchanges : Respond(k, e)

Spec == Init /\ [][Next]_vars

\* A thread that is not blocked runs, an executor polls the tasks that are
\* ready, and a request ends.  A lock is not handed out fairly: whoever waits
\* for one gets it if it stays free.
Fairness ==
  /\ \A t \in Threads : WF_vars(Run(t))
  /\ \A k \in Tasks : /\ WF_vars(Poll(ThreadOf[k], k))
                      /\ \A e \in Exchanges : WF_vars(Respond(k, e))

FairSpec == Spec /\ Fairness

-----------------------------------------------------------------------------
(* Type invariant.                                                         *)
TypeOK ==
  /\ pc \in [Tasks -> [Exchanges -> PCs]]
  /\ polled \in [Threads -> Tasks \cup {NoTask}]
  /\ branch \in [Threads -> Nat]
  /\ \A t \in Threads : polled[t] \in Tasks => branch[t] \in DOMAIN Joins[polled[t]]
  /\ sync_time \in [Exchanges -> Tasks \cup {NoTask}]
  /\ load \in [Exchanges -> Tasks \cup {NoTask}]
  /\ offset \in [Exchanges -> BOOLEAN]
  /\ assets \in [Exchanges -> BOOLEAN]
  /\ aborted \in BOOLEAN

Syncing(k, e) == pc[k][e] \in {"syncing", "synced", "sync_failed"}
Loading(k, e) == pc[k][e] \in {"loading", "loaded", "load_failed"}

(* The purpose of the locks: whatever the threads do, an exchange is asked *)
(* for its time, and for its assets, by one task at a time, and by none    *)
(* once the answer is known.                                               *)
AskedOnce ==
  \A e \in Exchanges :
    /\ \A j, k \in Tasks : Syncing(j, e) /\ Syncing(k, e) => j = k
    /\ \A j, k \in Tasks : Loading(j, e) /\ Loading(k, e) => j = k
    /\ offset[e] => \A k \in Tasks : ~Syncing(k, e)
    /\ assets[e] => \A k \in Tasks : ~Loading(k, e)

(* The limiters are statics without a default, set when the time is        *)
(* synchronised, and everything after new() expects them: whoever loads    *)
(* assets, or is done with an exchange, finds them set.                    *)
LimitersAreSet ==
  \A k \in Tasks, e \in Exchanges :
    Loading(k, e) \/ pc[k][e] = "done" \/ assets[e] => offset[e]

\* The task whose lock a blocked thread waits for; NoTask if it is not blocked.
WaitsFor(t) ==
  IF aborted \/ polled[t] = NoTask THEN NoTask
  ELSE LET k == polled[t]
           e == Joins[k][branch[t]]
       IN  CASE pc[k][e] = "sync" -> sync_time[e]
             [] pc[k][e] = "load" -> load[e]
             [] OTHER             -> NoTask

\* Every thread of S is blocked on a lock whose holder only a thread of S runs.
Deadlocked(S) ==
  /\ S # {}
  /\ \A t \in S : WaitsFor(t) # NoTask /\ ThreadOf[WaitsFor(t)] \in S

(* cross_assets_all_exchanges, "Instancia todas as exchanges" (main.rs):   *)
(* no thread is blocked for ever on the way.                               *)
NoDeadlock == \A S \in SUBSET Threads : ~Deadlocked(S)

(* A set-up that has begun ends, unless the process aborts or threads are  *)
(* deadlocked: nothing else can hold it up.                                *)
SetupEnds ==
  \A k \in Tasks :
    polled[ThreadOf[k]] = k
      ~> (Done(k) \/ aborted \/ \E S \in SUBSET Threads : Deadlocked(S))
=============================================================================
