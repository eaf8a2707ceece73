---------------------------- MODULE ThreadsProofs ---------------------------
(***************************************************************************)
(* Proofs about the parts of MC_Threads.  The set-up of the exchanges: for *)
(* any number of threads, tasks and exchanges it keeps its types, asks     *)
(* nothing twice, and sets the limiters before they are used.  The         *)
(* dispatch: for any number of workers, symbols, calls and requests every  *)
(* symbol is routed to its worker, and monitored once.                     *)
(***************************************************************************)
EXTENDS MC_Threads, FiniteSetTheorems, TLAPS

-----------------------------------------------------------------------------
(* The set-up of the exchanges                                            *)

(* Whoever awaits a response holds the lock of what it asks for. *)
Holders ==
  \A k \in Tasks, e \in Exchanges :
    /\ Syncing(k, e) => sync_time[e] = k
    /\ Loading(k, e) => load[e] = k

SetupInv == TypeOK /\ Holders /\ AskedOnce /\ LimitersAreSet

\* The join moves on to a constructor it has, or the task is left.
LEMMA LeaveStaysInJoin ==
  ASSUME TypeOK, NEW t \in Threads, NEW k \in Tasks, polled[t] = k, Leave(t, k)
  PROVE  /\ polled' \in [Threads -> Tasks \cup {NoTask}]
         /\ branch' \in [Threads -> Nat]
         /\ \A u \in Threads : polled'[u] \in Tasks => branch'[u] \in DOMAIN Joins[polled'[u]]
<1> USE InitAssumption
<1>1. Joins[k] \in Seq(Exchanges) /\ Len(Joins[k]) \in Nat
      /\ DOMAIN Joins[k] = 1 .. Len(Joins[k])
  OBVIOUS
<1>2. branch[t] \in DOMAIN Joins[k]
  BY DEF TypeOK
<1>3. polled' \in [Threads -> Tasks \cup {NoTask}] /\ branch' \in [Threads -> Nat]
  BY <1>1, <1>2 DEF Leave, TypeOK
<1>4. ASSUME NEW u \in Threads, polled'[u] \in Tasks
      PROVE  branch'[u] \in DOMAIN Joins[polled'[u]]
  <2>1. CASE u = t
    BY <1>1, <1>2, <1>4, <2>1 DEF Leave, TypeOK
  <2>2. CASE u # t
    BY <1>4, <2>2 DEF Leave, TypeOK
  <2> QED BY <2>1, <2>2
<1> QED BY <1>3, <1>4

LEMMA InitInvariant == Init => SetupInv
<1> SUFFICES ASSUME Init PROVE SetupInv
  OBVIOUS
<1> USE InitAssumption DEF Init
<1>1. TypeOK
  BY DEF TypeOK, PCs, Answered
<1>2. Holders /\ AskedOnce /\ LimitersAreSet
  BY DEF Holders, AskedOnce, LimitersAreSet, Syncing, Loading
<1> QED BY <1>1, <1>2 DEF SetupInv

(***************************************************************************)
(* One lemma per action.                                                   *)
(***************************************************************************)
LEMMA PollInvariant ==
  ASSUME SetupInv, NEW t \in Threads, NEW k \in Tasks, Poll(t, k)
  PROVE  SetupInv'
<1> USE InitAssumption DEF SetupInv
<1>1. 1 \in DOMAIN Joins[k]
  <2>1. Joins[k] \in Seq(Exchanges) /\ Joins[k] # << >>
    OBVIOUS
  <2> QED BY <2>1
<1>2. TypeOK'
  BY <1>1 DEF TypeOK, Poll
<1>3. Holders' /\ AskedOnce' /\ LimitersAreSet'
  BY DEF Poll, Holders, AskedOnce, LimitersAreSet, Syncing, Loading
<1> QED BY <1>2, <1>3

LEMMA SkipInvariant ==
  ASSUME SetupInv, NEW t \in Threads, NEW k \in Tasks, NEW e \in Exchanges, Skip(t, k, e)
  PROVE  SetupInv'
<1> USE InitAssumption DEF SetupInv
<1>1. TypeOK'
  BY LeaveStaysInJoin DEF TypeOK, Skip, At
<1>2. Holders' /\ AskedOnce' /\ LimitersAreSet'
  BY DEF Skip, Holders, AskedOnce, LimitersAreSet, Syncing, Loading
<1> QED BY <1>1, <1>2

\* A lock that is free is held by nobody.
LEMMA FreeLock ==
  ASSUME SetupInv, NEW e \in Exchanges
  PROVE  /\ sync_time[e] = NoTask => \A k \in Tasks : ~Syncing(k, e)
         /\ load[e] = NoTask => \A k \in Tasks : ~Loading(k, e)
BY InitAssumption DEF SetupInv, Holders

LEMMA LockSyncInvariant ==
  ASSUME SetupInv, NEW t \in Threads, NEW k \in Tasks, NEW e \in Exchanges, LockSync(t, k, e)
  PROVE  SetupInv'
<1> USE InitAssumption, FreeLock DEF SetupInv
<1>1. CASE /\ offset[e] /\ Goto(k, e, "load") /\ Stay /\ UNCHANGED sync_time
  <2>1. TypeOK'
    BY <1>1 DEF TypeOK, LockSync, Goto, Stay, PCs
  <2>2. Holders' /\ AskedOnce' /\ LimitersAreSet'
    BY <1>1 DEF TypeOK, LockSync, Goto, Holders, AskedOnce, LimitersAreSet, Syncing, Loading
  <2> QED BY <2>1, <2>2
<1>2. CASE /\ ~offset[e]
           /\ sync_time' = [sync_time EXCEPT ![e] = k]
           /\ Goto(k, e, "syncing") /\ Leave(t, k)
  <2>1. TypeOK'
    BY <1>2, LeaveStaysInJoin DEF TypeOK, LockSync, At, Goto, PCs
  <2>2. Holders'
    BY <1>2 DEF TypeOK, LockSync, Goto, Holders, Syncing, Loading
  <2>3. AskedOnce'
    BY <1>2 DEF TypeOK, LockSync, Goto, AskedOnce, Syncing, Loading
  <2>4. LimitersAreSet'
    BY <1>2 DEF TypeOK, LockSync, Goto, LimitersAreSet, Loading
  <2> QED BY <2>1, <2>2, <2>3, <2>4
<1> QED BY <1>1, <1>2 DEF LockSync

LEMMA EndSyncInvariant ==
  ASSUME SetupInv, NEW t \in Threads, NEW k \in Tasks, NEW e \in Exchanges, EndSync(t, k, e)
  PROVE  SetupInv'
<1> USE InitAssumption DEF SetupInv
<1>1. TypeOK'
  BY DEF TypeOK, EndSync, Goto, Stay, PCs
<1>2. \A j \in Tasks : Syncing(j, e) => j = k
  BY DEF EndSync, Syncing, AskedOnce
<1>3. Holders'
  BY <1>2 DEF TypeOK, EndSync, Goto, Holders, Syncing, Loading
<1>4. AskedOnce'
  BY <1>2 DEF TypeOK, EndSync, Goto, AskedOnce, Syncing, Loading
<1>5. LimitersAreSet'
  BY DEF TypeOK, EndSync, Goto, LimitersAreSet, Loading
<1> QED BY <1>1, <1>3, <1>4, <1>5

LEMMA LockLoadInvariant ==
  ASSUME SetupInv, NEW t \in Threads, NEW k \in Tasks, NEW e \in Exchanges, LockLoad(t, k, e)
  PROVE  SetupInv'
<1> USE InitAssumption, FreeLock DEF SetupInv
<1>1. CASE assets[e] /\ Goto(k, e, "done") /\ Leave(t, k) /\ UNCHANGED <<load, aborted>>
  <2>1. TypeOK'
    BY <1>1, LeaveStaysInJoin DEF TypeOK, LockLoad, At, Goto, PCs
  <2>2. Holders' /\ AskedOnce'
    BY <1>1 DEF TypeOK, LockLoad, Goto, Holders, AskedOnce, Syncing, Loading
  <2>3. LimitersAreSet'
    BY <1>1 DEF TypeOK, LockLoad, Goto, LimitersAreSet, Loading
  <2> QED BY <2>1, <2>2, <2>3
<1>2. CASE /\ ~assets[e] /\ offset[e]
           /\ load' = [load EXCEPT ![e] = k]
           /\ Goto(k, e, "loading") /\ Leave(t, k)
           /\ aborted' = aborted
  <2>1. TypeOK'
    BY <1>2, LeaveStaysInJoin DEF TypeOK, LockLoad, At, Goto, PCs
  <2>2. Holders'
    BY <1>2 DEF TypeOK, LockLoad, Goto, Holders, Syncing, Loading
  <2>3. AskedOnce'
    BY <1>2 DEF TypeOK, LockLoad, Goto, AskedOnce, Syncing, Loading
  <2>4. LimitersAreSet'
    BY <1>2 DEF TypeOK, LockLoad, Goto, LimitersAreSet, Loading
  <2> QED BY <2>1, <2>2, <2>3, <2>4
<1>3. CASE /\ ~assets[e] /\ ~offset[e]
           /\ aborted' = TRUE
           /\ Stay /\ UNCHANGED <<pc, load>>
  <2>1. TypeOK'
    BY <1>3 DEF TypeOK, LockLoad, Stay
  <2>2. Holders' /\ AskedOnce' /\ LimitersAreSet'
    BY <1>3 DEF LockLoad, Holders, AskedOnce, LimitersAreSet, Syncing, Loading
  <2> QED BY <2>1, <2>2
<1> QED BY <1>1, <1>2, <1>3 DEF LockLoad

LEMMA EndLoadInvariant ==
  ASSUME SetupInv, NEW t \in Threads, NEW k \in Tasks, NEW e \in Exchanges, EndLoad(t, k, e)
  PROVE  SetupInv'
<1> USE InitAssumption DEF SetupInv
<1>1. TypeOK'
  BY LeaveStaysInJoin DEF TypeOK, EndLoad, At, Goto, PCs
<1>2. Loading(k, e) /\ \A j \in Tasks : Loading(j, e) => j = k
  BY DEF EndLoad, Loading, AskedOnce
<1>3. Holders'
  BY <1>2 DEF TypeOK, EndLoad, Goto, Holders, Syncing, Loading
<1>4. AskedOnce'
  BY <1>2 DEF TypeOK, EndLoad, Goto, AskedOnce, Syncing, Loading
<1>5. offset[e]
  BY <1>2 DEF LimitersAreSet
<1>6. LimitersAreSet'
  BY <1>5 DEF TypeOK, EndLoad, Goto, LimitersAreSet, Loading
<1> QED BY <1>1, <1>3, <1>4, <1>6

\* An answer leaves the task where its lock is.
LEMMA AnswerKeepsLock ==
  ASSUME SetupInv, NEW k \in Tasks, NEW e \in Exchanges, NEW label \in PCs, Goto(k, e, label),
         \/ Syncing(k, e) /\ label \in {"synced", "sync_failed"}
         \/ Loading(k, e) /\ label \in {"loaded", "load_failed"},
         UNCHANGED <<polled, branch, sync_time, load, offset, assets, aborted>>
  PROVE  SetupInv'
<1> USE DEF SetupInv
<1>1. TypeOK'
  BY DEF TypeOK, Goto
<1>2. \A j \in Tasks, f \in Exchanges :
        /\ Syncing(j, f)' <=> Syncing(j, f)
        /\ Loading(j, f)' <=> Loading(j, f)
        /\ pc'[j][f] = "done" <=> pc[j][f] = "done"
  BY DEF TypeOK, Goto, Syncing, Loading
<1>3. Holders' /\ AskedOnce' /\ LimitersAreSet'
  BY <1>2 DEF Holders, AskedOnce, LimitersAreSet
<1> QED BY <1>1, <1>3

LEMMA RespondInvariant ==
  ASSUME SetupInv, NEW k \in Tasks, NEW e \in Exchanges, Respond(k, e)
  PROVE  SetupInv'
<1>1. CASE pc[k][e] = "syncing" /\ \E r \in {"synced", "sync_failed"} : Goto(k, e, r)
  BY <1>1, AnswerKeepsLock DEF Respond, Syncing, PCs, Answered
<1>2. CASE pc[k][e] = "loading" /\ \E r \in {"loaded", "load_failed"} : Goto(k, e, r)
  BY <1>2, AnswerKeepsLock DEF Respond, Loading, PCs, Answered
<1> QED BY <1>1, <1>2 DEF Respond

LEMMA NextInvariant == SetupInv /\ [Next]_vars => SetupInv'
<1> SUFFICES ASSUME SetupInv, [Next]_vars PROVE SetupInv'
  OBVIOUS
<1>1. ASSUME NEW t \in Threads, NEW k \in Tasks, Poll(t, k) PROVE SetupInv'
  BY <1>1, PollInvariant
<1>2. ASSUME NEW t \in Threads, Run(t) PROVE SetupInv'
  BY <1>2, SkipInvariant, LockSyncInvariant, EndSyncInvariant, LockLoadInvariant,
     EndLoadInvariant DEF Run
<1>3. ASSUME NEW k \in Tasks, NEW e \in Exchanges, Respond(k, e) PROVE SetupInv'
  BY <1>3, RespondInvariant
<1>4. CASE UNCHANGED vars
  BY <1>4 DEF vars, SetupInv, TypeOK, Holders, AskedOnce, LimitersAreSet, Syncing, Loading
<1> QED BY <1>1, <1>2, <1>3, <1>4 DEF Next

(* The strengthened invariant, from which the three theorems follow. *)
THEOREM SetupInvariance == Spec => []SetupInv
BY InitInvariant, NextInvariant, PTL DEF Spec

(* No thread leaves the type invariant: in particular a task that is polled *)
(* is always at a constructor it joins.                                     *)
THEOREM SetupTypeCorrect == Spec => []TypeOK
<1>1. SetupInv => TypeOK
  BY DEF SetupInv
<1> QED BY <1>1, SetupInvariance, PTL

(* Concurrent set-ups ask an exchange once, for time and for assets. *)
THEOREM NothingAskedTwice == Spec => []AskedOnce
<1>1. SetupInv => AskedOnce
  BY DEF SetupInv
<1> QED BY <1>1, SetupInvariance, PTL

(* Whoever holds an exchange that is set up finds its limiters set. *)
THEOREM LimitersBeforeUse == Spec => []LimitersAreSet
<1>1. SetupInv => LimitersAreSet
  BY DEF SetupInv
<1> QED BY <1>1, SetupInvariance, PTL

-----------------------------------------------------------------------------
(* The dispatch of symbols to workers                                      *)

Charges == [symbol : Symbols, worker : D!Numbers]

(* The workers that have a number have the first ones.                     *)
Numbered == \E n \in 0 .. NumCpus : {w \in D!Workers : worker[w] # "absent"} = 0 .. (n - 1)

(* Who has a symbol in its hands has its worker, too.                      *)
Held ==
  /\ \A k \in Calls : cross[k] \in {"list", "hand"} =>
       held[k].symbol \in DOMAIN symbol_map /\ symbol_map[held[k].symbol] = held[k].worker
  /\ \A r \in Requests : request[r] \notin {D!Nobody} \cup D!Answered =>
       request[r].symbol \in DOMAIN symbol_map /\ symbol_map[request[r].symbol] = request[r].worker

RoutedInv == DispatchTypeOK /\ Numbered /\ Held /\ Routed


-----------------------------------------------------------------------------
(* The counter modulo the number of workers names a worker, and is not     *)
(* above itself.                                                           *)
LEMMA Modulo ==
  ASSUME NEW n \in Nat
  PROVE  n % NumCpus \in 0 .. NumCpus - 1 /\ n % NumCpus =< n
  BY CpusAssumption

(* A step of the composition is a step of the dispatch or leaves it alone. *)
LEMMA DispatchMoves == [ThreadsNext]_threads => [D!Next]_dispatch
  BY DEF ThreadsNext, threads, StartingUp, Dispatching, Looping

(* fetch_add gives the next number, of a worker that had none.             *)
LEMMA NextNumber ==
  ASSUME DispatchTypeOK, Numbered, D!TakeNumber
  PROVE  /\ D!last_id \in D!Workers /\ worker[D!last_id] = "absent"
         /\ Numbered'
<1>1. PICK n \in 0 .. NumCpus : {w \in D!Workers : worker[w] # "absent"} = 0 .. (n - 1)
  BY DEF Numbered
<1>2. D!last_id = n
  <2>1. Cardinality(0 .. (n - 1)) = n
    BY <1>1, CpusAssumption, FS_Interval
  <2> QED
    BY <1>1, <2>1 DEF D!last_id, D!Cardinality, Cardinality
<1>3. n < NumCpus /\ worker' = [worker EXCEPT ![n] = "numbered"]
  BY <1>2 DEF D!TakeNumber
<1>4. n \in D!Workers /\ worker[n] = "absent"
  BY <1>1, <1>3, CpusAssumption DEF D!Workers
<1>5. {w \in D!Workers : worker'[w] # "absent"} = 0 .. ((n + 1) - 1)
  BY <1>1, <1>3, <1>4, CpusAssumption DEF D!Workers, DispatchTypeOK, D!TypeOK
<1>6. n + 1 \in 0 .. NumCpus
  BY <1>3, CpusAssumption
<1> QED
  BY <1>2, <1>4, <1>5, <1>6 DEF Numbered

\* What a channel may hold.
Messages == [kind : {"monitor", "arbitrage"}, symbol : Symbols]

(* send() adds one message, at the end of one queue.                       *)
LEMMA SendAppends ==
  ASSUME DispatchTypeOK, NEW n, NEW m \in Messages, D!Send(n, m)
  PROVE  /\ queue' \in [D!Workers -> Seq(Messages)]
         /\ \A w \in D!Workers : \A i1 \in DOMAIN queue'[w] :
              \/ i1 \in DOMAIN queue[w] /\ queue'[w][i1] = queue[w][i1]
              \/ w = n /\ i1 = Len(queue[w]) + 1 /\ queue'[w][i1] = m
<1>1. queue \in [D!Workers -> Seq(Messages)] /\ worker_channels \subseteq D!Workers
  BY DEF DispatchTypeOK, D!TypeOK, Messages
<1>2. CASE n \notin worker_channels
  BY <1>1, <1>2 DEF D!Send
<1>3. CASE n \in worker_channels
  <2>1. n \in D!Workers /\ queue' = [queue EXCEPT ![n] = Append(queue[n], m)]
    BY <1>1, <1>3 DEF D!Send
  <2>2. queue[n] \in Seq(Messages) /\ Append(queue[n], m) \in Seq(Messages)
    BY <1>1, <2>1
  <2> QED
    BY <1>1, <2>1, <2>2
<1> QED
  BY <1>2, <1>3

(* Taking the first message leaves the others, one place further on.       *)
LEMMA ReceiveTakes ==
  ASSUME DispatchTypeOK, NEW w \in D!Workers, D!Receive(w)
  PROVE  /\ Head(queue[w]) \in Messages /\ Head(queue[w]) = queue[w][1] /\ 1 \in DOMAIN queue[w]
         /\ queue' \in [D!Workers -> Seq(Messages)]
         /\ \A v \in D!Workers \ {w} : queue'[v] = queue[v]
         /\ \A i1 \in DOMAIN queue'[w] : i1 \in Nat \ {0} /\ i1 + 1 \in DOMAIN queue[w] /\ queue'[w][i1] = queue[w][i1 + 1]
<1>1. queue \in [D!Workers -> Seq(Messages)]
  BY DEF DispatchTypeOK, D!TypeOK, Messages
<1>2. queue[w] \in Seq(Messages) /\ queue[w] # << >> /\ queue' = [queue EXCEPT ![w] = Tail(queue[w])]
  BY <1>1 DEF D!Receive
<1> QED
  BY <1>1, <1>2

(* A new symbol gets the worker that was named; the others keep theirs.    *)
LEMMA AssignExtends ==
  ASSUME DispatchTypeOK, NEW s \in Symbols, NEW named \in 0 .. next_worker, NEW n, D!Assign(s, named, n)
  PROVE  /\ next_worker' \in Nat /\ DOMAIN symbol_map' = DOMAIN symbol_map \cup {s}
         /\ \A x \in DOMAIN symbol_map' : symbol_map'[x] \in 0 .. next_worker' - 1
         /\ \A x \in DOMAIN symbol_map : symbol_map'[x] = symbol_map[x]
         /\ symbol_map'[s] = n
<1> USE DEF DispatchTypeOK, D!TypeOK, D!Assign, D!Known, D!mapping, D!Mapped
<1>1. CASE s \in DOMAIN symbol_map
  BY <1>1
<1>2. CASE s \notin DOMAIN symbol_map
  BY <1>2
<1> QED
  BY <1>1, <1>2

-----------------------------------------------------------------------------
(* One worker for a symbol                                                 *)

LEMMA InitRouted == D!Init => RoutedInv
<1> SUFFICES ASSUME D!Init PROVE RoutedInv
  OBVIOUS
<1> USE DEF D!Init
<1>1. DispatchTypeOK
  <2>1. << >> \in Seq(Messages) /\ << >> \in Seq(Symbols)
    OBVIOUS
  <2>2. queue \in [D!Workers -> Seq(Messages)] /\ arbitrages \in Seq(Symbols)
    BY <2>1
  <2>3. DOMAIN symbol_map = {}
    OBVIOUS
  <2> QED
    BY <2>2, <2>3 DEF DispatchTypeOK, D!TypeOK, Messages
<1>2. Numbered
  <2>1. {w \in D!Workers : worker[w] # "absent"} = 0 .. (0 - 1)
    OBVIOUS
  <2> QED
    BY <2>1, CpusAssumption DEF Numbered
<1>3. Held
  BY DEF Held
<1>4. Routed
  BY DEF Routed, D!Routed
<1> QED
  BY <1>1, <1>2, <1>3, <1>4 DEF RoutedInv

(* No step of a worker disturbs the routing.                               *)
LEMMA WorkerRouted ==
  ASSUME RoutedInv, D!TakeNumber \/ \E w \in D!Workers : D!WorkerStep(w)
  PROVE  RoutedInv'
<1> USE DEF RoutedInv
<1>1. CASE D!TakeNumber
  <2>1. D!last_id \in D!Workers /\ worker[D!last_id] = "absent" /\ Numbered'
    BY <1>1, NextNumber
  <2>2. DispatchTypeOK'
    BY <1>1, <2>1 DEF D!TakeNumber, D!mapping, D!handouts, DispatchTypeOK, D!TypeOK
  <2>3. Held' /\ Routed'
    BY <1>1 DEF D!TakeNumber, D!mapping, D!handouts, Held, Routed, D!Routed, D!Known
  <2> QED
    BY <2>1, <2>2, <2>3
<1>2. ASSUME NEW w \in D!Workers, D!Register(w) \/ D!SetUp(w)
      PROVE  RoutedInv'
  <2>1. DispatchTypeOK'
    BY <1>2 DEF D!Register, D!SetUp, D!mapping, D!handouts, DispatchTypeOK, D!TypeOK
  <2>2. {v \in D!Workers : worker'[v] # "absent"} = {v \in D!Workers : worker[v] # "absent"}
    BY <1>2 DEF D!Register, D!SetUp, DispatchTypeOK, D!TypeOK
  <2>3. Numbered'
    BY <2>2 DEF Numbered
  <2>4. Held' /\ Routed'
    BY <1>2 DEF D!Register, D!SetUp, D!mapping, D!handouts, Held, Routed, D!Routed, D!Known
  <2> QED
    BY <2>1, <2>3, <2>4
<1>3. ASSUME NEW w \in D!Workers, D!Receive(w)
      PROVE  RoutedInv'
  <2>1. UNCHANGED <<worker, worker_channels, next_worker, symbol_map, started, arbitrages, cross, left,
                    held, request>>
    BY <1>3 DEF D!Receive, D!mapping, D!handouts
  <2>2. \A v \in D!Workers : \A s \in monitored'[v] :
          s \in monitored[v] \/ (v = w /\ s = Head(queue[w]).symbol)
    BY <1>3 DEF D!Receive, DispatchTypeOK, D!TypeOK
  <2>3. DispatchTypeOK'
    <3>1. Head(queue[w]).symbol \in Symbols
      BY <1>3, ReceiveTakes DEF Messages
    <3>2. monitored' \in [D!Workers -> SUBSET Symbols]
      BY <1>3, <3>1 DEF D!Receive, DispatchTypeOK, D!TypeOK
    <3> QED
      BY <1>3, <2>1, <3>2, ReceiveTakes DEF DispatchTypeOK, D!TypeOK, Messages
  <2>4. Numbered' /\ Held'
    BY <2>1 DEF Numbered, Held
  <2>5. Routed'
    <3>1. SUFFICES ASSUME NEW v \in D!Workers, NEW s \in Symbols,
                          s \in monitored'[v] \/ \E i1 \in DOMAIN queue'[v] : queue'[v][i1].symbol = s
                   PROVE  s \in monitored[v] \/ \E i1 \in DOMAIN queue[v] : queue[v][i1].symbol = s
      BY <2>1 DEF Routed, D!Routed, D!Known
    <3>2. CASE s \in monitored'[v]
      BY <1>3, <2>2, <3>2, ReceiveTakes
    <3>3. CASE \E i1 \in DOMAIN queue'[v] : queue'[v][i1].symbol = s
      BY <1>3, <3>3, ReceiveTakes
    <3> QED
      BY <3>1, <3>2, <3>3
  <2> QED
    BY <2>3, <2>4, <2>5
<1> QED
  BY <1>1, <1>2, <1>3 DEF D!WorkerStep

(* A message that is sent where symbol_map says keeps the routing.         *)
LEMMA SendRouted ==
  ASSUME DispatchTypeOK, Routed, UNCHANGED <<monitored, symbol_map>>,
         NEW n, NEW m \in Messages, D!Send(n, m),
         m.symbol \in DOMAIN symbol_map, symbol_map[m.symbol] = n
  PROVE  Routed'
<1>1. SUFFICES ASSUME NEW w \in D!Workers, NEW s \in Symbols,
                      s \in monitored[w] \/ \E i1 \in DOMAIN queue'[w] : queue'[w][i1].symbol = s
               PROVE  s \in DOMAIN symbol_map /\ symbol_map[s] = w
  BY DEF Routed, D!Routed, D!Known
<1>2. CASE s \in monitored[w]
  BY <1>2 DEF Routed, D!Routed, D!Known
<1>3. CASE \E i1 \in DOMAIN queue'[w] : queue'[w][i1].symbol = s
  <2>1. (\E i1 \in DOMAIN queue[w] : queue[w][i1].symbol = s) \/ (w = n /\ s = m.symbol)
    BY <1>3, SendAppends
  <2> QED
    BY <2>1 DEF Routed, D!Routed, D!Known
<1> QED
  BY <1>1, <1>2, <1>3

(* A symbol that gets its worker now is nowhere yet.                       *)
LEMMA AssignRouted ==
  ASSUME DispatchTypeOK, Routed, UNCHANGED <<monitored, queue>>,
         NEW s \in Symbols, NEW named \in 0 .. next_worker, NEW n, D!Assign(s, named, n)
  PROVE  Routed'
<1>1. /\ DOMAIN symbol_map' = DOMAIN symbol_map \cup {s}
      /\ \A x \in DOMAIN symbol_map : symbol_map'[x] = symbol_map[x]
  BY AssignExtends
<1> QED
  BY <1>1 DEF Routed, D!Routed, D!Known

(* Nor does a step of a call.                                              *)
LEMMA CrossRouted ==
  ASSUME RoutedInv, NEW k \in Calls, D!PostMonitor(k) \/ D!CrossStep(k)
  PROVE  RoutedInv'
<1> USE DEF RoutedInv
<1>1. CASE D!PostMonitor(k) \/ D!Begin(k) \/ D!Pair(k)
  <2>1. DispatchTypeOK'
    <3>1. CASE D!PostMonitor(k) \/ D!Begin(k)
      BY <3>1 DEF D!PostMonitor, D!Begin, D!workers, D!mapping, DispatchTypeOK, D!TypeOK
    <3>2. CASE D!Pair(k)
      <4>1. /\ left' \in [Calls -> SUBSET Symbols]
            /\ cross' \in [Calls -> {"absent", "spawned", "setup", "choose", "list", "hand", "done", "panicked"}]
        BY <3>2 DEF D!Pair, DispatchTypeOK, D!TypeOK
      <4> QED
        BY <3>2, <4>1 DEF D!Pair, D!workers, D!mapping, DispatchTypeOK, D!TypeOK
    <3> QED
      BY <1>1, <3>1, <3>2
  <2>2. Numbered' /\ Routed'
    BY <1>1 DEF D!PostMonitor, D!Begin, D!Pair, D!workers, D!mapping, Numbered, Routed, D!Routed, D!Known
  <2>3. \A c \in Calls : cross'[c] \in {"list", "hand"} => cross[c] \in {"list", "hand"}
    BY <1>1 DEF D!PostMonitor, D!Begin, D!Pair, DispatchTypeOK, D!TypeOK
  <2>4. Held'
    BY <1>1, <2>3 DEF D!PostMonitor, D!Begin, D!Pair, D!mapping, Held
  <2> QED
    BY <2>1, <2>2, <2>4
<1>2. ASSUME NEW s \in Symbols, D!Choose(k, s)
      PROVE  RoutedInv'
  <2>1. PICK n \in D!Numbers : /\ D!Assign(s, next_worker % NumCpus, n)
                               /\ held' = [held EXCEPT ![k] = D!Charge(s, n)]
    BY <1>2 DEF D!Choose
  <2>2. next_worker % NumCpus \in 0 .. next_worker
    BY Modulo DEF DispatchTypeOK, D!TypeOK
  <2>3. /\ next_worker' \in Nat /\ DOMAIN symbol_map' = DOMAIN symbol_map \cup {s}
        /\ \A x \in DOMAIN symbol_map' : symbol_map'[x] \in 0 .. next_worker' - 1
        /\ \A x \in DOMAIN symbol_map : symbol_map'[x] = symbol_map[x]
        /\ symbol_map'[s] = n
    BY <2>1, <2>2, AssignExtends
  <2>4. held' \in [Calls -> Charges \cup {D!Nobody}]
    BY <2>1 DEF D!Charge, Charges, DispatchTypeOK, D!TypeOK
  <2>5. DispatchTypeOK'
    BY <1>2, <2>3, <2>4 DEF D!Choose, D!workers, Charges, DispatchTypeOK, D!TypeOK
  <2>6. Numbered'
    BY <1>2 DEF D!Choose, D!workers, Numbered
  <2>7. Routed'
    BY <1>2, <2>1, <2>2, AssignRouted DEF D!Choose, D!workers
  <2>8. \A c \in Calls : c # k => cross'[c] = cross[c] /\ held'[c] = held[c]
    BY <1>2, <2>1 DEF D!Choose, DispatchTypeOK, D!TypeOK
  <2>9. held'[k].symbol = s /\ held'[k].worker = n
    BY <2>1 DEF D!Charge, DispatchTypeOK, D!TypeOK
  <2>10. Held'
    BY <1>2, <2>3, <2>8, <2>9 DEF D!Choose, Held
  <2> QED
    BY <2>5, <2>6, <2>7, <2>10
<1>3. CASE D!List(k)
  <2>1. held[k].symbol \in Symbols
    BY <1>3 DEF D!List, Held, DispatchTypeOK, D!TypeOK
  <2>2. arbitrages' \in Seq(Symbols)
    BY <1>3, <2>1 DEF D!List, DispatchTypeOK, D!TypeOK
  <2>3. DispatchTypeOK'
    BY <1>3, <2>2 DEF D!List, D!workers, D!mapping, DispatchTypeOK, D!TypeOK
  <2>4. Numbered' /\ Routed'
    BY <1>3 DEF D!List, D!workers, D!mapping, Numbered, Routed, D!Routed, D!Known
  <2>5. Held'
    BY <1>3 DEF D!List, D!mapping, Held, DispatchTypeOK, D!TypeOK
  <2> QED
    BY <2>3, <2>4, <2>5
<1>4. CASE D!Hand(k)
  <2> DEFINE m == D!Message("monitor", held[k].symbol)
  <2>1. /\ m \in Messages /\ m.symbol \in DOMAIN symbol_map
        /\ symbol_map[m.symbol] = held[k].worker
    BY <1>4 DEF D!Hand, D!Message, Messages, Held, DispatchTypeOK, D!TypeOK
  <2>2. D!Send(held[k].worker, m) /\ UNCHANGED <<monitored, symbol_map>>
    BY <1>4 DEF D!Hand, D!workers, D!mapping
  <2> HIDE DEF m
  <2>3. queue' \in [D!Workers -> Seq(Messages)]
    BY <2>1, <2>2, SendAppends
  <2>4. DispatchTypeOK'
    BY <1>4, <2>3 DEF D!Hand, D!workers, D!mapping, Messages, DispatchTypeOK, D!TypeOK
  <2>5. Routed'
    BY <2>1, <2>2, SendRouted
  <2>6. Numbered'
    BY <1>4 DEF D!Hand, D!workers, Numbered
  <2>7. \A c \in Calls : cross'[c] \in {"list", "hand"} => c # k /\ cross[c] = cross'[c]
    BY <1>4 DEF D!Hand, DispatchTypeOK, D!TypeOK
  <2>8. Held'
    BY <1>4, <2>7 DEF D!Hand, D!mapping, Held, DispatchTypeOK, D!TypeOK
  <2> QED
    BY <2>4, <2>5, <2>6, <2>8
<1> QED
  BY <1>1, <1>2, <1>3, <1>4 DEF D!CrossStep, D!HandOut

(* Nor does a request for an arbitrage, whatever number it names.          *)
LEMMA RequestRouted ==
  ASSUME RoutedInv, NEW r \in Requests, D!Command(r) \/ \E s \in Symbols : D!Claim(r, s)
  PROVE  RoutedInv'
<1> USE DEF RoutedInv
<1>1. ASSUME NEW s \in Symbols, D!Claim(r, s)
      PROVE  RoutedInv'
  <2>1. PICK n \in D!Numbers : /\ D!Assign(s, next_worker, n)
                               /\ request' = [request EXCEPT ![r] = D!Charge(s, n)]
    BY <1>1 DEF D!Claim
  <2>2. next_worker \in 0 .. next_worker
    BY DEF DispatchTypeOK, D!TypeOK
  <2>3. /\ next_worker' \in Nat /\ DOMAIN symbol_map' = DOMAIN symbol_map \cup {s}
        /\ \A x \in DOMAIN symbol_map' : symbol_map'[x] \in 0 .. next_worker' - 1
        /\ \A x \in DOMAIN symbol_map : symbol_map'[x] = symbol_map[x]
        /\ symbol_map'[s] = n
    BY <2>1, <2>2, AssignExtends
  <2>4. request' \in [Requests -> Charges \cup {D!Nobody} \cup D!Answered]
    BY <2>1 DEF D!Charge, Charges, DispatchTypeOK, D!TypeOK
  <2>5. DispatchTypeOK'
    BY <1>1, <2>3, <2>4 DEF D!Claim, D!workers, D!handouts, Charges, DispatchTypeOK, D!TypeOK
  <2>6. Numbered'
    BY <1>1 DEF D!Claim, D!workers, Numbered
  <2>7. Routed'
    BY <1>1, <2>1, <2>2, AssignRouted DEF D!Claim, D!workers
  <2>8. \A q \in Requests : q # r => request'[q] = request[q]
    BY <2>1 DEF DispatchTypeOK, D!TypeOK
  <2>9. request'[r].symbol = s /\ request'[r].worker = n
    BY <2>1 DEF D!Charge, DispatchTypeOK, D!TypeOK
  <2>10. Held'
    BY <1>1, <2>3, <2>8, <2>9 DEF D!Claim, D!handouts, Held
  <2> QED
    BY <2>5, <2>6, <2>7, <2>10
<1>2. CASE D!Command(r)
  <2> DEFINE m == D!Message("arbitrage", request[r].symbol)
  <2>1. /\ m \in Messages /\ m.symbol \in DOMAIN symbol_map
        /\ symbol_map[m.symbol] = request[r].worker
    BY <1>2 DEF D!Command, D!Message, Messages, Held, DispatchTypeOK, D!TypeOK
  <2>2. D!Send(request[r].worker, m) /\ UNCHANGED <<monitored, symbol_map>>
    BY <1>2 DEF D!Command, D!workers, D!mapping
  <2> HIDE DEF m
  <2>3. queue' \in [D!Workers -> Seq(Messages)]
    BY <2>1, <2>2, SendAppends
  <2>4. request' \in [Requests -> Charges \cup {D!Nobody} \cup D!Answered]
    BY <1>2 DEF D!Command, D!Answered, Charges, DispatchTypeOK, D!TypeOK
  <2>5. DispatchTypeOK'
    BY <1>2, <2>3, <2>4 DEF D!Command, D!workers, D!mapping, D!handouts, Messages, Charges, DispatchTypeOK, D!TypeOK
  <2>6. Routed'
    BY <2>1, <2>2, SendRouted
  <2>7. Numbered'
    BY <1>2 DEF D!Command, D!workers, Numbered
  <2>8. request'[r] \in D!Answered /\ \A q \in Requests : q # r => request'[q] = request[q]
    BY <1>2 DEF D!Command, D!Answered, DispatchTypeOK, D!TypeOK
  <2>9. Held'
    BY <1>2, <2>8 DEF D!Command, D!mapping, D!handouts, Held
  <2> QED
    BY <2>5, <2>6, <2>7, <2>9
<1> QED
  BY <1>1, <1>2

LEMMA NextRouted == RoutedInv /\ [ThreadsNext]_threads => RoutedInv'
<1> SUFFICES ASSUME RoutedInv, [D!Next]_dispatch PROVE RoutedInv'
  BY DispatchMoves
<1>1. CASE D!Next
  BY <1>1, WorkerRouted, CrossRouted, RequestRouted DEF D!Next
<1>2. CASE UNCHANGED dispatch
  BY <1>2 DEF dispatch, RoutedInv, DispatchTypeOK, D!TypeOK, Numbered, Held, Routed, D!Routed, D!Known
<1> QED
  BY <1>1, <1>2

LEMMA RoutedInvariant == ThreadsSpec => []RoutedInv
<1>1. ThreadsInit => RoutedInv
  BY InitRouted DEF ThreadsInit
<1> QED
  BY <1>1, NextRouted, PTL DEF ThreadsSpec

(* The dispatch keeps its types; the counter has named every worker that   *)
(* symbol_map names.                                                       *)
THEOREM DispatchTypeCorrect == ThreadsSpec => []DispatchTypeOK
<1>1. RoutedInv => DispatchTypeOK
  BY DEF RoutedInv
<1> QED
  BY <1>1, RoutedInvariant, PTL

(* For any workers, symbols, calls and requests, a symbol's commands and   *)
(* its monitoring go to the one worker symbol_map names.                   *)
THEOREM SymbolsAreRouted == ThreadsSpec => []Routed
<1>1. RoutedInv => Routed
  BY DEF RoutedInv
<1> QED
  BY <1>1, RoutedInvariant, PTL

-----------------------------------------------------------------------------
(* Listed and monitored once                                               *)

\* Monitoring of s is with worker w (place 0), or at place i1 of its queue.
Reaches(s, w, i1) ==
  IF i1 = 0 THEN s \in monitored[w]
  ELSE i1 \in DOMAIN queue[w] /\ queue[w][i1] = D!Message("monitor", s)

Unplaced(s) == \A w \in D!Workers, i1 \in Nat : ~Reaches(s, w, i1)
Single(s)   == \A v, w \in D!Workers, i1, i2 \in Nat : Reaches(s, v, i1) /\ Reaches(s, w, i2) => v = w /\ i1 = i2
Unlisted(s) == \A i1 \in DOMAIN arbitrages : arbitrages[i1] # s

Active(k) == cross[k] \in {"setup", "choose", "list", "hand"}

(* One call at most gets beyond the flag.                                  *)
OneActive ==
  /\ ~started => arbitrages = << >> /\ \A k \in Calls : cross[k] \in {"absent", "spawned"}
  /\ \A k1, k2 \in Calls : Active(k1) /\ Active(k2) => k1 = k2
  /\ \A k \in Calls : cross[k] = "setup" => arbitrages = << >>

(* What it has still to hand out was not listed, and what it has listed    *)
(* and not handed over is nowhere.                                         *)
Handout ==
  \A k \in Calls :
    /\ cross[k] \in {"choose", "list", "hand"} => \A s \in left[k] : Unlisted(s)
    /\ cross[k] = "list" => held[k].symbol \notin left[k] /\ Unlisted(held[k].symbol)
    /\ cross[k] = "hand" => /\ held[k].symbol \notin left[k]
                            /\ ~Unlisted(held[k].symbol) /\ Unplaced(held[k].symbol)

OnceInv ==
  /\ OneActive
  /\ Handout
  /\ \A s \in Symbols : Unlisted(s) => Unplaced(s)
  /\ \A s \in Symbols : Single(s)
  /\ D!IsInjective(arbitrages)

(* Where the monitoring of s is, in the words of MonitoredOnce.            *)
LEMMA PlacesAreAt ==
  ASSUME DispatchTypeOK, NEW s \in Symbols, Single(s)
  PROVE  \A p, q \in D!Places(s) : p = q
<1>1. ASSUME NEW p \in D!Places(s)
      PROVE  \E w \in D!Workers, i1 \in Nat : p = <<w, i1>> /\ Reaches(s, w, i1)
  <2>1. CASE p \in {<<w, 0>> : w \in {v \in D!Workers : s \in monitored[v]}}
    BY <2>1 DEF Reaches
  <2>2. CASE p \in UNION {{w} \X {i1 \in DOMAIN queue[w] : queue[w][i1] = D!Message("monitor", s)} : w \in D!Workers}
    <3>1. PICK w \in D!Workers : p \in {w} \X {i1 \in DOMAIN queue[w] : queue[w][i1] = D!Message("monitor", s)}
      BY <2>2
    <3>2. PICK i1 \in DOMAIN queue[w] : p = <<w, i1>> /\ queue[w][i1] = D!Message("monitor", s)
      BY <3>1
    <3>3. i1 \in Nat /\ i1 # 0
      BY <3>1, <3>2 DEF DispatchTypeOK, D!TypeOK
    <3> QED
      BY <3>2, <3>3 DEF Reaches
  <2> QED
    BY <2>1, <2>2 DEF D!Places
<1> QED
  BY <1>1 DEF Single

(* A step that leaves queues, workers and the list alone leaves the places *)
(* of every symbol as they are.                                            *)
LEMMA SamePlaces ==
  ASSUME UNCHANGED <<queue, monitored>>, NEW s
  PROVE  (Unplaced(s) => Unplaced(s)') /\ (Single(s) => Single(s)')
  BY DEF Unplaced, Single, Reaches

(* Receiving moves one message of a queue to its worker.                   *)
LEMMA ReceiveMoves ==
  ASSUME DispatchTypeOK, NEW w \in D!Workers, D!Receive(w), NEW s \in Symbols
  PROVE  (Unplaced(s) => Unplaced(s)') /\ (Single(s) => Single(s)')
<1>1. ASSUME NEW v \in D!Workers, NEW i1 \in Nat, Reaches(s, v, i1)'
      PROVE  \E i2 \in Nat : Reaches(s, v, i2) /\ (IF v = w THEN (IF i1 = 0 THEN i2 \in {0, 1} ELSE i2 = i1 + 1) ELSE i2 = i1)
  <2>1. CASE v # w
    <3>1. queue'[v] = queue[v] /\ monitored'[v] = monitored[v]
      BY <2>1, ReceiveTakes DEF D!Receive, DispatchTypeOK, D!TypeOK
    <3> QED
      BY <1>1, <2>1, <3>1 DEF Reaches
  <2>2. CASE v = w /\ i1 = 0
    <3>1. CASE s \in monitored[w]
      BY <2>2, <3>1 DEF Reaches
    <3>2. CASE s \notin monitored[w]
      <4>1. Head(queue[w]).kind = "monitor" /\ Head(queue[w]).symbol = s
        BY <1>1, <2>2, <3>2 DEF Reaches, D!Receive, DispatchTypeOK, D!TypeOK
      <4>2. Head(queue[w]) = D!Message("monitor", s)
        BY <4>1, ReceiveTakes DEF Messages, D!Message
      <4>3. Reaches(s, w, 1)
        BY <4>2, ReceiveTakes DEF Reaches
      <4> QED
        BY <2>2, <4>3
    <3> QED
      BY <3>1, <3>2
  <2>3. CASE v = w /\ i1 # 0
    <3>1. i1 + 1 \in DOMAIN queue[w] /\ queue[w][i1 + 1] = D!Message("monitor", s)
      BY <1>1, <2>3, ReceiveTakes DEF Reaches, D!Message
    <3>2. i1 + 1 \in Nat /\ i1 + 1 # 0
      OBVIOUS
    <3> QED
      BY <2>3, <3>1, <3>2 DEF Reaches
  <2> QED
    BY <2>1, <2>2, <2>3
<1>2. Unplaced(s) => Unplaced(s)'
  BY <1>1 DEF Unplaced
<1>3. ASSUME Single(s) PROVE Single(s)'
  <2>1. SUFFICES ASSUME NEW v1 \in D!Workers, NEW v2 \in D!Workers, NEW i1 \in Nat, NEW i2 \in Nat,
                        Reaches(s, v1, i1)', Reaches(s, v2, i2)'
                 PROVE  v1 = v2 /\ i1 = i2
    BY DEF Single
  <2>2. PICK j1 \in Nat : Reaches(s, v1, j1) /\ (IF v1 = w THEN (IF i1 = 0 THEN j1 \in {0, 1} ELSE j1 = i1 + 1) ELSE j1 = i1)
    BY <1>1, <2>1
  <2>3. PICK j2 \in Nat : Reaches(s, v2, j2) /\ (IF v2 = w THEN (IF i2 = 0 THEN j2 \in {0, 1} ELSE j2 = i2 + 1) ELSE j2 = i2)
    BY <1>1, <2>1
  <2>4. v1 = v2 /\ j1 = j2
    BY <1>3, <2>2, <2>3 DEF Single
  <2> QED
    BY <2>2, <2>3, <2>4
<1> QED
  BY <1>2, <1>3

(* Sending puts at most one message of one symbol where it was not.        *)
LEMMA SendPlaces ==
  ASSUME DispatchTypeOK, UNCHANGED monitored, NEW n, NEW m \in Messages, D!Send(n, m), NEW s \in Symbols
  PROVE  /\ m # D!Message("monitor", s) => (Unplaced(s) => Unplaced(s)') /\ (Single(s) => Single(s)')
         /\ Unplaced(s) => Single(s)'
<1>1. ASSUME NEW w \in D!Workers, NEW i1 \in Nat, Reaches(s, w, i1)'
      PROVE  Reaches(s, w, i1) \/ (m = D!Message("monitor", s) /\ w = n /\ i1 = Len(queue[w]) + 1)
  BY <1>1, SendAppends DEF Reaches, D!Message
<1>2. m # D!Message("monitor", s) => (Unplaced(s) => Unplaced(s)') /\ (Single(s) => Single(s)')
  BY <1>1 DEF Unplaced, Single
<1>3. Unplaced(s) => Single(s)'
  BY <1>1 DEF Unplaced, Single
<1> QED
  BY <1>2, <1>3

LEMMA InitOnce == D!Init => OnceInv
<1> SUFFICES ASSUME D!Init PROVE OnceInv
  OBVIOUS
<1> USE DEF D!Init
<1>1. \A s \in Symbols : Unplaced(s) /\ Single(s)
  BY DEF Unplaced, Single, Reaches
<1>2. OneActive /\ Handout
  BY DEF OneActive, Handout, Active
<1>3. D!IsInjective(arbitrages)
  BY DEF D!IsInjective
<1> QED
  BY <1>1, <1>2, <1>3 DEF OnceInv

(* The flag is changed once.                                               *)
LEMMA NextOneActive ==
  ASSUME RoutedInv, OneActive, [D!Next]_dispatch
  PROVE  OneActive'
<1> USE DEF RoutedInv
<1>1. CASE UNCHANGED <<started, cross, arbitrages>>
  BY <1>1 DEF OneActive, Active
<1>2. ASSUME NEW k \in Calls, D!PostMonitor(k) \/ D!Pair(k) \/ D!Hand(k) \/ \E s \in Symbols : D!Choose(k, s)
      PROVE  OneActive'
  <2>1. \A c \in Calls : Active(c)' => Active(c)
    BY <1>2 DEF D!PostMonitor, D!Pair, D!Hand, D!Choose, Active, DispatchTypeOK, D!TypeOK
  <2>2. \A c \in Calls : (cross'[c] = "setup" => cross[c] = "setup")
    BY <1>2 DEF D!PostMonitor, D!Pair, D!Hand, D!Choose, DispatchTypeOK, D!TypeOK
  <2>3. ~started => \A c \in Calls : cross'[c] \in {"absent", "spawned"}
    BY <1>2 DEF D!PostMonitor, D!Pair, D!Hand, D!Choose, OneActive, DispatchTypeOK, D!TypeOK
  <2>4. UNCHANGED <<started, arbitrages>>
    BY <1>2 DEF D!PostMonitor, D!Pair, D!Hand, D!Choose
  <2> QED
    BY <2>1, <2>2, <2>3, <2>4 DEF OneActive
<1>3. ASSUME NEW k \in Calls, D!Begin(k)
      PROVE  OneActive'
  <2>1. CASE started
    <3>1. \A c \in Calls : (Active(c)' => Active(c)) /\ (cross'[c] = "setup" => cross[c] = "setup")
      BY <1>3, <2>1 DEF D!Begin, Active, DispatchTypeOK, D!TypeOK
    <3> QED
      BY <1>3, <3>1 DEF D!Begin, OneActive
  <2>2. CASE ~started
    <3>1. \A c \in Calls : Active(c)' => c = k
      BY <1>3, <2>2 DEF D!Begin, Active, OneActive, DispatchTypeOK, D!TypeOK
    <3> QED
      BY <1>3, <2>2, <3>1 DEF D!Begin, OneActive
  <2> QED
    BY <2>1, <2>2
<1>4. ASSUME NEW k \in Calls, D!List(k)
      PROVE  OneActive'
  <2>1. Active(k) /\ started
    BY <1>4 DEF D!List, Active, OneActive
  <2>2. \A c \in Calls : (Active(c)' => Active(c)) /\ cross'[c] # "setup"
    BY <1>4, <2>1 DEF D!List, Active, OneActive, DispatchTypeOK, D!TypeOK
  <2> QED
    BY <1>4, <2>1, <2>2 DEF D!List, OneActive
<1>5. CASE UNCHANGED dispatch
  BY <1>1, <1>5 DEF dispatch
<1>6. ASSUME NEW w \in D!Workers, D!WorkerStep(w)
      PROVE  OneActive'
  BY <1>1, <1>6 DEF D!WorkerStep, D!Register, D!SetUp, D!Receive, D!handouts
<1>7. ASSUME D!TakeNumber \/ \E r \in Requests : D!Command(r) \/ \E s \in Symbols : D!Claim(r, s)
      PROVE  OneActive'
  BY <1>1, <1>7 DEF D!TakeNumber, D!Command, D!Claim, D!handouts
<1> QED
  BY <1>2, <1>3, <1>4, <1>5, <1>6, <1>7 DEF D!Next, D!CrossStep, D!HandOut

(* Workers and requests move what is placed, and place nothing more.       *)
LEMMA OthersPlaced ==
  ASSUME RoutedInv, OnceInv, UNCHANGED <<cross, left, held, arbitrages>>,
         \A s \in Symbols : (Unplaced(s) => Unplaced(s)') /\ (Single(s) => Single(s)')
  PROVE  OneActive' => OnceInv'
<1>1. \A k \in Calls : cross[k] = "hand" => held[k].symbol \in Symbols
  BY DEF RoutedInv, Held, DispatchTypeOK, D!TypeOK
<1>2. \A s : Unlisted(s)' <=> Unlisted(s)
  BY DEF Unlisted
<1>3. Handout'
  BY <1>1, <1>2 DEF OnceInv, Handout
<1> QED
  BY <1>2, <1>3 DEF OnceInv

(* Nor does a call that neither lists nor hands out.                       *)
LEMMA CallsPlaced ==
  ASSUME RoutedInv, OnceInv, NEW k \in Calls,
         D!PostMonitor(k) \/ D!Begin(k) \/ D!Pair(k) \/ \E s \in Symbols : D!Choose(k, s)
  PROVE  OneActive' => OnceInv'
<1> USE DEF RoutedInv
<1>1. UNCHANGED <<queue, monitored, arbitrages>>
  BY DEF D!PostMonitor, D!Begin, D!Pair, D!Choose, D!workers
<1>2. /\ \A s : Unlisted(s)' <=> Unlisted(s)
      /\ \A s \in Symbols : (Unplaced(s) => Unplaced(s)') /\ (Single(s) => Single(s)')
  BY <1>1, SamePlaces DEF Unlisted
<1>3. \A c \in Calls \ {k} : cross'[c] = cross[c] /\ left'[c] = left[c] /\ held'[c] = held[c]
  BY DEF D!PostMonitor, D!Begin, D!Pair, D!Choose, DispatchTypeOK, D!TypeOK
<1>4. \A c \in Calls : cross[c] = "hand" => held[c].symbol \in Symbols
  BY DEF Held, DispatchTypeOK, D!TypeOK
<1>5. Handout'
  <2>1. CASE D!PostMonitor(k) \/ D!Begin(k)
    <3>1. cross'[k] \notin {"choose", "list", "hand"}
      BY <2>1 DEF D!PostMonitor, D!Begin, DispatchTypeOK, D!TypeOK
    <3> QED
      BY <1>2, <1>3, <1>4, <3>1 DEF OnceInv, Handout
  <2>2. CASE D!Pair(k)
    <3>1. cross'[k] \notin {"list", "hand"} /\ arbitrages = << >>
      BY <2>2 DEF D!Pair, OnceInv, OneActive, DispatchTypeOK, D!TypeOK
    <3>2. \A s : Unlisted(s)
      BY <3>1 DEF Unlisted
    <3> QED
      BY <1>2, <1>3, <1>4, <3>1, <3>2 DEF OnceInv, Handout
  <2>3. ASSUME NEW s \in Symbols, D!Choose(k, s)
        PROVE  Handout'
    <3>1. /\ cross[k] = "choose" /\ cross'[k] = "list"
          /\ s \in left[k] /\ left'[k] = left[k] \ {s} /\ held'[k].symbol = s
      BY <2>3 DEF D!Choose, D!Charge, DispatchTypeOK, D!TypeOK
    <3> QED
      BY <1>2, <1>3, <1>4, <3>1 DEF OnceInv, Handout
  <2> QED
    BY <2>1, <2>2, <2>3
<1> QED
  BY <1>1, <1>2, <1>5 DEF OnceInv

(* What is listed was in the call's hands and nowhere else.                *)
LEMMA ListPlaced ==
  ASSUME RoutedInv, OnceInv, NEW k \in Calls, D!List(k)
  PROVE  OneActive' => OnceInv'
<1> USE DEF RoutedInv
<1>h. PICK h : h = held[k].symbol
  OBVIOUS
<1>1. /\ cross[k] = "list" /\ cross'[k] = "hand" /\ arbitrages' = Append(arbitrages, h)
      /\ UNCHANGED <<queue, monitored, left, held>>
  BY <1>h DEF D!List, D!workers, DispatchTypeOK, D!TypeOK
<1>2. h \in Symbols /\ h \notin left[k] /\ Unlisted(h) /\ Unplaced(h)
  BY <1>h, <1>1 DEF Held, OnceInv, Handout, DispatchTypeOK, D!TypeOK
<1>3. \A c \in Calls \ {k} : cross'[c] = cross[c] /\ ~Active(c)
  BY <1>1 DEF D!List, OnceInv, OneActive, Active, DispatchTypeOK, D!TypeOK
<1>4. \A s : Unlisted(s)' <=> Unlisted(s) /\ s # h
  <2>1. arbitrages \in Seq(Symbols)
    BY DEF DispatchTypeOK, D!TypeOK
  <2>2. /\ DOMAIN arbitrages' = 1 .. (Len(arbitrages) + 1) /\ DOMAIN arbitrages = 1 .. Len(arbitrages)
        /\ Len(arbitrages) \in Nat
        /\ \A i1 \in 1 .. Len(arbitrages) : arbitrages'[i1] = arbitrages[i1]
        /\ arbitrages'[Len(arbitrages) + 1] = h
    BY <1>1, <1>2, <2>1
  <2> QED
    BY <2>2 DEF Unlisted
<1>5. D!IsInjective(arbitrages')
  BY <1>1, <1>2 DEF D!IsInjective, Unlisted, OnceInv, DispatchTypeOK, D!TypeOK
<1>6. \A s \in Symbols : (Unplaced(s) => Unplaced(s)') /\ (Single(s) => Single(s)')
  BY <1>1, SamePlaces
<1>7. Handout'
  <2>1. \A s \in left[k] : Unlisted(s)
    BY <1>1 DEF OnceInv, Handout
  <2>2. /\ \A s \in left'[k] : Unlisted(s)'
        /\ h \notin left'[k] /\ ~Unlisted(h)' /\ Unplaced(h)'
    BY <1>1, <1>2, <1>4, <1>6, <2>1
  <2>3. \A c \in Calls \ {k} : cross'[c] \notin {"choose", "list", "hand"}
    BY <1>3 DEF Active
  <2>4. held'[k].symbol = h
    BY <1>h, <1>1
  <2> QED
    BY <1>1, <2>2, <2>3, <2>4 DEF Handout
<1> QED
  BY <1>4, <1>5, <1>6, <1>7 DEF OnceInv

(* What is handed over was nowhere.                                        *)
LEMMA HandPlaced ==
  ASSUME RoutedInv, OnceInv, NEW k \in Calls, D!Hand(k)
  PROVE  OneActive' => OnceInv'
<1> USE DEF RoutedInv
<1>h. PICK h, m : h = held[k].symbol /\ m = D!Message("monitor", h)
  OBVIOUS
<1>1. /\ cross[k] = "hand" /\ cross'[k] \in {"done", "choose"}
      /\ UNCHANGED <<monitored, arbitrages, left>>
      /\ D!Send(held[k].worker, m)
  BY <1>h DEF D!Hand, D!workers, DispatchTypeOK, D!TypeOK
<1>2. h \in Symbols /\ m \in Messages
  BY <1>h, <1>1 DEF Held, Messages, D!Message, DispatchTypeOK, D!TypeOK
<1>3. h \notin left[k] /\ ~Unlisted(h) /\ Unplaced(h)
  BY <1>h, <1>1 DEF OnceInv, Handout
<1>4. \A c \in Calls \ {k} : cross'[c] = cross[c] /\ ~Active(c)
  BY <1>1 DEF D!Hand, OnceInv, OneActive, Active, DispatchTypeOK, D!TypeOK
<1>5. \A s \in Symbols : s # h => m # D!Message("monitor", s)
  BY <1>h DEF D!Message
<1>6. \A s \in Symbols : s # h => (Unplaced(s) => Unplaced(s)') /\ (Single(s) => Single(s)')
  BY <1>1, <1>2, <1>5, SendPlaces
<1>7. Single(h)'
  BY <1>1, <1>2, <1>3, SendPlaces
<1>8. \A s : Unlisted(s)' <=> Unlisted(s)
  BY <1>1 DEF Unlisted
<1>9. Handout'
  <2>1. cross[k] = "hand" => \A s \in left[k] : Unlisted(s)
    BY DEF OnceInv, Handout
  <2>2. \A c \in Calls \ {k} : cross'[c] \notin {"choose", "list", "hand"}
    BY <1>4 DEF Active
  <2> QED
    BY <1>1, <1>8, <2>1, <2>2 DEF Handout
<1>10. D!IsInjective(arbitrages')
  BY <1>1 DEF OnceInv, D!IsInjective
<1> QED
  BY <1>3, <1>6, <1>7, <1>8, <1>9, <1>10 DEF OnceInv

LEMMA NextOnce == RoutedInv /\ OnceInv /\ [ThreadsNext]_threads => OnceInv'
<1> SUFFICES ASSUME RoutedInv, OnceInv, [D!Next]_dispatch PROVE OnceInv'
  BY DispatchMoves
<1>1. OneActive'
  BY NextOneActive DEF OnceInv
<1>2. ASSUME UNCHANGED <<cross, left, held, arbitrages, queue, monitored>>
      PROVE  OnceInv'
  BY <1>1, <1>2, OthersPlaced, SamePlaces
<1>3. CASE UNCHANGED dispatch
  BY <1>2, <1>3 DEF dispatch
<1>4. CASE D!TakeNumber
  BY <1>2, <1>4 DEF D!TakeNumber, D!handouts
<1>5. ASSUME NEW w \in D!Workers, D!Register(w) \/ D!SetUp(w)
      PROVE  OnceInv'
  BY <1>2, <1>5 DEF D!Register, D!SetUp, D!handouts
<1>6. ASSUME NEW w \in D!Workers, D!Receive(w)
      PROVE  OnceInv'
  <2>1. \A s \in Symbols : (Unplaced(s) => Unplaced(s)') /\ (Single(s) => Single(s)')
    BY <1>6, ReceiveMoves DEF RoutedInv
  <2>2. UNCHANGED <<cross, left, held, arbitrages>>
    BY <1>6 DEF D!Receive, D!handouts
  <2> QED
    BY <1>1, <2>1, <2>2, OthersPlaced
<1>7. ASSUME NEW k \in Calls, D!PostMonitor(k) \/ D!CrossStep(k)
      PROVE  OnceInv'
  BY <1>1, <1>7, CallsPlaced, ListPlaced, HandPlaced DEF D!CrossStep, D!HandOut
<1>8. ASSUME NEW r \in Requests, NEW s \in Symbols, D!Claim(r, s)
      PROVE  OnceInv'
  BY <1>2, <1>8 DEF D!Claim, D!workers, D!handouts
<1>9. ASSUME NEW r \in Requests, D!Command(r)
      PROVE  OnceInv'
  <2> DEFINE m == D!Message("arbitrage", request[r].symbol)
  <2>1. m \in Messages
    BY <1>9 DEF D!Command, D!Message, Messages, RoutedInv, DispatchTypeOK, D!TypeOK
  <2>2. /\ D!Send(request[r].worker, m)
        /\ UNCHANGED <<cross, left, held, arbitrages, monitored>>
    BY <1>9 DEF D!Command, D!workers, D!handouts
  <2>3. \A s \in Symbols : m # D!Message("monitor", s)
    BY DEF D!Message
  <2> HIDE DEF m
  <2>4. \A s \in Symbols : (Unplaced(s) => Unplaced(s)') /\ (Single(s) => Single(s)')
    BY <2>1, <2>2, <2>3, SendPlaces DEF RoutedInv
  <2> QED
    BY <1>1, <2>2, <2>4, OthersPlaced
<1> QED
  BY <1>3, <1>4, <1>5, <1>6, <1>7, <1>8, <1>9 DEF D!Next, D!WorkerStep

(* However many calls start monitoring, in whatever order the threads run, *)
(* a symbol is listed once and monitored at one place in the whole server. *)
THEOREM SymbolsAreMonitoredOnce == ThreadsSpec => []MonitoredOnce
<1>1. ThreadsInit => OnceInv
  BY InitOnce DEF ThreadsInit
<1>2. RoutedInv /\ OnceInv => MonitoredOnce
  BY PlacesAreAt DEF RoutedInv, OnceInv, MonitoredOnce, D!MonitoredOnce
<1> QED
  BY <1>1, <1>2, NextOnce, RoutedInvariant, PTL DEF ThreadsSpec
=============================================================================
