-------------------------- MODULE SubClientProofs ---------------------------
(***************************************************************************)
(* Proofs about SubClient for any number of watchers and symbols.          *)
(***************************************************************************)
EXTENDS SubClient, TLAPS

(* Who holds the WsClient, and what the status is meanwhile.               *)
DialerHolds ==
  /\ \A w \in Watchers : pc[w] \in {"limit", "dial"} <=> dialer = w
  /\ \A w \in Watchers : pc[w] = "dial" => status = "Connecting"
  /\ dialer = NoWatcher => status # "Connecting"

IInv ==
  /\ TypeOK
  /\ OneSocket
  /\ DialerHolds
  /\ DialStartsDisconnected
  /\ WaitersHaveDialer
  /\ SubscribedHasPending
  /\ AwaitingIsRegistered

(* A new client satisfies the invariant.                                   *)
LEMMA InitIInv == Init => IInv
  BY ClientAssumption
  DEF Init, IInv, TypeOK, PCs, OneSocket, DialerHolds, DialStartsDisconnected,
      WaitersHaveDialer, SubscribedHasPending, AwaitingIsRegistered

(* connecting_id never becomes 0, the value watch() starts its loop with.  *)
LEMMA NextIdType ==
  ASSUME NEW id \in 1 .. IdMax
  PROVE  NextId(id) \in 1 .. IdMax
  BY ClientAssumption DEF NextId

(* Registering on the current connection, or on the lost one, keeps the    *)
(* invariant: whether or not SUBSCRIBE could be sent, the symbol is in the *)
(* registry, and whoever awaits it can be canceled.                        *)
LEMMA RegisterKeeps ==
  ASSUME IInv, NEW w \in Watchers, NEW s \in Symbols,
         pc[w] \in {"idle", "woken"},
         sym' = [sym EXCEPT ![w] = s],
         my_id' \in [Watchers -> 0 .. IdMax],
         UNCHANGED <<status, tasks, dialer, connecting_id, connecting>>,
         RegisterIf(w, s, CanSend, requested, pc)
  PROVE  IInv'
<1> USE ClientAssumption
<1>1. /\ subscribed' \subseteq Symbols
      /\ pending' \subseteq Symbols
      /\ requested' \subseteq Symbols
  BY DEF RegisterIf, IInv, TypeOK
<1>2. /\ pc' \in [Watchers -> PCs]
      /\ pc'[w] \in {"await", "idle"}
      /\ \A v \in Watchers \ {w} : pc'[v] = pc[v]
  BY DEF RegisterIf, IInv, TypeOK, PCs
<1>3. TypeOK'
  BY <1>1, <1>2 DEF IInv, TypeOK
<1>4. SubscribedHasPending'
  BY DEF RegisterIf, IInv, SubscribedHasPending
<1>5. AwaitingIsRegistered'
  BY <1>2 DEF RegisterIf, IInv, TypeOK, AwaitingIsRegistered
<1>6. OneSocket' /\ DialerHolds' /\ DialStartsDisconnected' /\ WaitersHaveDialer'
  BY <1>2 DEF IInv, TypeOK, OneSocket, DialerHolds, DialStartsDisconnected, WaitersHaveDialer
<1> QED
  BY <1>3, <1>4, <1>5, <1>6 DEF IInv

(* One round of connect() keeps the invariant, at the start of watch() and *)
(* when a woken waiter goes round the loop.                                *)
LEMMA ConnectKeeps ==
  ASSUME IInv, NEW w \in Watchers, NEW s \in Symbols,
         pc[w] \in {"idle", "woken"},
         sym' = [sym EXCEPT ![w] = s],
         Connect(w, s)
  PROVE  IInv'
<1> USE ClientAssumption
<1>1. CASE dialer = NoWatcher /\ status = "Connected"
  <2>1. /\ RegisterIf(w, s, CanSend, requested, pc)
        /\ my_id' = [my_id EXCEPT ![w] = connecting_id]
        /\ UNCHANGED <<status, tasks, dialer, connecting_id, connecting>>
    BY <1>1 DEF Connect, link
  <2>2. my_id' \in [Watchers -> 0 .. IdMax]
    BY <2>1 DEF IInv, TypeOK
  <2> QED
    BY <2>1, <2>2, RegisterKeeps
<1>2. CASE dialer = NoWatcher /\ status # "Connected"
  <2>1. /\ dialer' = w
        /\ connecting_id' = NextId(connecting_id)
        /\ my_id' = [my_id EXCEPT ![w] = NextId(connecting_id)]
        /\ pc' = [pc EXCEPT ![w] = "limit"]
        /\ UNCHANGED <<status, tasks, connecting, subscribed, pending, requested>>
    BY <1>2 DEF Connect, registry
  <2>2. TypeOK'
    BY <2>1, NextIdType DEF IInv, TypeOK, PCs
  <2>3. status = "Disconnected"
    BY <1>2 DEF IInv, TypeOK, DialerHolds
  <2>4. OneSocket' /\ DialerHolds' /\ DialStartsDisconnected' /\ WaitersHaveDialer'
    BY <1>2, <2>1, <2>3
    DEF IInv, TypeOK, OneSocket, DialerHolds, DialStartsDisconnected, WaitersHaveDialer
  <2>5. SubscribedHasPending' /\ AwaitingIsRegistered'
    BY <2>1 DEF IInv, TypeOK, SubscribedHasPending, AwaitingIsRegistered
  <2> QED
    BY <2>2, <2>4, <2>5 DEF IInv
<1>3. CASE dialer # NoWatcher
  <2>1. /\ connecting' = connecting \cup {w}
        /\ my_id' = [my_id EXCEPT ![w] = connecting_id]
        /\ pc' = [pc EXCEPT ![w] = "wait"]
        /\ UNCHANGED <<status, tasks, dialer, connecting_id, subscribed, pending, requested>>
    BY <1>3 DEF Connect, registry
  <2>2. TypeOK'
    BY <2>1 DEF IInv, TypeOK, PCs
  <2>3. OneSocket' /\ DialerHolds' /\ DialStartsDisconnected' /\ WaitersHaveDialer'
    BY <1>3, <2>1
    DEF IInv, TypeOK, OneSocket, DialerHolds, DialStartsDisconnected, WaitersHaveDialer
  <2>4. SubscribedHasPending' /\ AwaitingIsRegistered'
    BY <2>1 DEF IInv, TypeOK, SubscribedHasPending, AwaitingIsRegistered
  <2> QED
    BY <2>2, <2>3, <2>4 DEF IInv
<1> QED
  BY <1>1, <1>2, <1>3

(* The end of a dial, successful or not, keeps the invariant.              *)
LEMMA DialEnds ==
  ASSUME IInv, NEW w \in Watchers, NEW ok \in BOOLEAN, NEW label \in {"woken", "refused"},
         NEW asked \in SUBSET Symbols,
         pc[w] = "dial",
         status' = IF ok THEN "Connected" ELSE "Disconnected",
         tasks' = IF ok THEN tasks + 1 ELSE tasks,
         dialer' = NoWatcher, connecting' = {},
         RegisterIf(w, sym[w], ok, asked, Answer(pc, connecting, label)),
         UNCHANGED <<connecting_id, sym, my_id>>
  PROVE  IInv'
<1> USE ClientAssumption
<1>1. /\ sym[w] \in Symbols /\ sym' = [sym EXCEPT ![w] = sym[w]]
      /\ dialer = w /\ status = "Connecting" /\ tasks = 0
  BY DEF IInv, TypeOK, DialerHolds, OneSocket
<1> DEFINE pcs == Answer(pc, connecting, label)
<1>2. /\ pcs \in [Watchers -> PCs]
      /\ \A v \in Watchers : pcs[v] = IF v \in connecting THEN label ELSE pc[v]
  BY DEF Answer, IInv, TypeOK, PCs
<1>3. RegisterIf(w, sym[w], ok, asked, pcs)
  OBVIOUS
<1> HIDE DEF pcs
<1>4. /\ pc' \in [Watchers -> PCs]
      /\ pc'[w] \in {"await", "idle"}
      /\ \A v \in Watchers \ {w} : pc'[v] = pcs[v]
  <2>1. PICK l \in {"await", "idle"} : pc' = [pcs EXCEPT ![w] = l]
    BY <1>3 DEF RegisterIf
  <2> QED BY <1>2, <2>1 DEF PCs
<1>4a. /\ subscribed' \subseteq Symbols /\ pending' \subseteq Symbols
       /\ requested' \subseteq Symbols
  BY <1>1, <1>3 DEF RegisterIf, IInv, TypeOK
<1>5. SubscribedHasPending'
  BY <1>1, <1>3 DEF RegisterIf, IInv, SubscribedHasPending
<1>5a. AwaitingIsRegistered'
  BY <1>2, <1>3, <1>4 DEF RegisterIf, IInv, AwaitingIsRegistered
<1>6. \A v \in Watchers : pc'[v] \notin {"limit", "dial", "wait"}
  BY <1>1, <1>2, <1>4 DEF IInv, DialerHolds, WaitersHaveDialer
<1>7. TypeOK'
  <2>1. status' \in {"Disconnected", "Connecting", "Connected"} /\ tasks' \in Nat
    BY <1>1
  <2> QED BY <1>4, <1>4a, <2>1 DEF IInv, TypeOK
<1>8. OneSocket' /\ DialerHolds' /\ DialStartsDisconnected' /\ WaitersHaveDialer'
  BY <1>1, <1>6 DEF OneSocket, DialerHolds, DialStartsDisconnected, WaitersHaveDialer
<1> QED
  BY <1>5, <1>5a, <1>7, <1>8 DEF IInv

(* Every segment of every task preserves the invariant.                    *)
LEMMA NextIInv == IInv /\ [Next]_vars => IInv'
<1> SUFFICES ASSUME IInv, [Next]_vars PROVE IInv'
  OBVIOUS
<1> USE ClientAssumption
<1>1. ASSUME NEW w \in Watchers, NEW s \in Symbols, Watch(w, s) PROVE IInv'
  BY <1>1, ConnectKeeps DEF Watch
<1>2. ASSUME NEW w \in Watchers, Admit(w) PROVE IInv'
  BY <1>2
  DEF Admit, registry, IInv, TypeOK, PCs, OneSocket, DialerHolds, DialStartsDisconnected,
      WaitersHaveDialer, SubscribedHasPending, AwaitingIsRegistered
<1>3a. ASSUME NEW w \in Watchers, DialOk(w) PROVE IInv'
  <2>1. RegisterIf(w, sym[w], TRUE, {}, Answer(pc, connecting, "woken"))
    BY <1>3a DEF DialOk
  <2>2. {} \in SUBSET Symbols
    OBVIOUS
  <2> QED BY <1>3a, <2>1, <2>2, DialEnds DEF DialOk
<1>3b. ASSUME NEW w \in Watchers, DialFail(w) PROVE IInv'
  <2>1. RegisterIf(w, sym[w], FALSE, requested, Answer(pc, connecting, "refused"))
    BY <1>3b DEF DialFail
  <2>2. requested \in SUBSET Symbols
    BY DEF IInv, TypeOK
  <2> QED BY <1>3b, <2>1, <2>2, DialEnds DEF DialFail
<1>4. ASSUME NEW w \in Watchers, Resume(w) PROVE IInv'
  <2>1. pc[w] = "woken" /\ sym[w] \in Symbols /\ sym' = [sym EXCEPT ![w] = sym[w]] /\ sym' = sym
    BY <1>4 DEF Resume, IInv, TypeOK
  <2>2. CASE my_id[w] # connecting_id
    BY <1>4, <2>1, <2>2, ConnectKeeps DEF Resume
  <2>3. CASE my_id[w] = connecting_id
    <3>1. /\ RegisterIf(w, sym[w], CanSend, requested, pc)
          /\ UNCHANGED <<status, tasks, dialer, connecting_id, connecting, my_id>>
      BY <1>4, <2>3 DEF Resume, link
    <3>2. my_id' \in [Watchers -> 0 .. IdMax]
      BY <3>1 DEF IInv, TypeOK
    <3> QED
      BY <2>1, <3>1, <3>2, RegisterKeeps
  <2> QED BY <2>2, <2>3
<1>5. ASSUME NEW w \in Watchers, Return(w) PROVE IInv'
  BY <1>5
  DEF Return, link, registry, IInv, TypeOK, PCs, OneSocket, DialerHolds, DialStartsDisconnected,
      WaitersHaveDialer, SubscribedHasPending, AwaitingIsRegistered
<1>6. ASSUME NEW s \in Symbols, Broadcast(s) PROVE IInv'
  <2>1. \A w \in Watchers : pc'[w] # pc[w] => pc[w] = "await" /\ pc'[w] = "book"
    BY <1>6 DEF Broadcast, Answer, Awaiting
  <2>2. TypeOK'
    BY <1>6 DEF Broadcast, Answer, link, registry, IInv, TypeOK, PCs
  <2> QED
    BY <1>6, <2>1, <2>2
    DEF Broadcast, link, registry, IInv, OneSocket, DialerHolds, DialStartsDisconnected,
        WaitersHaveDialer, SubscribedHasPending, AwaitingIsRegistered
<1>7. ASSUME NEW s \in Symbols, Unwatch(s) PROVE IInv'
  <2>1. \A w \in Watchers : /\ pc'[w] # pc[w] => pc[w] = "await" /\ pc'[w] = "canceled"
                            /\ pc'[w] = "await" => pc[w] = "await" /\ sym[w] # s
    BY <1>7 DEF Unwatch, Answer, Awaiting
  <2>2. TypeOK'
    BY <1>7 DEF Unwatch, Answer, link, IInv, TypeOK, PCs
  <2>3. SubscribedHasPending' /\ AwaitingIsRegistered'
    BY <1>7, <2>1 DEF Unwatch, IInv, SubscribedHasPending, AwaitingIsRegistered
  <2> QED
    BY <1>7, <2>1, <2>2, <2>3
    DEF Unwatch, link, IInv, OneSocket, DialerHolds, DialStartsDisconnected, WaitersHaveDialer
<1>8. CASE Fail
  <2>1. \A w \in Watchers :
          /\ pc'[w] # pc[w] => \/ pc[w] = "wait" /\ pc'[w] = "refused"
                               \/ pc[w] = "await" /\ pc'[w] = "canceled"
          /\ pc'[w] \notin {"await", "wait"}
    BY <1>8 DEF Fail, Answer, IInv, TypeOK, WaitersHaveDialer, AwaitingIsRegistered, SubscribedHasPending
  <2>2. TypeOK'
    BY <1>8 DEF Fail, Answer, IInv, TypeOK, PCs, OneSocket
  <2>3. status = "Connected" /\ tasks = 1
    BY <1>8 DEF Fail, IInv, TypeOK, OneSocket
  <2>4. OneSocket' /\ DialerHolds' /\ DialStartsDisconnected' /\ WaitersHaveDialer'
    BY <1>8, <2>1, <2>3
    DEF Fail, IInv, OneSocket, DialerHolds, DialStartsDisconnected, WaitersHaveDialer
  <2> QED
    BY <1>8, <2>1, <2>2, <2>4
    DEF Fail, IInv, SubscribedHasPending, AwaitingIsRegistered
<1>9. CASE UNCHANGED vars
  BY <1>9
  DEF vars, IInv, TypeOK, OneSocket, DialerHolds, DialStartsDisconnected,
      WaitersHaveDialer, SubscribedHasPending, AwaitingIsRegistered
<1> QED
  BY <1>1, <1>2, <1>3a, <1>3b, <1>4, <1>5, <1>6, <1>7, <1>8, <1>9 DEF Next, Step

(* The invariant holds in every reachable state of a client.               *)
LEMMA Invariance == Spec => []IInv
  BY InitIInv, NextIInv, PTL DEF Spec

(* Every variable keeps its type; connecting_id in particular is never 0.  *)
THEOREM ClientTypeCorrect == Spec => []TypeOK
<1>1. IInv => TypeOK
  BY DEF IInv
<1> QED
  BY <1>1, Invariance, PTL

(* connect() never has two socket tasks running.                           *)
THEOREM AtMostOneSocket == Spec => []OneSocket
<1>1. IInv => OneSocket
  BY DEF IInv
<1> QED
  BY <1>1, Invariance, PTL

(* A watcher suspended in connect() always has a dialer that will answer.  *)
THEOREM NoAbandonedWaiter == Spec => []WaitersHaveDialer
<1>1. IInv => WaitersHaveDialer
  BY DEF IInv
<1> QED
  BY <1>1, Invariance, PTL

(* A dial never starts from Connecting, where connect() would wait for a   *)
(* dial that is not under way.                                             *)
THEOREM DialsStartDisconnected == Spec => []DialStartsDisconnected
<1>1. IInv => DialStartsDisconnected
  BY DEF IInv
<1> QED
  BY <1>1, Invariance, PTL

(* The unwrap of watch() never panics.                                     *)
THEOREM UnwrapIsSafe == Spec => []SubscribedHasPending
<1>1. IInv => SubscribedHasPending
  BY DEF IInv
<1> QED
  BY <1>1, Invariance, PTL

(* No watcher is left at rx.await with its symbol out of the registry.     *)
THEOREM NoForgottenWatcher == Spec => []AwaitingIsRegistered
<1>1. IInv => AwaitingIsRegistered
  BY DEF IInv
<1> QED
  BY <1>1, Invariance, PTL
=============================================================================
