----------------------------- MODULE SubClient ------------------------------
(***************************************************************************)
(* SubClient (base/exchange/sub_client.rs) on top of WsClient              *)
(* (base/ws/client.rs): one websocket shared by every watcher of a set of  *)
(* symbols.  All of it runs on one single-threaded executor, so an action  *)
(* is the code a task runs between two suspension points.                  *)
(*                                                                         *)
(* The books themselves are the subject of GateBook.  Left out here: the   *)
(* text of the messages, pings, and the WsClient's own list of tasks       *)
(* waiting for a connection, which stays empty because connect() is only   *)
(* called by the task that holds the RefCell.                              *)
(*                                                                         *)
(* A command that was sent waits in the socket task for the send limiter,  *)
(* and may leave after a younger one.  That is the subject of ClientPool;  *)
(* here the server may stream, at any time or never, whatever SUBSCRIBE    *)
(* was sent for on the connection, whether UNSUBSCRIBE followed it or not. *)
(***************************************************************************)
EXTENDS Integers, FiniteSets

CONSTANTS
  Watchers,   \* the tasks that call watch()
  Symbols,    \* the symbols they watch
  NoWatcher,  \* nobody holds the RefCell of the WsClient
  IdMax       \* u32::MAX, where connecting_id starts and wraps

ASSUME ClientAssumption ==
  /\ NoWatcher \notin Watchers
  /\ IdMax \in Nat \ {0}

VARIABLES
  status,         \* WsClient.connect_status
  tasks,          \* how many socket tasks spawned by connect() are running
  dialer,         \* the watcher that holds ws.try_borrow_mut() across awaits
  connecting_id,  \* SubClient.connecting_id
  connecting,     \* the watchers with a sender in SubClient.connecting
  subscribed,     \* the keys of subscribed
  pending,        \* the keys of pending
  requested,      \* the symbols SUBSCRIBE was sent for on the current connection
  pc,             \* where each watcher is suspended
  sym,            \* the symbol it watches
  my_id           \* its local connecting_id

registry == <<subscribed, pending, requested>>
link     == <<status, tasks, dialer, connecting_id, connecting>>
vars     == <<status, tasks, dialer, connecting_id, connecting, subscribed,
              pending, requested, pc, sym, my_id>>

\* idle: not in watch().  limit: holding the WsClient, waiting for the HTTP
\* and the connect limiter.  dial: in ws.connect().  wait: in connect(),
\* waiting for the dialer.  woken, refused: the dialer's answer is there.
\* await: at rx.await.  book, canceled: the answer of rx.await is there.
PCs == {"idle", "limit", "dial", "wait", "woken", "refused", "await", "book", "canceled"}

Init ==
  /\ status = "Disconnected"
  /\ tasks = 0
  /\ dialer = NoWatcher
  /\ connecting_id = IdMax
  /\ connecting = {}
  /\ subscribed = {}
  /\ pending = {}
  /\ requested = {}
  /\ pc = [w \in Watchers |-> "idle"]
  /\ sym \in [Watchers -> Symbols]
  /\ my_id = [w \in Watchers |-> 0]

-----------------------------------------------------------------------------
\* The watchers in W get an answer: each goes to label.
Answer(pcs, W, label) == [w \in Watchers |-> IF w \in W THEN label ELSE pcs[w]]

Awaiting(s) == {w \in Watchers : pc[w] = "await" /\ sym[w] = s}

\* SubClient::send fails when the WsClient is borrowed or when the socket
\* task, which owns the receiving end, has ended.
CanSend == dialer = NoWatcher /\ tasks > 0

\* The part of watch() after its connect loop, up to rx.await.  The watcher
\* registers; the first one for the symbol sends SUBSCRIBE, and a failed send
\* makes it return the error with its entries still in place.
RegisterIf(w, s, sent, asked, pcs) ==
  /\ subscribed' = subscribed \cup {s}
  /\ pending' = IF s \in subscribed THEN pending ELSE pending \cup {s}
  /\ requested' = IF s \notin subscribed /\ sent THEN asked \cup {s} ELSE asked
  /\ pc' = [pcs EXCEPT ![w] = IF s \in subscribed \/ sent THEN "await" ELSE "idle"]

\* connecting_id goes back to 0 at u32::MAX and is then incremented: 0 is
\* never seen, which matters because watch() starts its loop with a local 0.
NextId(id) == IF id = IdMax THEN 1 ELSE id + 1

\* Mutant: dials whenever the WsClient is free, connected or not.
ConnectUnguarded(w, s) ==
  /\ dialer = NoWatcher
  /\ dialer' = w
  /\ connecting_id' = NextId(connecting_id)
  /\ my_id' = [my_id EXCEPT ![w] = NextId(connecting_id)]
  /\ pc' = [pc EXCEPT ![w] = "limit"]
  /\ UNCHANGED <<status, tasks, connecting, registry>>

\* One round of connect(), up to its first suspension, by a watcher of s.
Connect(w, s) ==
  \* connected: connect() returns the current id and the loop ends
  \/ /\ dialer = NoWatcher /\ status = "Connected"
     /\ my_id' = [my_id EXCEPT ![w] = connecting_id]
     /\ RegisterIf(w, s, CanSend, requested, pc)
     /\ UNCHANGED link
  \* not connected: this watcher dials, keeping the WsClient borrowed
  \/ /\ dialer = NoWatcher /\ status # "Connected"
     /\ dialer' = w
     /\ connecting_id' = NextId(connecting_id)
     /\ my_id' = [my_id EXCEPT ![w] = NextId(connecting_id)]
     /\ pc' = [pc EXCEPT ![w] = "limit"]
     /\ UNCHANGED <<status, tasks, connecting, registry>>
  \* borrowed: wait for whoever dials
  \/ /\ dialer # NoWatcher
     /\ connecting' = connecting \cup {w}
     /\ my_id' = [my_id EXCEPT ![w] = connecting_id]
     /\ pc' = [pc EXCEPT ![w] = "wait"]
     /\ UNCHANGED <<status, tasks, dialer, connecting_id, registry>>

-----------------------------------------------------------------------------
(* watch()                                                                 *)

Watch(w, s) ==
  /\ pc[w] = "idle"
  /\ sym' = [sym EXCEPT ![w] = s]
  /\ Connect(w, s)

\* Both limiters have granted their tokens; ws.connect() starts.
Admit(w) ==
  /\ pc[w] = "limit"
  /\ status' = "Connecting"
  /\ pc' = [pc EXCEPT ![w] = "dial"]
  /\ UNCHANGED <<tasks, dialer, connecting_id, connecting, registry, sym, my_id>>

\* The handshake succeeds: the socket task is spawned, the waiters are
\* answered, and the dialer goes on to register without suspending.
DialOk(w) ==
  /\ pc[w] = "dial"
  /\ status' = "Connected"
  /\ tasks' = tasks + 1
  /\ dialer' = NoWatcher
  /\ connecting' = {}
  /\ RegisterIf(w, sym[w], TRUE, {}, Answer(pc, connecting, "woken"))
  /\ UNCHANGED <<connecting_id, sym, my_id>>

\* Mutant: the waiters' senders are only taken after a success.
DialFailKeepingWaiters(w) ==
  /\ pc[w] = "dial"
  /\ status' = "Disconnected"
  /\ dialer' = NoWatcher
  /\ RegisterIf(w, sym[w], FALSE, requested, pc)
  /\ UNCHANGED <<tasks, connecting, connecting_id, sym, my_id>>

\* Mutant: an early return that leaves the status Connecting.
DialFailStillConnecting(w) ==
  /\ pc[w] = "dial"
  /\ dialer' = NoWatcher
  /\ connecting' = {}
  /\ RegisterIf(w, sym[w], FALSE, requested, Answer(pc, connecting, "refused"))
  /\ UNCHANGED <<status, tasks, connecting_id, sym, my_id>>

\* The handshake fails: the waiters' senders are dropped, but connect()
\* returns Ok to the dialer all the same, which registers and fails to send.
DialFail(w) ==
  /\ pc[w] = "dial"
  /\ status' = "Disconnected"
  /\ dialer' = NoWatcher
  /\ connecting' = {}
  /\ RegisterIf(w, sym[w], FALSE, requested, Answer(pc, connecting, "refused"))
  /\ UNCHANGED <<tasks, connecting_id, sym, my_id>>

\* A waiter resumes after a successful dial; if a newer dial has begun since,
\* it goes round the loop again.
Resume(w) ==
  /\ pc[w] = "woken"
  /\ \/ /\ my_id[w] = connecting_id
        /\ RegisterIf(w, sym[w], CanSend, requested, pc)
        /\ UNCHANGED <<link, my_id>>
     \/ /\ my_id[w] # connecting_id
        /\ Connect(w, sym[w])
  /\ UNCHANGED sym

\* watch() returns: a book, or the error of a canceled channel.
Return(w) ==
  /\ pc[w] \in {"refused", "book", "canceled"}
  /\ pc' = [pc EXCEPT ![w] = "idle"]
  /\ UNCHANGED <<link, registry, sym, my_id>>

-----------------------------------------------------------------------------
(* The socket task, and unwatch()                                          *)

\* A message about s reaches its handler, which takes the pending senders;
\* one about a symbol that is not registered does nothing.
Broadcast(s) ==
  /\ tasks > 0
  /\ s \in requested /\ s \in subscribed /\ s \in pending
  /\ pc' = Answer(pc, Awaiting(s), "book")
  /\ UNCHANGED <<link, registry, sym, my_id>>

\* Mutant: on_fail does not clear pending, so no receiver is canceled.
FailForgettingPending ==
  /\ tasks > 0
  /\ tasks' = tasks - 1
  /\ status' = "Disconnected"
  /\ connecting' = {}
  /\ subscribed' = {}
  /\ requested' = {}
  /\ pc' = Answer(pc, connecting, "refused")
  /\ UNCHANGED <<dialer, connecting_id, pending, sym, my_id>>

\* The socket closes or errs: the task's loop breaks, on_error and on_close
\* both run on_fail, and every sender it drops cancels a receiver.
Fail ==
  /\ tasks > 0
  /\ tasks' = tasks - 1
  /\ status' = "Disconnected"
  /\ connecting' = {}
  /\ subscribed' = {}
  /\ pending' = {}
  /\ requested' = {}
  /\ pc' = Answer(Answer(pc, connecting, "refused"),
                  {w \in Watchers : pc[w] = "await" /\ sym[w] \in pending}, "canceled")
  /\ UNCHANGED <<dialer, connecting_id, sym, my_id>>

\* Mutant: only the pending senders are removed.
UnwatchKeepingEntry(s) ==
  /\ s \in subscribed
  /\ pending' = pending \ {s}
  /\ pc' = Answer(pc, Awaiting(s), "canceled")
  /\ UNCHANGED <<link, subscribed, requested, sym, my_id>>

\* unwatch() never suspends: the entries go, then UNSUBSCRIBE is sent.
Unwatch(s) ==
  /\ s \in subscribed
  /\ subscribed' = subscribed \ {s}
  /\ pending' = pending \ {s}
  /\ pc' = Answer(pc, Awaiting(s), "canceled")
  /\ UNCHANGED <<link, requested, sym, my_id>>

-----------------------------------------------------------------------------
Step(w) == Admit(w) \/ DialOk(w) \/ DialFail(w) \/ Resume(w) \/ Return(w)

Next ==
  \/ \E w \in Watchers : Step(w) \/ \E s \in Symbols : Watch(w, s)
  \/ \E s \in Symbols : Broadcast(s) \/ Unwatch(s)
  \/ Fail

Spec == Init /\ [][Next]_vars

\* The executor polls every task that is ready, the limiters refill and a
\* handshake ends one way or the other.  Nothing makes the server publish,
\* the socket fail or a task call watch().
Fairness == \A w \in Watchers : WF_vars(Step(w))

FairSpec == Spec /\ Fairness

-----------------------------------------------------------------------------
(* Type invariant.                                                         *)
TypeOK ==
  /\ status \in {"Disconnected", "Connecting", "Connected"}
  /\ tasks \in Nat
  /\ dialer \in Watchers \cup {NoWatcher}
  /\ connecting_id \in 1 .. IdMax
  /\ connecting \subseteq Watchers
  /\ subscribed \subseteq Symbols
  /\ pending \subseteq Symbols
  /\ requested \subseteq Symbols
  /\ pc \in [Watchers -> PCs]
  /\ sym \in [Watchers -> Symbols]
  /\ my_id \in [Watchers -> 0 .. IdMax]

(* There is at most one socket task, and exactly when the status says      *)
(* Connected.  Were a second one possible, the failure of the first would  *)
(* clear the registry of the second.                                       *)
OneSocket == tasks = IF status = "Connected" THEN 1 ELSE 0

(* A dial never finds the status Connecting left behind by another: then   *)
(* WsClient::connect would wait for a dial that is not under way, with the *)
(* RefCell borrowed for ever.                                              *)
DialStartsDisconnected ==
  \A w \in Watchers : pc[w] = "limit" => status = "Disconnected"

(* Whoever waits in connect() has a dialer to answer it: the senders in    *)
(* connecting are exactly those of the suspended waiters, and they exist   *)
(* only while somebody holds the WsClient.                                 *)
WaitersHaveDialer ==
  /\ connecting = {w \in Watchers : pc[w] = "wait"}
  /\ connecting # {} => dialer # NoWatcher

(* pending.get_mut(symbol).unwrap() in watch() does not panic: a symbol in *)
(* subscribed is a key of pending, through failures and unwatch alike.     *)
SubscribedHasPending == subscribed \subseteq pending

(* Nobody awaits a book whose sender is gone: a watcher at rx.await has    *)
(* its symbol registered, so a failure or an unwatch will cancel it.       *)
AwaitingIsRegistered ==
  \A w \in Watchers : pc[w] = "await" => sym[w] \in subscribed

(* Every watcher waiting for another's dial is answered.                   *)
WaitersAreAnswered ==
  \A w \in Watchers : pc[w] = "wait" ~> pc[w] # "wait"

(* The comment on watch(): "Se for a primeira chamada, envia SUBSCRIBE" -  *)
(* whoever awaits a book on a connected client awaits one the server was   *)
(* asked for.                                                              *)
AwaitedIsRequested ==
  \A w \in Watchers :
    pc[w] = "await" /\ status = "Connected" => sym[w] \in requested
=============================================================================
