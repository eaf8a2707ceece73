------------------------------- MODULE Monitor -------------------------------
(***************************************************************************)
(* An arbitrage under observation and those who listen (worker/monitor.rs, *)
(* ws_service and the broadcast channel of main.rs).                       *)
(*                                                                         *)
(* Two tasks of one worker watch the spot and the future book of the       *)
(* arbitrage, each over and over.  All that detect_arbitrage does once     *)
(* watch_orderbook() has returned it does without an await, so it is one   *)
(* step.  Notifications go into a broadcast channel that drops its oldest  *)
(* message when it is full; each websocket session has a task that reads   *)
(* the channel.                                                            *)
(*                                                                         *)
(* Prices are integers, percentages hundredths of a percent.  Other        *)
(* arbitrages add messages to the same channel.                            *)
(***************************************************************************)
EXTENDS Integers, FiniteSetsExt, SequencesExt

CONSTANTS
  Tops,             \* the tops of book that are seen: records [ask, bid]
  Sessions,         \* the websocket connections
  Capacity,         \* messages the channel keeps: 1000000
  MaxNotifications  \* bound on the messages sent

VARIABLES
  snapshot,  \* of the arbitrage
  read,      \* what each side last read, since a watch last failed
  alive,     \* FALSE once a task has panicked
  sent,      \* how many messages were broadcast
  session,   \* absent, open, or why its task ended
  joined,    \* how many had been sent when the session began
  pos,       \* how many it has passed
  tasks,     \* the messages it is sending, oldest first
  out,       \* the messages the socket got
  closing    \* whether it was told to end

listeners == <<session, joined, pos, tasks, out, closing>>
vars      == <<snapshot, read, alive, sent, listeners>>

Sides == {"spot", "future"}

\* No price read: what ArbitrageSnaphot::default() holds.
NoTop == [ask |-> 0, bid |-> 0]

-----------------------------------------------------------------------------
(* detect_arbitrage                                                        *)

\* n \div d towards zero.
Truncated(n, d) == IF n >= 0 THEN n \div d ELSE -((-n) \div d)

\* What is gained by buying at ask and selling at bid; 0 without an ask.
Percent(ask, bid) == IF ask = 0 THEN 0 ELSE Truncated((bid - ask) * 10000, ask)

Snapshot(spot, future) ==
  [spot |-> spot, future |-> future,
   entry |-> Percent(spot.ask, future.bid), exit |-> Percent(future.ask, spot.bid)]

Default == Snapshot(NoTop, NoTop)

\* The side that was read, beside what the snapshot has of the other.
Fresh(side, q) ==
  IF side = "spot" THEN Snapshot(q, snapshot.future) ELSE Snapshot(snapshot.spot, q)

Distance(m, n) == IF m < n THEN n - m ELSE m - n

\* A percentage moved by more than 0.05, all prices are known, and both
\* percentages are below 50.
NeedsNotification(new) ==
  /\ Distance(new.entry, snapshot.entry) > 5 \/ Distance(new.exit, snapshot.exit) > 5
  /\ \A p \in {new.spot.ask, new.spot.bid, new.future.ask, new.future.bid} : p > 0
  /\ Distance(new.entry, 0) < 5000 /\ Distance(new.exit, 0) < 5000

\* In overflow mode and with one receiver at least, broadcasting never fails.
\* What is serialised is the snapshot that is about to be replaced.
Notify(new) ==
  IF NeedsNotification(new) THEN sent < MaxNotifications /\ sent' = sent + 1 ELSE UNCHANGED sent

Detect(side, q) ==
  /\ alive
  /\ Notify(Fresh(side, q))
  /\ snapshot' = Fresh(side, q)
  /\ read' = [read EXCEPT ![side] = q]
  /\ UNCHANGED <<alive, listeners>>

\* Mutant: a failed watch leaves the snapshot alone.
WatchFailsKeeping(side) ==
  /\ alive
  /\ read' = [s \in Sides |-> NoTop]
  /\ UNCHANGED <<snapshot, alive, sent, listeners>>

\* A failed watch stores the default snapshot, for both sides.
WatchFails(side) ==
  /\ alive
  /\ snapshot' = Default
  /\ read' = [s \in Sides |-> NoTop]
  /\ UNCHANGED <<alive, sent, listeners>>

\* get_price() expects a price: a book with an empty side ends the process,
\* and all monitoring with it.
NoPrice(side) ==
  /\ alive
  /\ alive' = FALSE
  /\ UNCHANGED <<snapshot, read, sent, listeners>>

\* Some other arbitrage has news.
OtherNotifies ==
  /\ sent < MaxNotifications
  /\ sent' = sent + 1
  /\ UNCHANGED <<snapshot, read, alive, listeners>>

-----------------------------------------------------------------------------
(* ws_service: the branches of its select!, which are tried in this order  *)

\* Messages up to this one are gone.
Dropped == Max({0, sent - Capacity})

Lagged(x)   == pos[x] < Dropped
Readable(x) == pos[x] < sent

Connect(x) ==
  /\ session[x] = "absent"
  /\ session' = [session EXCEPT ![x] = "open"]
  /\ joined' = [joined EXCEPT ![x] = sent]
  /\ pos' = [pos EXCEPT ![x] = sent]
  /\ UNCHANGED <<snapshot, read, alive, sent, tasks, out, closing>>

\* Mutant: a session that lags goes on with what is left.
RecvSkipping(x) ==
  /\ session[x] = "open" /\ Readable(x)
  /\ pos' = [pos EXCEPT ![x] = Max({@, Dropped}) + 1]
  /\ tasks' = [tasks EXCEPT ![x] = Append(@, Max({pos[x], Dropped}) + 1)]
  /\ UNCHANGED <<snapshot, read, alive, sent, session, joined, out, closing>>

\* The next message becomes a send; for a session that lags, recv() is an
\* error, and the task ends.
Recv(x) ==
  /\ session[x] = "open" /\ Readable(x)
  /\ IF Lagged(x)
     THEN session' = [session EXCEPT ![x] = "lagged"] /\ UNCHANGED <<pos, tasks>>
     ELSE /\ pos' = [pos EXCEPT ![x] = @ + 1]
          /\ tasks' = [tasks EXCEPT ![x] = Append(@, pos[x] + 1)]
          /\ UNCHANGED session
  /\ UNCHANGED <<snapshot, read, alive, sent, joined, out, closing>>

\* Sends are polled in the order they were pushed.  One that fails ends the
\* task.
Sent(x) ==
  /\ session[x] = "open" /\ ~Readable(x) /\ tasks[x] # << >>
  /\ \/ /\ out' = [out EXCEPT ![x] = Append(@, Head(tasks[x]))]
        /\ tasks' = [tasks EXCEPT ![x] = Tail(@)]
        /\ UNCHANGED session
     \/ /\ session' = [session EXCEPT ![x] = "failed"]
        /\ UNCHANGED <<out, tasks>>
  /\ UNCHANGED <<snapshot, read, alive, sent, joined, pos, closing>>

\* The sends that are left may wait for the socket.
Closed(x) ==
  /\ session[x] = "open" /\ ~Readable(x) /\ closing[x]
  /\ session' = [session EXCEPT ![x] = "closed"]
  /\ UNCHANGED <<snapshot, read, alive, sent, joined, pos, tasks, out, closing>>

\* The service sees a Close frame, or is dropped with its connection.
Close(x) ==
  /\ session[x] # "absent" /\ ~closing[x]
  /\ closing' = [closing EXCEPT ![x] = TRUE]
  /\ UNCHANGED <<snapshot, read, alive, sent, session, joined, pos, tasks, out>>

-----------------------------------------------------------------------------
Init ==
  /\ snapshot = Default
  /\ read = [s \in Sides |-> NoTop]
  /\ alive = TRUE
  /\ sent = 0
  /\ session = [x \in Sessions |-> "absent"]
  /\ joined = [x \in Sessions |-> 0]
  /\ pos = [x \in Sessions |-> 0]
  /\ tasks = [x \in Sessions |-> << >>]
  /\ out = [x \in Sessions |-> << >>]
  /\ closing = [x \in Sessions |-> FALSE]

Next ==
  \/ \E side \in Sides : WatchFails(side) \/ NoPrice(side) \/ \E q \in Tops : Detect(side, q)
  \/ OtherNotifies
  \/ \E x \in Sessions : Connect(x) \/ Recv(x) \/ Sent(x) \/ Closed(x) \/ Close(x)

-----------------------------------------------------------------------------
(* Type invariant.                                                         *)
TypeOK ==
  /\ read \in [Sides -> Tops \cup {NoTop}]
  /\ snapshot.spot \in Tops \cup {NoTop} /\ snapshot.future \in Tops \cup {NoTop}
  /\ alive \in BOOLEAN
  /\ sent \in 0 .. MaxNotifications
  /\ session \in [Sessions -> {"absent", "open", "lagged", "failed", "closed"}]
  /\ joined \in [Sessions -> 0 .. sent]
  /\ pos \in [Sessions -> 0 .. sent]
  /\ tasks \in [Sessions -> Seq(1 .. sent)] /\ out \in [Sessions -> Seq(1 .. sent)]
  /\ closing \in [Sessions -> BOOLEAN]

(* The snapshot is what the two tasks last read, percentages included: one *)
(* never undoes the other's read, and one whose watch fails takes the      *)
(* other's prices with it, so that no percentage outlives a price.         *)
SnapshotIsLastRead == snapshot = Snapshot(read["spot"], read["future"])

(* What a session passes on is an unbroken run of the messages sent since  *)
(* it connected: a session the channel has overtaken ends rather than skip *)
(* a message.                                                              *)
Uninterrupted ==
  \A x \in Sessions :
    LET passed == out[x] \o tasks[x] IN
    /\ Len(passed) = pos[x] - joined[x]
    /\ \A i \in DOMAIN passed : passed[i] = joined[x] + i
=============================================================================
