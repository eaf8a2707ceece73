---------------------------- MODULE RateLimiter -----------------------------
(***************************************************************************)
(* The lock-free token bucket of dependencies/ratelimit.  The HTTP and the *)
(* connect limiters of every exchange are statics shared by all worker     *)
(* threads, so each atomic access of try_wait_n and maybe_refill is one    *)
(* step.  Time is the server's clock projected on the monotonic one, as    *)
(* build() does it.                                                        *)
(*                                                                         *)
(* A weak compare-exchange that fails spuriously reloads the value it had, *)
(* which is a stuttering step here.  Parameters are read under an RwLock   *)
(* that only the run-time setters take for writing; nothing in the program *)
(* calls those, so the parameters are constants.                           *)
(***************************************************************************)
EXTENDS Integers, FiniteSets

CONSTANTS
  Threads,           \* the threads that share the limiter
  Capacity,          \* max_tokens
  RefillAmount,      \* refill_amount
  Interval,          \* refill_interval
  InitialAvailable,  \* initial_available
  Align,             \* the window of the Alignment: a minute, a second, ...
  BuildTimes,        \* the times at which build() may run
  Requests,          \* the sizes try_wait_n is called with
  MaxNow             \* bound on the clock

ASSUME LimiterAssumption ==
  /\ IsFiniteSet(Threads)
  /\ Capacity \in Nat
  /\ RefillAmount \in Nat
  /\ Interval \in Nat \ {0}
  /\ InitialAvailable \in Nat
  /\ Align \in Nat \ {0}
  /\ BuildTimes \subseteq Nat
  /\ Requests \subseteq Nat
  /\ MaxNow \in Nat
  \* the errors build() returns otherwise
  /\ RefillAmount =< Capacity
  /\ InitialAvailable =< Capacity

VARIABLES
  now,        \* the clock
  built,      \* when build() ran
  start,      \* parameters.start_instant
  last_tick,  \* from start to the last refill tick
  available,  \* tokens in the bucket
  dropped,    \* tokens that overflowed the bucket
  claimed,    \* ghost: refill ticks claimed so far
  granted,    \* ghost: tokens handed out so far
  pc,         \* the next step of each thread
  req,        \* the tokens argument of its call
  last,       \* its local last
  ticks,      \* its local ticks_passed
  cur,        \* its local current
  owed        \* tokens it claimed and has neither credited nor dropped yet

bucket == <<last_tick, available, dropped, claimed, granted>>
clock  == <<now, built, start>>
vars   == <<now, built, start, last_tick, available, dropped, claimed,
            granted, pc, req, last, ticks, cur, owed>>

PCs == {"idle", "clock", "claim", "load", "credit", "spill", "take", "grab"}

Goto(t, label) == pc' = [pc EXCEPT ![t] = label]

AtMost(n, bound) == IF n =< bound THEN n ELSE bound

-----------------------------------------------------------------------------
(* build(): the window that contains the build time becomes start_instant, *)
(* and the time since its beginning becomes the first last_tick.           *)
Build ==
  /\ built \in BuildTimes
  /\ now = built
  /\ start = built - (built % Align)
  /\ last_tick = built % Align

Init ==
  /\ Build
  /\ available = InitialAvailable
  /\ dropped = 0
  /\ claimed = 0
  /\ granted = 0
  /\ pc = [t \in Threads |-> "idle"]
  /\ req = [t \in Threads |-> 0]
  /\ last = [t \in Threads |-> 0]
  /\ ticks = [t \in Threads |-> 0]
  /\ cur = [t \in Threads |-> 0]
  /\ owed = [t \in Threads |-> 0]

Tick ==
  /\ now < MaxNow
  /\ now' = now + 1
  /\ UNCHANGED <<built, start, bucket, pc, req, last, ticks, cur, owed>>

-----------------------------------------------------------------------------
(* maybe_refill                                                            *)

\* try_wait_n(n) enters maybe_refill, which loads last_tick first.
Call(t) ==
  /\ pc[t] = "idle"
  /\ \E n \in Requests : req' = [req EXCEPT ![t] = n]
  /\ last' = [last EXCEPT ![t] = last_tick]
  /\ Goto(t, "clock")
  /\ UNCHANGED <<clock, bucket, ticks, cur, owed>>

TicksPassed(t) ==
  LET elapsed == now - start
  IN  IF elapsed =< last[t] THEN 0 ELSE (elapsed - last[t]) \div Interval

ReadClock(t) ==
  /\ pc[t] = "clock"
  /\ ticks' = [ticks EXCEPT ![t] = TicksPassed(t)]
  /\ Goto(t, IF TicksPassed(t) = 0 THEN "take" ELSE "claim")
  /\ UNCHANGED <<clock, bucket, req, last, cur, owed>>

\* Mutant: last_tick is stored without comparing it.
ClaimBlindly(t) ==
  /\ pc[t] = "claim"
  /\ last_tick' = last[t] + ticks[t] * Interval
  /\ claimed' = claimed + ticks[t]
  /\ owed' = [owed EXCEPT ![t] = ticks[t] * RefillAmount]
  /\ Goto(t, "load")
  /\ UNCHANGED <<clock, available, dropped, granted, req, last, ticks, cur>>

\* The thread whose compare-exchange moves last_tick owes the tokens of the
\* ticks it claimed; the others go on without refilling.
Claim(t) ==
  /\ pc[t] = "claim"
  /\ \/ /\ last_tick = last[t]
        /\ last_tick' = last[t] + ticks[t] * Interval
        /\ claimed' = claimed + ticks[t]
        /\ owed' = [owed EXCEPT ![t] = ticks[t] * RefillAmount]
        /\ Goto(t, "load")
     \/ /\ last_tick # last[t]
        /\ Goto(t, "take")
        /\ UNCHANGED <<last_tick, claimed, owed>>
  /\ UNCHANGED <<clock, available, dropped, granted, req, last, ticks, cur>>

LoadAvailable(t) ==
  /\ pc[t] = "load"
  /\ cur' = [cur EXCEPT ![t] = available]
  /\ Goto(t, "credit")
  /\ UNCHANGED <<clock, bucket, req, last, ticks, owed>>

\* Mutant: available is stored without comparing it.
CreditBlindly(t) ==
  LET filled == AtMost(cur[t] + owed[t], Capacity)
      excess == cur[t] + owed[t] - filled
  IN  /\ pc[t] = "credit"
      /\ available' = filled
      /\ owed' = [owed EXCEPT ![t] = excess]
      /\ Goto(t, IF excess > 0 THEN "spill" ELSE "take")
      /\ UNCHANGED <<clock, last_tick, dropped, claimed, granted, req, last, ticks, cur>>

\* One round of the compare_exchange_weak loop: the bucket is filled up to
\* its capacity, and what does not fit is left to be counted as dropped.
Credit(t) ==
  LET filled == AtMost(cur[t] + owed[t], Capacity)
      excess == cur[t] + owed[t] - filled
  IN  /\ pc[t] = "credit"
      /\ \/ /\ available = cur[t]
            /\ available' = filled
            /\ owed' = [owed EXCEPT ![t] = excess]
            /\ Goto(t, IF excess > 0 THEN "spill" ELSE "take")
            /\ cur' = cur
         \/ /\ available # cur[t]
            /\ cur' = [cur EXCEPT ![t] = available]
            /\ UNCHANGED <<available, owed, pc>>
      /\ UNCHANGED <<clock, last_tick, dropped, claimed, granted, req, last, ticks>>

Spill(t) ==
  /\ pc[t] = "spill"
  /\ dropped' = dropped + owed[t]
  /\ owed' = [owed EXCEPT ![t] = 0]
  /\ Goto(t, "take")
  /\ UNCHANGED <<clock, last_tick, available, claimed, granted, req, last, ticks, cur>>

-----------------------------------------------------------------------------
(* The loop of try_wait_n                                                  *)

\* With too few tokens the call returns Err with the time to the next refill.
Take(t) ==
  /\ pc[t] = "take"
  /\ cur' = [cur EXCEPT ![t] = available]
  /\ Goto(t, IF available >= req[t] THEN "grab" ELSE "idle")
  /\ UNCHANGED <<clock, bucket, req, last, ticks, owed>>

\* Mutant: available is stored without comparing it.
GrabBlindly(t) ==
  /\ pc[t] = "grab"
  /\ available' = cur[t] - req[t]
  /\ granted' = granted + req[t]
  /\ Goto(t, "idle")
  /\ UNCHANGED <<clock, last_tick, dropped, claimed, req, last, ticks, cur, owed>>

Grab(t) ==
  /\ pc[t] = "grab"
  /\ \/ /\ available = cur[t]
        /\ available' = cur[t] - req[t]
        /\ granted' = granted + req[t]
        /\ Goto(t, "idle")
     \/ /\ available # cur[t]
        /\ Goto(t, "take")
        /\ UNCHANGED <<available, granted>>
  /\ UNCHANGED <<clock, last_tick, dropped, claimed, req, last, ticks, cur, owed>>

-----------------------------------------------------------------------------
Refill(t) == Call(t) \/ ReadClock(t) \/ Claim(t) \/ LoadAvailable(t) \/ Credit(t) \/ Spill(t)

Next == Tick \/ \E t \in Threads : Refill(t) \/ Take(t) \/ Grab(t)

Spec == Init /\ [][Next]_vars

-----------------------------------------------------------------------------
(* Type invariant: in particular no u64 of the limiter ever goes below 0.  *)
TypeOK ==
  /\ now \in Nat /\ built \in Nat /\ start \in Int
  /\ last_tick \in Nat /\ available \in Nat /\ dropped \in Nat
  /\ claimed \in Nat /\ granted \in Nat
  /\ pc \in [Threads -> PCs]
  /\ req \in [Threads -> Nat]
  /\ last \in [Threads -> Nat]
  /\ ticks \in [Threads -> Nat]
  /\ cur \in [Threads -> Nat]
  /\ owed \in [Threads -> Nat]

Tokens(f) == UNION {{t} \X (1 .. f[t]) : t \in Threads}

(* However the compare-exchanges of several threads interleave, no token   *)
(* is lost or minted: the initial tokens and those of every claimed tick   *)
(* are in the bucket, granted, dropped, or still owed by the thread that   *)
(* claimed them.                                                           *)
Conservation ==
  InitialAvailable + claimed * RefillAmount
    = available + granted + dropped + Cardinality(Tokens(owed))

(* maybe_refill never fills the bucket above max_tokens, even when it was  *)
(* preempted between the load of available and its compare-exchange.       *)
NeverOverCapacity == available =< Capacity

(* Every interval is claimed at most once and never before it has passed:  *)
(* the refill ticks are at built + k * Interval and the last is not ahead  *)
(* of the clock.                                                           *)
TicksAreElapsedTime ==
  /\ start + last_tick = built + claimed * Interval
  /\ start + last_tick =< now

(* The rate bound callers rely on to stay within the exchange's limits:    *)
(* tokens granted since build() are at most the initial tokens plus        *)
(* RefillAmount for each whole Interval elapsed.                           *)
RateBound ==
  granted =< InitialAvailable + RefillAmount * ((now - built) \div Interval)

(* The limiter implements the abstract quota.                              *)
Q == INSTANCE TokenQuota WITH
       RefillAmount <- RefillAmount, Interval <- Interval, InitialAvailable <- InitialAvailable,
       Requests <- Requests, built <- built, now <- now, granted <- granted
QuotaSpec == Q!QuotaSpec

(* The comments of build() and sync_time() say the refill phase is aligned *)
(* with the window of the configured Alignment ("This becomes our aligned  *)
(* "monotonic epoch""): a refill falls on a window boundary.               *)
RefillsAreAligned == claimed > 0 => (start + last_tick) % Align = 0
=============================================================================
