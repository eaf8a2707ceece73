----------------------------- MODULE TokenQuota -----------------------------
(***************************************************************************)
(* What a Ratelimiter promises its callers, without threads, atomics or a  *)
(* bucket: the tokens handed out so far never exceed the initial stock     *)
(* plus one refill amount for every whole interval that has passed since   *)
(* the limiter was built.                                                  *)
(***************************************************************************)
EXTENDS Integers

CONSTANTS RefillAmount,      \* tokens added per interval
          Interval,          \* length of a refill interval
          InitialAvailable,  \* tokens in the bucket when it is built
          Requests           \* the sizes try_wait_n is called with

VARIABLES built,    \* when the limiter was built
          now,      \* the monotonic clock
          granted   \* tokens acquired so far

quotaVars == <<built, now, granted>>

Quota == InitialAvailable + RefillAmount * ((now - built) \div Interval)

QuotaInit ==
  /\ built \in Nat
  /\ now = built
  /\ granted = 0

Pass ==
  /\ now' = now + 1
  /\ UNCHANGED <<built, granted>>

Acquire ==
  /\ \E n \in Requests : /\ granted + n =< Quota
                         /\ granted' = granted + n
  /\ UNCHANGED <<built, now>>

QuotaSpec == QuotaInit /\ [][Pass \/ Acquire]_quotaVars
=============================================================================
