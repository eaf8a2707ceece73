------------------------ MODULE MC_RateLimiterWindow ------------------------
(***************************************************************************)
(* RateLimiter with a log of when tokens were granted, to look at sliding  *)
(* windows.                                                                *)
(***************************************************************************)
EXTENDS RateLimiter, Functions

VARIABLE grantLog   \* tokens granted at each instant

WindowInit == Init /\ grantLog = [i \in 0 .. MaxNow |-> 0]

WindowNext ==
  /\ Next
  /\ grantLog' = [grantLog EXCEPT ![now] = @ + granted' - granted]

WindowSpec == WindowInit /\ [][WindowNext]_<<vars, grantLog>>

(* The crate documentation says of a bucket whose capacity and initial     *)
(* stock equal its refill amount: "For every hour long sliding window, no  *)
(* more than 1000 tokens can be acquired."                                 *)
SlidingWindowBound ==
  \A i \in 0 .. MaxNow :
    FoldFunctionOnSet(LAMBDA a, b : a + b, 0, grantLog,
                      {j \in 0 .. MaxNow : i =< j /\ j < i + Interval}) =< RefillAmount
=============================================================================
