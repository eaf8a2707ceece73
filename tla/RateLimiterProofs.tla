-------------------------- MODULE RateLimiterProofs -------------------------
(***************************************************************************)
(* Proofs about RateLimiter for any number of threads, any capacity, rate  *)
(* and request size.                                                       *)
(***************************************************************************)
EXTENDS RateLimiter, FiniteSetTheorems, TLAPS

(***************************************************************************)
(* Owed tokens: the sum of owed over the threads, as the size of a set.    *)
(***************************************************************************)

\* The tokens owed by the threads of S.
TokensOf(S, f) == UNION {{t} \X (1 .. f[t]) : t \in S}

(* One thread owes as many tokens as its counter says (the local           *)
(* tokens_to_add of maybe_refill).                                         *)
LEMMA RowCount ==
  ASSUME NEW t, NEW n \in Nat
  PROVE  /\ IsFiniteSet({t} \X (1 .. n))
         /\ Cardinality({t} \X (1 .. n)) = n
<1>1. IsFiniteSet({t}) /\ Cardinality({t}) = 1
  BY FS_Singleton
<1>2. IsFiniteSet(1 .. n) /\ Cardinality(1 .. n) = n
  BY FS_Interval
<1>3. /\ IsFiniteSet({t} \X (1 .. n))
      /\ Cardinality({t} \X (1 .. n)) = Cardinality({t}) * Cardinality(1 .. n)
  BY <1>1, <1>2, FS_Product
<1> QED
  BY <1>1, <1>2, <1>3

(* The tokens owed by finitely many threads form a finite set.             *)
LEMMA TokensFinite ==
  ASSUME NEW S \in SUBSET Threads, NEW f \in [Threads -> Nat]
  PROVE  IsFiniteSet(TokensOf(S, f))
<1> DEFINE row == [t \in S |-> {t} \X (1 .. f[t])]
           Rows == {{t} \X (1 .. f[t]) : t \in S}
<1>1. IsFiniteSet(S)
  BY FS_Subset, LimiterAssumption
<1>2. row \in Surjection(S, Rows)
  BY DEF Surjection
<1>3. IsFiniteSet(Rows)
  <2> HIDE DEF row, Rows
  <2> QED BY <1>1, <1>2, FS_Surjection
<1>4. \A T \in Rows : IsFiniteSet(T)
  <2>1. TAKE T \in Rows
  <2>2. PICK t \in S : T = {t} \X (1 .. f[t])
    BY <2>1
  <2>3. f[t] \in Nat
    OBVIOUS
  <2> QED BY <2>2, <2>3, RowCount
<1>5. IsFiniteSet(UNION Rows)
  <2> HIDE DEF Rows
  <2> QED BY <1>3, <1>4, FS_UNION
<1> QED
  BY <1>5 DEF TokensOf

(* A thread's own tokens can be told apart from those of the others.       *)
LEMMA SplitTokens ==
  ASSUME NEW f \in [Threads -> Nat], NEW t \in Threads
  PROVE  Cardinality(Tokens(f)) = Cardinality(TokensOf(Threads \ {t}, f)) + f[t]
<1> DEFINE mine == {t} \X (1 .. f[t])
           others == TokensOf(Threads \ {t}, f)
<1>1. Tokens(f) = others \cup mine
  BY DEF Tokens, TokensOf
<1>2. others \cap mine = {}
  BY DEF TokensOf
<1>3. IsFiniteSet(others)
  BY TokensFinite
<1>4. IsFiniteSet(mine) /\ Cardinality(mine) = f[t]
  BY RowCount
<1>5. Cardinality(others \cup mine) = Cardinality(others) + Cardinality(mine) - Cardinality(others \cap mine)
  <2> HIDE DEF mine, others
  <2> QED BY <1>3, <1>4, FS_Union
<1>6. Cardinality(others \cap mine) = 0
  BY <1>2, FS_EmptySet
<1>7. Cardinality(others) \in Nat
  <2> HIDE DEF others
  <2> QED BY <1>3, FS_CardinalityType
<1> QED
  <2> HIDE DEF mine, others
  <2>1. Cardinality(Tokens(f)) = Cardinality(others) + f[t]
    BY <1>1, <1>4, <1>5, <1>6, <1>7
  <2> QED BY <2>1 DEF others

(* The number of owed tokens is a natural number.                          *)
LEMMA TokensType ==
  ASSUME NEW f \in [Threads -> Nat]
  PROVE  Cardinality(Tokens(f)) \in Nat
<1>1. Tokens(f) = TokensOf(Threads, f)
  BY DEF Tokens, TokensOf
<1> QED
  BY <1>1, TokensFinite, FS_CardinalityType

(* When one thread's debt changes from f[t] to n (Claim, Credit and Spill  *)
(* each change one), the total changes by as much.                         *)
LEMMA TokensUpdate ==
  ASSUME NEW f \in [Threads -> Nat], NEW t \in Threads, NEW n \in Nat
  PROVE  Cardinality(Tokens([f EXCEPT ![t] = n])) = Cardinality(Tokens(f)) - f[t] + n
<1> DEFINE g == [f EXCEPT ![t] = n]
<1>1. g \in [Threads -> Nat] /\ g[t] = n
  OBVIOUS
<1>2. TokensOf(Threads \ {t}, g) = TokensOf(Threads \ {t}, f)
  BY DEF TokensOf
<1>3. Cardinality(Tokens(g)) = Cardinality(TokensOf(Threads \ {t}, g)) + g[t]
  <2> HIDE DEF g
  <2> QED BY <1>1, SplitTokens
<1>4. Cardinality(Tokens(f)) = Cardinality(TokensOf(Threads \ {t}, f)) + f[t]
  BY SplitTokens
<1>5. Cardinality(TokensOf(Threads \ {t}, f)) \in Nat
  BY TokensFinite, FS_CardinalityType
<1>6. f[t] \in Nat
  OBVIOUS
<1> QED
  <2> HIDE DEF g
  <2>1. Cardinality(Tokens(g)) = Cardinality(Tokens(f)) - f[t] + n
    BY <1>1, <1>2, <1>3, <1>4, <1>5, <1>6
  <2> QED BY <2>1 DEF g

(***************************************************************************)
(* Arithmetic of the ticks.                                                *)
(***************************************************************************)

(* ticks_passed intervals have passed since the last tick.                 *)
LEMMA DivTimes ==
  ASSUME NEW d \in Nat, NEW i \in Nat \ {0}
  PROVE  d \div i \in Nat /\ (d \div i) * i =< d
  OBVIOUS

(* k whole intervals in d make k at most d \div i.                         *)
LEMMA DivBound ==
  ASSUME NEW d \in Nat, NEW i \in Nat \ {0}, NEW k \in Nat, k * i =< d
  PROVE  k =< d \div i
<1> DEFINE q == d \div i
<1>1. q \in Nat /\ q * i =< d /\ d < (q + 1) * i
  OBVIOUS
<1> HIDE DEF q
<1>2. SUFFICES ASSUME q + 1 =< k PROVE FALSE
  BY <1>1 DEF q
<1>3. (q + 1) * i =< k * i
  BY <1>1, <1>2
<1> QED
  BY <1>1, <1>3

LEMMA TimesMonotonic ==
  ASSUME NEW a \in Nat, NEW b \in Nat, NEW r \in Nat, a =< b
  PROVE  a * r =< r * b
  OBVIOUS

LEMMA Distribute ==
  ASSUME NEW a \in Int, NEW b \in Int, NEW r \in Int
  PROVE  (a + b) * r = a * r + b * r
  OBVIOUS

(***************************************************************************)
(* The inductive invariant: the invariants checked by TLC, and what a      *)
(* thread's locals mean while it is between two atomic accesses.           *)
(***************************************************************************)

Locals ==
  \A t \in Threads :
    /\ pc[t] \notin {"load", "credit", "spill"} => owed[t] = 0
    /\ pc[t] = "claim" => start + last[t] + ticks[t] * Interval =< now
    /\ pc[t] = "grab" => req[t] =< cur[t]
    /\ pc[t] # "idle" => req[t] \in Requests

IInv ==
  /\ TypeOK
  /\ Conservation
  /\ NeverOverCapacity
  /\ TicksAreElapsedTime
  /\ Locals

(* build() establishes the invariant.                                      *)
LEMMA InitIInv == Init => IInv
<1> SUFFICES ASSUME Init PROVE IInv
  OBVIOUS
<1> USE LimiterAssumption DEF Init, Build
<1>1. built \in Nat /\ built % Align \in 0 .. Align - 1
  OBVIOUS
<1>2. TypeOK
  BY <1>1 DEF TypeOK, PCs
<1>3. Tokens(owed) = {}
  BY DEF Tokens
<1>4. Cardinality(Tokens(owed)) = 0
  BY <1>3, FS_EmptySet
<1>5. Conservation
  BY <1>4 DEF Conservation
<1>6. TicksAreElapsedTime
  BY <1>1 DEF TicksAreElapsedTime
<1> QED
  BY <1>2, <1>5, <1>6 DEF IInv, NeverOverCapacity, Locals

(* Every step of every thread preserves it.                                *)
LEMMA NextIInv == IInv /\ [Next]_vars => IInv'
<1> SUFFICES ASSUME IInv, [Next]_vars PROVE IInv'
  OBVIOUS
<1> USE LimiterAssumption
<1>0. /\ TypeOK /\ Conservation /\ NeverOverCapacity /\ TicksAreElapsedTime /\ Locals
      /\ Cardinality(Tokens(owed)) \in Nat
  BY TokensType DEF IInv, TypeOK
<1>1. CASE Tick
  BY <1>0, <1>1 DEF Tick, bucket, IInv, TypeOK, Conservation, NeverOverCapacity, TicksAreElapsedTime, Locals
<1>2. ASSUME NEW t \in Threads, Call(t) PROVE IInv'
  <2>1. TypeOK'
    BY <1>0, <1>2 DEF Call, Goto, clock, bucket, TypeOK, PCs
  <2>2. Locals'
    BY <1>0, <1>2 DEF Call, Goto, clock, bucket, TypeOK, Locals
  <2> QED
    BY <1>0, <1>2, <2>1, <2>2
    DEF Call, clock, bucket, IInv, Conservation, NeverOverCapacity, TicksAreElapsedTime
<1>3. ASSUME NEW t \in Threads, ReadClock(t) PROVE IInv'
  <2>1. now - start \in Int /\ last[t] \in Nat
    BY <1>0 DEF TypeOK
  <2>2. /\ TicksPassed(t) \in Nat
        /\ TicksPassed(t) # 0 => start + last[t] + TicksPassed(t) * Interval =< now
    <3>1. CASE now - start =< last[t]
      BY <3>1 DEF TicksPassed
    <3>2. CASE ~(now - start =< last[t])
      <4>1. (now - start) - last[t] \in Nat
        BY <2>1, <3>2
      <4>2. TicksPassed(t) = ((now - start) - last[t]) \div Interval
        BY <3>2 DEF TicksPassed
      <4>3. /\ TicksPassed(t) \in Nat
            /\ TicksPassed(t) * Interval =< (now - start) - last[t]
        BY <4>1, <4>2, DivTimes
      <4>4. TicksPassed(t) * Interval \in Nat /\ now \in Nat /\ start \in Int
        BY <4>3, <1>0 DEF TypeOK
      <4> QED BY <2>1, <4>3, <4>4
    <3> QED BY <3>1, <3>2
  <2>3. TypeOK'
    BY <1>0, <1>3, <2>2 DEF ReadClock, Goto, clock, bucket, TypeOK, PCs
  <2>4. Locals'
    BY <1>0, <1>3, <2>2 DEF ReadClock, Goto, clock, bucket, TypeOK, Locals
  <2> QED
    BY <1>0, <1>3, <2>3, <2>4
    DEF ReadClock, clock, bucket, IInv, Conservation, NeverOverCapacity, TicksAreElapsedTime
<1>4. ASSUME NEW t \in Threads, Claim(t) PROVE IInv'
  <2>1. CASE last_tick # last[t]
    <3>1. TypeOK'
      BY <1>0, <1>4, <2>1 DEF Claim, Goto, clock, TypeOK, PCs
    <3>2. Locals'
      BY <1>0, <1>4, <2>1 DEF Claim, Goto, clock, TypeOK, Locals
    <3> QED
      BY <1>0, <1>4, <2>1, <3>1, <3>2
      DEF Claim, clock, IInv, Conservation, NeverOverCapacity, TicksAreElapsedTime
  <2>2. CASE last_tick = last[t]
    <3>1. /\ ticks[t] \in Nat /\ claimed \in Nat /\ last[t] \in Nat
          /\ owed[t] = 0 /\ owed \in [Threads -> Nat]
          /\ available \in Nat /\ granted \in Nat /\ dropped \in Nat
          /\ now \in Nat /\ built \in Nat /\ start \in Int
      BY <1>0, <1>4 DEF Claim, Locals, TypeOK
    <3>2. ticks[t] * Interval \in Nat /\ ticks[t] * RefillAmount \in Nat
      BY <3>1
    <3>3. TypeOK'
      BY <1>0, <1>4, <2>2, <3>1, <3>2 DEF Claim, Goto, clock, TypeOK, PCs
    <3>4. Cardinality(Tokens(owed')) = Cardinality(Tokens(owed)) + ticks[t] * RefillAmount
      <4>1. owed' = [owed EXCEPT ![t] = ticks[t] * RefillAmount]
        BY <1>4, <2>2 DEF Claim
      <4>2. Cardinality(Tokens(owed')) = Cardinality(Tokens(owed)) - owed[t] + ticks[t] * RefillAmount
        BY <3>1, <3>2, <4>1, TokensUpdate
      <4> QED BY <1>0, <3>1, <3>2, <4>2
    <3>5. Conservation'
      <4>1. claimed' * RefillAmount = claimed * RefillAmount + ticks[t] * RefillAmount
        BY <1>4, <2>2, <3>1, Distribute DEF Claim
      <4>2. claimed * RefillAmount \in Nat
        BY <3>1
      <4>3. InitialAvailable + claimed' * RefillAmount
              = available + granted + dropped + Cardinality(Tokens(owed'))
        BY <1>0, <3>1, <3>2, <3>4, <4>1, <4>2 DEF Conservation
      <4> QED
        BY <1>4, <4>3 DEF Claim, Conservation, Tokens
    <3>6. TicksAreElapsedTime'
      <4>1. claimed' * Interval = claimed * Interval + ticks[t] * Interval
        BY <1>4, <2>2, <3>1, Distribute DEF Claim
      <4>2. claimed * Interval \in Nat
        BY <3>1
      <4>3. start + last[t] + ticks[t] * Interval =< now
        BY <1>0, <1>4 DEF Claim, Locals
      <4> QED
        BY <1>0, <1>4, <2>2, <3>1, <3>2, <4>1, <4>2, <4>3 DEF Claim, clock, TicksAreElapsedTime
    <3>7. Locals'
      BY <1>0, <1>4, <2>2, <3>3 DEF Claim, Goto, clock, TypeOK, Locals
    <3> QED
      BY <1>0, <1>4, <3>3, <3>5, <3>6, <3>7 DEF Claim, IInv, NeverOverCapacity
  <2> QED BY <2>1, <2>2
<1>5. ASSUME NEW t \in Threads, LoadAvailable(t) PROVE IInv'
  <2>1. TypeOK'
    BY <1>0, <1>5 DEF LoadAvailable, Goto, clock, bucket, TypeOK, PCs
  <2>2. Locals'
    BY <1>0, <1>5 DEF LoadAvailable, Goto, clock, bucket, TypeOK, Locals
  <2> QED
    BY <1>0, <1>5, <2>1, <2>2
    DEF LoadAvailable, clock, bucket, IInv, Conservation, NeverOverCapacity, TicksAreElapsedTime
<1>6. ASSUME NEW t \in Threads, Credit(t) PROVE IInv'
  <2> DEFINE filled == AtMost(cur[t] + owed[t], Capacity)
             excess == cur[t] + owed[t] - filled
  <2>1. /\ cur[t] \in Nat /\ owed[t] \in Nat /\ owed \in [Threads -> Nat]
        /\ filled \in Nat /\ filled =< Capacity /\ excess \in Nat
        /\ filled + excess = cur[t] + owed[t]
    BY <1>0 DEF TypeOK, AtMost
  <2> HIDE DEF filled, excess
  <2>2. CASE available # cur[t]
    <3>1. TypeOK'
      BY <1>0, <1>6, <2>2 DEF Credit, Goto, clock, TypeOK, PCs
    <3>2. Locals'
      BY <1>0, <1>6, <2>2 DEF Credit, Goto, clock, TypeOK, Locals
    <3> QED
      BY <1>0, <1>6, <2>2, <3>1, <3>2
      DEF Credit, clock, IInv, Conservation, NeverOverCapacity, TicksAreElapsedTime
  <2>3. CASE available = cur[t]
    <3>1. /\ available' = filled
          /\ owed' = [owed EXCEPT ![t] = excess]
          /\ pc' = [pc EXCEPT ![t] = IF excess > 0 THEN "spill" ELSE "take"]
          /\ pc[t] = "credit"
          /\ UNCHANGED <<now, built, start, last_tick, dropped, claimed, granted, req, last, ticks, cur>>
      BY <1>6, <2>3 DEF Credit, Goto, clock, filled, excess
    <3>2. TypeOK'
      BY <1>0, <2>1, <3>1 DEF TypeOK, PCs
    <3>3. Cardinality(Tokens(owed')) = Cardinality(Tokens(owed)) - owed[t] + excess
      BY <2>1, <3>1, TokensUpdate
    <3>4. Conservation'
      <4>1. claimed * RefillAmount \in Nat /\ granted \in Nat /\ dropped \in Nat
        BY <1>0 DEF TypeOK
      <4>2. InitialAvailable + claimed * RefillAmount
              = filled + granted + dropped + Cardinality(Tokens(owed'))
        BY <1>0, <2>1, <2>3, <3>3, <4>1 DEF Conservation
      <4> QED
        BY <3>1, <4>2 DEF Conservation, Tokens
    <3>5. Locals'
      BY <1>0, <2>1, <3>1 DEF TypeOK, Locals
    <3> QED
      BY <1>0, <2>1, <3>1, <3>2, <3>4, <3>5 DEF IInv, NeverOverCapacity, TicksAreElapsedTime
  <2> QED BY <2>2, <2>3
<1>7. ASSUME NEW t \in Threads, Spill(t) PROVE IInv'
  <2>1. /\ owed[t] \in Nat /\ owed \in [Threads -> Nat] /\ dropped \in Nat
        /\ granted \in Nat /\ available \in Nat /\ claimed * RefillAmount \in Nat
    BY <1>0 DEF TypeOK
  <2>2. TypeOK'
    BY <1>0, <1>7 DEF Spill, Goto, clock, TypeOK, PCs
  <2>3. Cardinality(Tokens(owed')) = Cardinality(Tokens(owed)) - owed[t] + 0
    BY <1>7, <2>1, TokensUpdate DEF Spill
  <2>4. InitialAvailable + claimed * RefillAmount
          = available + granted + (dropped + owed[t]) + Cardinality(Tokens(owed'))
    BY <1>0, <2>1, <2>3 DEF Conservation
  <2>5. Conservation'
    BY <1>7, <2>4 DEF Spill, Conservation, Tokens
  <2>6. Locals'
    BY <1>0, <1>7 DEF Spill, Goto, clock, TypeOK, Locals
  <2> QED
    BY <1>0, <1>7, <2>2, <2>5, <2>6 DEF Spill, clock, IInv, NeverOverCapacity, TicksAreElapsedTime
<1>8. ASSUME NEW t \in Threads, Take(t) PROVE IInv'
  <2>1. TypeOK'
    BY <1>0, <1>8 DEF Take, Goto, clock, bucket, TypeOK, PCs
  <2>2. Locals'
    BY <1>0, <1>8 DEF Take, Goto, clock, bucket, TypeOK, Locals
  <2> QED
    BY <1>0, <1>8, <2>1, <2>2
    DEF Take, clock, bucket, IInv, Conservation, NeverOverCapacity, TicksAreElapsedTime
<1>9. ASSUME NEW t \in Threads, Grab(t) PROVE IInv'
  <2>1. /\ cur[t] \in Nat /\ req[t] \in Nat /\ req[t] =< cur[t]
        /\ granted \in Nat /\ dropped \in Nat /\ available \in Nat
        /\ claimed * RefillAmount \in Nat
    BY <1>0, <1>9 DEF Grab, TypeOK, Locals
  <2>2. TypeOK'
    BY <1>0, <1>9, <2>1 DEF Grab, Goto, clock, TypeOK, PCs
  <2>3. Locals'
    BY <1>0, <1>9 DEF Grab, Goto, clock, TypeOK, Locals
  <2>4. available' + granted' = available + granted /\ available' =< available
    BY <1>9, <2>1 DEF Grab
  <2>5. available' \in Nat /\ granted' \in Nat /\ UNCHANGED <<owed, dropped, claimed>>
    BY <1>9, <2>2 DEF Grab, TypeOK
  <2>6. Conservation'
    <3>1. InitialAvailable + claimed * RefillAmount
            = available' + granted' + dropped + Cardinality(Tokens(owed))
      BY <1>0, <2>1, <2>4, <2>5 DEF Conservation
    <3> QED BY <2>5, <3>1 DEF Conservation, Tokens
  <2>7. NeverOverCapacity'
    BY <1>0, <2>1, <2>4, <2>5 DEF NeverOverCapacity
  <2> QED
    BY <1>0, <1>9, <2>2, <2>3, <2>6, <2>7 DEF Grab, clock, IInv, TicksAreElapsedTime
<1>10. CASE UNCHANGED vars
  BY <1>0, <1>10
  DEF vars, IInv, TypeOK, Conservation, Tokens, NeverOverCapacity, TicksAreElapsedTime, Locals
<1> QED
  BY <1>1, <1>2, <1>3, <1>4, <1>5, <1>6, <1>7, <1>8, <1>9, <1>10 DEF Next, Refill

(* The invariant, with Conservation, bounds the tokens granted by the      *)
(* intervals elapsed.                                                      *)
LEMMA IInvImpliesRateBound == IInv => RateBound
<1> SUFFICES ASSUME IInv PROVE RateBound
  OBVIOUS
<1> USE LimiterAssumption
<1>1. /\ now \in Nat /\ built \in Nat /\ claimed \in Nat /\ granted \in Nat
      /\ available \in Nat /\ dropped \in Nat
      /\ Cardinality(Tokens(owed)) \in Nat
      /\ claimed * Interval \in Nat /\ claimed * RefillAmount \in Nat
  BY TokensType DEF IInv, TypeOK
<1>2. now - built \in Nat /\ claimed * Interval =< now - built
  BY <1>1 DEF IInv, TypeOK, TicksAreElapsedTime
<1> DEFINE k == (now - built) \div Interval
<1>3. k \in Nat /\ claimed =< k
  BY <1>1, <1>2, DivBound, DivTimes
<1> HIDE DEF k
<1>4. claimed * RefillAmount =< RefillAmount * k
  BY <1>1, <1>3, TimesMonotonic
<1>5. RefillAmount * k \in Nat
  BY <1>3
<1>6. granted =< InitialAvailable + claimed * RefillAmount
  BY <1>1 DEF IInv, Conservation
<1>7. granted =< InitialAvailable + RefillAmount * k
  BY <1>1, <1>4, <1>5, <1>6
<1> QED
  BY <1>7 DEF RateBound, k

(* In every reachable state of the limiter, for any number of threads, the *)
(* invariant holds.                                                        *)
LEMMA Invariance == Spec => []IInv
  BY InitIInv, NextIInv, PTL DEF Spec

(* No u64 counter of try_wait_n or maybe_refill wraps below zero and every *)
(* variable keeps its type.                                                *)
THEOREM TypeCorrect == Spec => []TypeOK
<1>1. IInv => TypeOK
  BY DEF IInv
<1> QED
  BY <1>1, Invariance, PTL

(* Tokens are neither lost nor minted by racing compare-exchanges.         *)
THEOREM TokensConserved == Spec => []Conservation
<1>1. IInv => Conservation
  BY DEF IInv
<1> QED
  BY <1>1, Invariance, PTL

(* The bucket never holds more than max_tokens.                            *)
THEOREM CapacityRespected == Spec => []NeverOverCapacity
<1>1. IInv => NeverOverCapacity
  BY DEF IInv
<1> QED
  BY <1>1, Invariance, PTL

(* Each interval is claimed once, after it has passed.                     *)
THEOREM TicksClaimedOnce == Spec => []TicksAreElapsedTime
<1>1. IInv => TicksAreElapsedTime
  BY DEF IInv
<1> QED
  BY <1>1, Invariance, PTL

(* try_wait_n never grants more than the initial tokens plus RefillAmount  *)
(* per whole interval since build().                                       *)
THEOREM RateBounded == Spec => []RateBound
  BY Invariance, IInvImpliesRateBound, PTL

(* The limiter implements TokenQuota: a successful compare-exchange in     *)
(* try_wait_n is an Acquire, the clock's tick a Pass, and every other      *)
(* atomic access changes nothing the quota can see.                        *)
THEOREM ImplementsQuota == Spec => QuotaSpec
<1> USE LimiterAssumption
<1>1. Init => Q!QuotaInit
  BY DEF Init, Build, Q!QuotaInit
<1>2. IInv /\ RateBound' /\ [Next]_vars => [Q!Pass \/ Q!Acquire]_Q!quotaVars
  <2> SUFFICES ASSUME IInv, RateBound', [Next]_vars
               PROVE  [Q!Pass \/ Q!Acquire]_Q!quotaVars
    OBVIOUS
  <2>1. CASE Tick
    BY <2>1 DEF Tick, bucket, Q!Pass
  <2>2. ASSUME NEW t \in Threads, Grab(t) PROVE [Q!Pass \/ Q!Acquire]_Q!quotaVars
    <3>1. CASE available # cur[t]
      BY <2>2, <3>1 DEF Grab, clock, Q!quotaVars
    <3>2. CASE available = cur[t]
      <4>1. granted' = granted + req[t] /\ UNCHANGED <<now, built>>
        BY <2>2, <3>2 DEF Grab, clock
      <4>2. granted + req[t] =< Q!Quota
        BY <4>1 DEF RateBound, Q!Quota
      <4>3. req[t] \in Requests
        BY <2>2 DEF IInv, Locals, Grab
      <4> QED
        BY <4>1, <4>2, <4>3 DEF Q!Acquire
    <3> QED BY <3>1, <3>2
  <2>3. ASSUME NEW t \in Threads, Refill(t) \/ Take(t)
        PROVE  UNCHANGED Q!quotaVars
    BY <2>3
    DEF Refill, Call, ReadClock, Claim, LoadAvailable, Credit, Spill, Take, clock, bucket, Q!quotaVars
  <2>4. CASE UNCHANGED vars
    BY <2>4 DEF vars, Q!quotaVars
  <2> QED
    BY <2>1, <2>2, <2>3, <2>4 DEF Next
<1> QED
  BY <1>1, <1>2, Invariance, RateBounded, PTL DEF Spec, QuotaSpec, Q!QuotaSpec
=============================================================================
