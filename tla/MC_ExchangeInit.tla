-------------------------- MODULE MC_ExchangeInit ---------------------------
(***************************************************************************)
(* Two workers start; the first also serves a request that sets up Gate.   *)
(* StartOn and StartJoin are the start of the workers alone.               *)
(***************************************************************************)
EXTENDS ExchangeInit

Workers == {"w1", "w2", "request"}
On == [k \in Workers |-> IF k = "w2" THEN 2 ELSE 1]
Join == [k \in Workers |-> IF k = "request" THEN <<"gate">> ELSE <<"gate", "binance">>]

Starting == {"w1", "w2"}
StartOn == [k \in Starting |-> On[k]]
StartJoin == [k \in Starting |-> Join[k]]
=============================================================================
