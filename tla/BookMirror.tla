----------------------------- MODULE BookMirror -----------------------------
(***************************************************************************)
(* What an order book client promises, whatever the protocol behind it:    *)
(* while it is synchronised, the local book is the exchange's book as of   *)
(* some update, and that update never goes back.  It may fall out of       *)
(* synchronisation at any time, and come back at any update.               *)
(***************************************************************************)
EXTENDS Integers

CONSTANTS
  Quotes,   \* the books an exchange can show
  Nothing,  \* shown while not synchronised
  FirstId,  \* the first update
  MaxId     \* bound on the updates

VARIABLES
  cur,   \* the exchange's newest update
  hist,  \* its book after each update
  at,    \* the update the local book claims to be at, 0 when it claims none
  book   \* the local book

vars == <<cur, hist, at, book>>

Init ==
  /\ cur = FirstId
  /\ hist \in [{FirstId} -> Quotes]
  /\ at = 0
  /\ book = Nothing

Change ==
  /\ cur < MaxId
  /\ cur' = cur + 1
  /\ \E q \in Quotes : hist' = [i \in FirstId .. (cur + 1) |-> IF i =< cur THEN hist[i] ELSE q]
  /\ UNCHANGED <<at, book>>

\* Catch up with any update the exchange has made since.
Advance ==
  /\ at' \in FirstId .. cur /\ at' >= at
  /\ book' = hist[at']
  /\ UNCHANGED <<cur, hist>>

Lose ==
  /\ at' = 0
  /\ book' = Nothing
  /\ UNCHANGED <<cur, hist>>

Next == Change \/ Advance \/ Lose

Spec == Init /\ [][Next]_vars
=============================================================================
