---------------------------- MODULE MC_GateBook -----------------------------
(***************************************************************************)
(* One symbol with two bid prices and one ask.                             *)
(***************************************************************************)
EXTENDS GateBook, TLC

Symmetric == Permutations(BidLevels)

\* Somebody still holds a reference to the book.
Held(b) == b = current \/ b > gen \/ phase[b] # "none" \/ b = handle \/ (todo # << >> /\ b = replaying)

\* States that differ only in books that were dropped, which no action reads
\* or changes any more, are explored once.
View == <<cur, hist, sent, current, gen, phase, want, snap, retries, init, history, todo,
          [b \in Books |-> IF Held(b) THEN <<levels[b], update_id[b]>> ELSE << >>],
          IF todo = << >> THEN 0 ELSE replaying, reader, handle, aborted>>
=============================================================================
