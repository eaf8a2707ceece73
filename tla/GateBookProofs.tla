--------------------------- MODULE GateBookProofs ---------------------------
(***************************************************************************)
(* Proofs about GateBook: for any price levels, any history of the         *)
(* exchange and any loss, repetition or reordering of its events, a book   *)
(* that claims to be at update k is the exchange's book after update k.    *)
(***************************************************************************)
EXTENDS GateBook, SequenceTheorems, TLAPS

\* An event the exchange can have published by now.
Genuine(m) == /\ m \in Events
              /\ FirstId < m.first /\ m.first =< m.last /\ m.last =< cur

GenuineSeq(s) == s \in Seq(Events) /\ \A i \in 1 .. Len(s) : Genuine(s[i])

(* What is buffered or waits for replay was published by the exchange.     *)
BuffersGenuine == GenuineSeq(init) /\ GenuineSeq(todo)

(* What a suspended handler holds refers to the exchange's past.           *)
HandlersGenuine ==
  \A b \in Books : /\ phase[b] = "fetch" => want[b] \in FirstId .. cur
                   /\ phase[b] = "scan" => snap[b] \in FirstId .. cur

(* A replay is for a book that has just been given its snapshot.           *)
ReplayTarget ==
  todo # << >> => replaying \in Books /\ phase[replaying] = "none" /\ update_id[replaying] > 1

(* Books not created yet are untouched.                                    *)
FreshBooks ==
  /\ current =< gen
  /\ \A b \in Books : b > gen => update_id[b] = 0 /\ phase[b] = "none"

IInv ==
  /\ TypeOK
  /\ LiveBookMatchesExchange
  /\ OneHandlerPerBook
  /\ BuffersGenuine
  /\ HandlersGenuine
  /\ ReplayTarget
  /\ FreshBooks

(***************************************************************************)
(* apply_update                                                            *)
(***************************************************************************)

(* An event that extends a book at update k turns the exchange's book      *)
(* after k into its book after the event's last update.                    *)
LEMMA ApplyExtends ==
  ASSUME TypeOK, NEW m, Genuine(m), NEW k \in FirstId .. cur, Extends(m, k)
  PROVE  Apply(hist[k], m) = hist[m.last]
<1> USE BookAssumption
<1>1. /\ m.first \in Int /\ m.last \in Int /\ cur \in Int
      /\ m.first - 1 >= FirstId /\ m.last =< cur
      /\ k \in (m.first - 1) .. m.last /\ m.last \in (m.first - 1) .. m.last
  BY DEF Genuine, Events, Ids, Extends, TypeOK
<1>2. hist[k] \in [Levels -> Qty] /\ hist[m.last] \in [Levels -> Qty]
  BY <1>1 DEF TypeOK, Quotes
<1>3. \A l \in Levels : l \notin Touched(m) => hist[k][l] = hist[m.last][l]
  BY <1>1 DEF Touched
<1>4. \A l \in Levels : Apply(hist[k], m)[l] = hist[m.last][l]
  BY <1>3 DEF Apply
<1> QED
  BY <1>2, <1>4 DEF Apply

(* A full event replaces any book by the exchange's.                       *)
LEMMA ApplyFull ==
  ASSUME TypeOK, NEW m, Genuine(m), m.full, NEW book
  PROVE  Apply(book, m) = hist[m.last]
<1> USE BookAssumption
<1>1. hist[m.last] \in [Levels -> Qty]
  BY DEF Genuine, Events, Ids, TypeOK, Quotes
<1> QED
  BY <1>1 DEF Apply

(* The recorded prices are bid prices.                                     *)
LEMMA RecordType ==
  ASSUME NEW prices \in SUBSET BidLevels, NEW m
  PROVE  Record(prices, m) \in SUBSET BidLevels
  BY DEF Record, Listed, Bids

(***************************************************************************)
(* Buffers                                                                 *)
(***************************************************************************)

LEMMA GenuineEmpty == GenuineSeq(<< >>)
  BY EmptySeq DEF GenuineSeq

LEMMA GenuineAppend ==
  ASSUME NEW STATE s, GenuineSeq(s), NEW m, Genuine(m)
  PROVE  GenuineSeq(Append(s, m))
<1>1. Len(s) \in Nat /\ m \in Events
  BY LenProperties DEF GenuineSeq, Genuine
<1>2. /\ Append(s, m) \in Seq(Events) /\ Len(Append(s, m)) = Len(s) + 1
      /\ \A i \in 1 .. Len(s) : Append(s, m)[i] = s[i]
      /\ Append(s, m)[Len(s) + 1] = m
  BY <1>1, AppendProperties DEF GenuineSeq
<1>3. ASSUME NEW i \in 1 .. Len(Append(s, m)) PROVE Genuine(Append(s, m)[i])
  <2>1. i \in 1 .. Len(s) \/ i = Len(s) + 1
    BY <1>1, <1>2
  <2> QED BY <1>2, <2>1 DEF GenuineSeq
<1> QED
  BY <1>2, <1>3 DEF GenuineSeq

LEMMA GenuineTail ==
  ASSUME NEW STATE s, GenuineSeq(s), s # << >>
  PROVE  Genuine(Head(s)) /\ GenuineSeq(Tail(s))
<1>1. /\ Len(s) \in Nat \ {0} /\ Head(s) = s[1]
      /\ Tail(s) \in Seq(Events) /\ Len(Tail(s)) = Len(s) - 1
      /\ \A i \in 1 .. Len(Tail(s)) : Tail(s)[i] = s[i + 1]
  BY EmptySeq, HeadTailProperties DEF GenuineSeq
<1>2. Genuine(Head(s))
  BY <1>1 DEF GenuineSeq
<1>3. ASSUME NEW i \in 1 .. Len(Tail(s)) PROVE Genuine(Tail(s)[i])
  <2>1. i + 1 \in 1 .. Len(s)
    BY <1>1
  <2> QED BY <1>1, <2>1 DEF GenuineSeq
<1> QED
  BY <1>1, <1>2, <1>3 DEF GenuineSeq

LEMMA GenuineSuffix ==
  ASSUME NEW STATE s, GenuineSeq(s), NEW k \in 1 .. Len(s)
  PROVE  GenuineSeq(SubSeq(s, k, Len(s)))
<1>1. Len(s) \in Nat /\ k \in Int /\ Len(s) \in Int
  BY LenProperties DEF GenuineSeq
<1>2. \A i \in k .. Len(s) : s[i] \in Events
  BY <1>1, LenProperties DEF GenuineSeq, Genuine
<1>3. /\ SubSeq(s, k, Len(s)) \in Seq(Events)
      /\ Len(SubSeq(s, k, Len(s))) = Len(s) - k + 1
      /\ \A i \in 1 .. Len(s) - k + 1 : SubSeq(s, k, Len(s))[i] = s[k + i - 1]
  BY <1>1, <1>2, SubSeqProperties
<1>4. ASSUME NEW i \in 1 .. Len(SubSeq(s, k, Len(s))) PROVE Genuine(SubSeq(s, k, Len(s))[i])
  <2>1. i \in 1 .. Len(s) - k + 1 /\ k + i - 1 \in 1 .. Len(s)
    BY <1>1, <1>3
  <2> QED BY <1>3, <2>1 DEF GenuineSeq
<1> QED
  BY <1>3, <1>4 DEF GenuineSeq

(***************************************************************************)
(* The inductive invariant                                                 *)
(***************************************************************************)

(* A client without a book satisfies the invariant.                        *)
LEMMA InitIInv == Init => IInv
<1> SUFFICES ASSUME Init PROVE IInv
  OBVIOUS
<1> USE BookAssumption
<1>1. init \in Seq(Events) /\ todo \in Seq(Events)
  BY EmptySeq DEF Init
<1>2. hist \in [FirstId .. cur -> Quotes]
  <2>1. FirstId .. cur = {FirstId}
    BY DEF Init
  <2> QED BY <2>1 DEF Init
<1>3. levels \in [Books -> [Levels -> Qty]]
  BY DEF Init, Empty, Qty
<1>4. TypeOK
  BY <1>1, <1>2, <1>3 DEF Init, TypeOK, Ids, Books
<1>5. BuffersGenuine
  BY GenuineEmpty DEF Init, BuffersGenuine
<1> QED
  BY <1>4, <1>5
  DEF Init, IInv, LiveBookMatchesExchange, OneHandlerPerBook, HandlersGenuine, ReplayTarget,
      FreshBooks, Books

(* The exchange's next update leaves its past, and so the books, alone.    *)
LEMMA ChangeKeeps == IInv /\ Change => IInv'
<1> SUFFICES ASSUME IInv, Change PROVE IInv'
  OBVIOUS
<1> USE BookAssumption
<1>1. /\ cur' = cur + 1 /\ cur \in Ids /\ cur' \in Ids
      /\ UNCHANGED <<sent, current, gen, levels, update_id, phase, want, snap, retries, init,
                     history, todo, replaying, reader, handle, aborted>>
  BY DEF Change, handlers, monitor, IInv, TypeOK, Ids
<1>2. /\ hist' \in [FirstId .. cur' -> Quotes]
      /\ \A i \in FirstId .. cur : hist'[i] = hist[i]
  <2>1. PICK book \in Quotes :
          hist' = [i \in FirstId .. (cur + 1) |-> IF i =< cur THEN hist[i] ELSE book]
    BY DEF Change
  <2>2. hist \in [FirstId .. cur -> Quotes] /\ cur \in Nat
    BY <1>1 DEF IInv, TypeOK, Ids
  <2>3. \A i \in FirstId .. (cur + 1) : i =< cur => hist[i] \in Quotes
    BY <2>2
  <2> QED BY <1>1, <2>1, <2>2, <2>3
<1>3. TypeOK'
  BY <1>1, <1>2 DEF IInv, TypeOK
<1>4. LiveBookMatchesExchange'
  <2> SUFFICES ASSUME NEW b \in Books, update_id[b] > 1
               PROVE  update_id[b] =< cur' /\ levels[b] = hist'[update_id[b]]
    BY <1>1 DEF LiveBookMatchesExchange
  <2>1. update_id[b] \in FirstId .. cur /\ levels[b] = hist[update_id[b]]
    BY DEF IInv, TypeOK, LiveBookMatchesExchange, Ids
  <2> QED BY <1>1, <1>2, <2>1 DEF Ids
<1>5. BuffersGenuine'
  <2>1. \A m : Genuine(m) => Genuine(m)'
    BY <1>1 DEF Genuine, Events, Ids
  <2> QED BY <1>1, <2>1 DEF IInv, BuffersGenuine, GenuineSeq, Genuine, Events, Ids
<1>6. HandlersGenuine'
  BY <1>1 DEF IInv, TypeOK, HandlersGenuine, Ids
<1> QED
  BY <1>1, <1>3, <1>4, <1>5, <1>6 DEF IInv, OneHandlerPerBook, ReplayTarget, FreshBooks

(* handle_message keeps the invariant, in whatever state the book is.      *)
LEMMA ReceiveKeeps ==
  ASSUME IInv, NEW m \in Events, Receive(m)
  PROVE  IInv'
<1> USE BookAssumption
<1> DEFINE b == current
<1>1. /\ Genuine(m) /\ b \in Books /\ b =< gen /\ todo = << >>
      /\ m.last \in Ids /\ m.first \in Ids
      /\ sent' \in Ids
      /\ UNCHANGED <<cur, hist, current, gen, todo, replaying>>
  BY DEF Receive, Running, Publishable, exchange, Genuine, Events, IInv, TypeOK, Ids, Books, FreshBooks
<1>2. HandlersGenuine /\ FreshBooks /\ OneHandlerPerBook /\ TypeOK /\ BuffersGenuine
      /\ LiveBookMatchesExchange
  BY DEF IInv
<1>3. ReplayTarget'
  BY <1>1 DEF ReplayTarget
<1> HIDE DEF b
<1>a. CASE StartSync(b, m)
  <2>1. /\ update_id[b] = 0
        /\ update_id' = [update_id EXCEPT ![b] = 1]
        /\ phase' = [phase EXCEPT ![b] = "fetch"]
        /\ want' = [want EXCEPT ![b] = m.first]
        /\ UNCHANGED <<levels, snap, retries, init, history, reader, handle, aborted>>
    BY <1>a DEF StartSync, monitor
  <2>2. TypeOK'
    BY <1>1, <1>2, <2>1 DEF TypeOK
  <2>3. LiveBookMatchesExchange'
    BY <1>1, <1>2, <2>1 DEF LiveBookMatchesExchange, TypeOK
  <2>4. OneHandlerPerBook'
    BY <1>1, <1>2, <2>1 DEF OneHandlerPerBook, TypeOK, b
  <2>5. BuffersGenuine'
    BY <1>1, <1>2, <2>1 DEF BuffersGenuine, GenuineSeq, Genuine
  <2>6. HandlersGenuine'
    <3>1. m.first \in FirstId .. cur
      BY <1>1, <1>2 DEF Genuine, Ids, TypeOK
    <3> QED BY <1>1, <1>2, <2>1, <3>1 DEF HandlersGenuine, TypeOK
  <2>7. FreshBooks'
    BY <1>1, <1>2, <2>1 DEF FreshBooks, TypeOK, Books
  <2> QED BY <1>3, <2>2, <2>3, <2>4, <2>5, <2>6, <2>7 DEF IInv
<1>b. CASE Buffer(b, m)
  <2>1. /\ init' = Append(init, m)
        /\ UNCHANGED <<levels, update_id, phase, want, snap, retries, history, reader, handle, aborted>>
    BY <1>b DEF Buffer, handlers, monitor
  <2>2. GenuineSeq(Append(init, m))
    BY <1>1, <1>2, GenuineAppend DEF BuffersGenuine
  <2>3. TypeOK'
    BY <1>1, <1>2, <2>1, <2>2 DEF TypeOK, GenuineSeq
  <2>4. BuffersGenuine'
    BY <1>1, <1>2, <2>1, <2>2 DEF BuffersGenuine, GenuineSeq, Genuine
  <2> QED
    BY <1>1, <1>2, <1>3, <2>1, <2>3, <2>4
    DEF IInv, LiveBookMatchesExchange, OneHandlerPerBook, HandlersGenuine, FreshBooks
<1>c. CASE Live(b, m)
  <2>1. /\ levels' = [levels EXCEPT ![b] = Apply(levels[b], m)]
        /\ update_id' = [update_id EXCEPT ![b] = m.last]
        /\ history' = Record(history, m)
        /\ aborted' \in {"bid", aborted}
        /\ reader' \in {"handed", reader}
        /\ handle' \in {b, handle}
        /\ UNCHANGED <<phase, want, snap, retries, init>>
    BY <1>c DEF Live, Broadcast, handlers, monitor
  <2>2. Apply(levels[b], m) = hist[m.last]
    <3>1. CASE update_id[b] = 0
      BY <1>1, <1>2, <1>c, <3>1, ApplyFull DEF Live
    <3>2. CASE update_id[b] # 0
      <4>1. update_id[b] > 1 /\ Extends(m, update_id[b])
        BY <1>c, <3>2 DEF Live
      <4>2. update_id[b] \in FirstId .. cur /\ levels[b] = hist[update_id[b]]
        <5>1. update_id[b] \in {0, 1} \cup (FirstId .. MaxId) /\ cur \in Nat
          BY <1>1, <1>2 DEF TypeOK, Ids
        <5>2. update_id[b] =< cur /\ levels[b] = hist[update_id[b]]
          BY <1>1, <1>2, <4>1 DEF LiveBookMatchesExchange
        <5> QED BY <4>1, <5>1, <5>2
      <4> QED BY <1>1, <1>2, <4>1, <4>2, ApplyExtends
    <3> QED BY <3>1, <3>2
  <2>3. m.last \in FirstId .. cur /\ hist[m.last] \in [Levels -> Qty]
    BY <1>1, <1>2 DEF Genuine, Ids, TypeOK, Quotes
  <2>4. history' \subseteq BidLevels
    BY <1>2, <2>1, RecordType DEF TypeOK
  <2>5. TypeOK'
    BY <1>1, <1>2, <2>1, <2>2, <2>3, <2>4 DEF TypeOK, Books
  <2>6. LiveBookMatchesExchange'
    BY <1>1, <1>2, <2>1, <2>2, <2>3 DEF LiveBookMatchesExchange, TypeOK
  <2>7. phase[b] = "none"
    BY <1>1, <1>2, <1>c DEF Live, OneHandlerPerBook
  <2>8. OneHandlerPerBook'
    BY <1>1, <1>2, <2>1, <2>3, <2>7 DEF OneHandlerPerBook, TypeOK, b
  <2>9. BuffersGenuine' /\ HandlersGenuine' /\ FreshBooks'
    BY <1>1, <1>2, <2>1
    DEF BuffersGenuine, GenuineSeq, Genuine, HandlersGenuine, FreshBooks, TypeOK, Books
  <2> QED BY <1>3, <2>5, <2>6, <2>8, <2>9 DEF IInv
<1>d. CASE Gap(b, m)
  <2>1. /\ update_id[b] > 1
        /\ levels' = [levels EXCEPT ![b] = Empty]
        /\ update_id' = [update_id EXCEPT ![b] = 0]
        /\ UNCHANGED <<phase, want, snap, retries, init, history, reader, handle, aborted>>
    BY <1>d DEF Gap, handlers, monitor
  <2>2. Empty \in [Levels -> Qty]
    BY DEF Empty, Qty
  <2>3. TypeOK'
    BY <1>1, <1>2, <2>1, <2>2 DEF TypeOK
  <2>4. LiveBookMatchesExchange'
    BY <1>1, <1>2, <2>1 DEF LiveBookMatchesExchange, TypeOK
  <2>5. OneHandlerPerBook'
    BY <1>1, <1>2, <2>1 DEF OneHandlerPerBook, TypeOK
  <2>6. BuffersGenuine' /\ HandlersGenuine' /\ FreshBooks'
    BY <1>1, <1>2, <2>1
    DEF BuffersGenuine, GenuineSeq, Genuine, HandlersGenuine, FreshBooks, TypeOK, Books
  <2> QED BY <1>3, <2>3, <2>4, <2>5, <2>6 DEF IInv
<1> QED
  BY <1>a, <1>b, <1>c, <1>d DEF Receive, b

(* Taking the buffer and installing the snapshot keeps the invariant.      *)
LEMMA ScanKeeps ==
  ASSUME IInv, NEW b \in Books, NEW n \in FirstId .. cur, NEW tries \in Nat,
         phase[b] # "none", todo = << >>,
         ScanFor(b, n, tries),
         want' \in [Books -> {0} \cup Ids],
         \A c \in Books \ {b} : want'[c] = want[c],
         UNCHANGED <<cur, hist, sent, current, gen, reader, handle, aborted>>
  PROVE  IInv'
<1> USE BookAssumption
<1>1. HandlersGenuine /\ FreshBooks /\ OneHandlerPerBook /\ TypeOK /\ BuffersGenuine
      /\ LiveBookMatchesExchange
  BY DEF IInv
<1>2. n \in Ids /\ hist[n] \in [Levels -> Qty] /\ n > 1 /\ n =< cur
  BY <1>1 DEF TypeOK, Ids, Quotes
<1>3. update_id[b] = 1 /\ b =< gen
  BY <1>1 DEF OneHandlerPerBook, FreshBooks, TypeOK, Books
<1>4. init' = << >> /\ GenuineSeq(<< >>) /\ << >> \in Seq(Events)
  BY GenuineEmpty, EmptySeq DEF ScanFor
<1>a. CASE Matching(n) # {}
  <2>1. PICK i \in Matching(n) : todo' = SubSeq(init, i, Len(init))
    BY <1>a DEF ScanFor
  <2>2. i \in 1 .. Len(init)
    BY <1>1, LenProperties DEF Matching, TypeOK
  <2>3. GenuineSeq(SubSeq(init, i, Len(init)))
    BY <1>1, <2>2, GenuineSuffix DEF BuffersGenuine
  <2>4. /\ replaying' = b
        /\ levels' = [levels EXCEPT ![b] = hist[n]]
        /\ update_id' = [update_id EXCEPT ![b] = n]
        /\ history' = history \cup Bids(hist[n])
        /\ phase' = [phase EXCEPT ![b] = "none"]
        /\ snap' = [snap EXCEPT ![b] = 0]
        /\ retries' = [retries EXCEPT ![b] = 0]
    BY <1>a DEF ScanFor
  <2>5. history' \subseteq BidLevels /\ b \in 0 .. MaxBooks
    BY <1>1, <2>4 DEF TypeOK, Bids, Books
  <2>6. todo' \in Seq(Events)
    BY <2>1, <2>3 DEF GenuineSeq
  <2>7. TypeOK'
    BY <1>1, <1>2, <1>4, <2>4, <2>5, <2>6 DEF TypeOK
  <2>8. LiveBookMatchesExchange'
    BY <1>1, <1>2, <2>4 DEF LiveBookMatchesExchange, TypeOK
  <2>9. OneHandlerPerBook'
    BY <1>1, <1>2, <2>4 DEF OneHandlerPerBook, TypeOK
  <2>10. BuffersGenuine'
    BY <1>4, <2>1, <2>3 DEF BuffersGenuine, GenuineSeq, Genuine
  <2>11. HandlersGenuine'
    BY <1>1, <2>4 DEF HandlersGenuine, TypeOK
  <2>12. ReplayTarget'
    BY <1>1, <1>2, <2>4 DEF ReplayTarget, TypeOK
  <2>13. FreshBooks'
    BY <1>1, <1>3, <2>4 DEF FreshBooks, TypeOK, Books
  <2> QED BY <2>7, <2>8, <2>9, <2>10, <2>11, <2>12, <2>13 DEF IInv
<1>b. CASE Matching(n) = {}
  <2>1. /\ phase' = [phase EXCEPT ![b] = "scan"]
        /\ snap' = [snap EXCEPT ![b] = n]
        /\ retries' = [retries EXCEPT ![b] = tries]
        /\ UNCHANGED <<todo, replaying, levels, update_id, history>>
    BY <1>b DEF ScanFor
  <2>2. TypeOK'
    BY <1>1, <1>2, <1>4, <2>1 DEF TypeOK
  <2>3. LiveBookMatchesExchange'
    BY <1>1, <2>1 DEF LiveBookMatchesExchange
  <2>4. OneHandlerPerBook'
    BY <1>1, <1>3, <2>1 DEF OneHandlerPerBook, TypeOK
  <2>5. BuffersGenuine'
    BY <1>1, <1>4, <2>1 DEF BuffersGenuine, GenuineSeq, Genuine
  <2>6. HandlersGenuine'
    BY <1>1, <2>1 DEF HandlersGenuine, TypeOK
  <2>7. ReplayTarget' /\ FreshBooks'
    BY <1>1, <1>3, <2>1 DEF ReplayTarget, FreshBooks, TypeOK, Books
  <2> QED BY <2>2, <2>3, <2>4, <2>5, <2>6, <2>7 DEF IInv
<1> QED
  BY <1>a, <1>b

(* A handler that gives up leaves its book unsynchronised.                 *)
LEMMA AbandonKeeps ==
  ASSUME IInv, NEW b \in Books, SnapshotErr(b) \/ GiveUp(b)
  PROVE  IInv'
<1> USE BookAssumption
<1>1. HandlersGenuine /\ FreshBooks /\ OneHandlerPerBook /\ TypeOK /\ BuffersGenuine
      /\ LiveBookMatchesExchange
  BY DEF IInv
<1>2. /\ phase[b] # "none"
      /\ update_id' = [update_id EXCEPT ![b] = 0]
      /\ phase' = [phase EXCEPT ![b] = "none"]
      /\ todo = << >> /\ todo' = << >>
      /\ UNCHANGED <<cur, hist, sent, current, gen, levels, init, history, replaying, reader,
                     handle, aborted>>
  BY DEF SnapshotErr, GiveUp, Running, exchange, monitor
<1>3. /\ want' \in [Books -> {0} \cup Ids]
      /\ snap' \in [Books -> {0} \cup Ids]
      /\ retries' \in [Books -> Nat]
      /\ \A c \in Books \ {b} : want'[c] = want[c] /\ snap'[c] = snap[c]
  <2>1. /\ want \in [Books -> {0} \cup Ids] /\ snap \in [Books -> {0} \cup Ids]
        /\ retries \in [Books -> Nat]
    BY <1>1 DEF TypeOK
  <2>a. CASE SnapshotErr(b)
    <3>1. want' = [want EXCEPT ![b] = 0] /\ snap' = snap /\ retries' = retries
      BY <2>a DEF SnapshotErr
    <3> QED BY <2>1, <3>1
  <2>b. CASE GiveUp(b)
    <3>1. /\ want' = want
          /\ snap' = [snap EXCEPT ![b] = 0]
          /\ retries' = [retries EXCEPT ![b] = 0]
      BY <2>b DEF GiveUp
    <3> QED BY <2>1, <3>1
  <2> QED BY <2>a, <2>b
<1>4. TypeOK'
  BY <1>1, <1>2, <1>3 DEF TypeOK
<1>5. LiveBookMatchesExchange' /\ OneHandlerPerBook'
  BY <1>1, <1>2 DEF LiveBookMatchesExchange, OneHandlerPerBook, TypeOK
<1>6. BuffersGenuine' /\ ReplayTarget'
  BY <1>1, <1>2 DEF BuffersGenuine, GenuineSeq, Genuine, ReplayTarget
<1>7. HandlersGenuine' /\ FreshBooks'
  BY <1>1, <1>2, <1>3 DEF HandlersGenuine, FreshBooks, TypeOK, Books
<1> QED
  BY <1>4, <1>5, <1>6, <1>7 DEF IInv

(* One event of the replay loop keeps the invariant.                       *)
LEMMA ReplayKeeps == IInv /\ Replay => IInv'
<1> SUFFICES ASSUME IInv, Replay PROVE IInv'
  OBVIOUS
<1> USE BookAssumption
<1> DEFINE m == Head(todo)
           b == replaying
<1>1. HandlersGenuine /\ FreshBooks /\ OneHandlerPerBook /\ TypeOK /\ BuffersGenuine
      /\ LiveBookMatchesExchange /\ ReplayTarget
  BY DEF IInv
<1>2. /\ todo # << >> /\ b \in Books /\ phase[b] = "none" /\ update_id[b] > 1
      /\ UNCHANGED <<cur, hist, sent, current, gen, phase, want, snap, retries, init, replaying,
                     reader, handle, aborted>>
  BY <1>1 DEF Replay, ReplayTarget, exchange, handlers, monitor
<1>3. Genuine(m) /\ GenuineSeq(Tail(todo)) /\ GenuineSeq(<< >>)
  BY <1>1, <1>2, GenuineTail, GenuineEmpty DEF BuffersGenuine
<1>4. m.last \in FirstId .. cur /\ m.last \in Ids /\ m.last > 1
  BY <1>1, <1>3 DEF Genuine, Events, Ids, TypeOK
<1>5. b =< gen
  BY <1>1, <1>2 DEF FreshBooks, TypeOK, Books
<1>6. update_id[b] \in FirstId .. cur /\ levels[b] = hist[update_id[b]]
  <2>1. update_id[b] \in {0, 1} \cup (FirstId .. MaxId) /\ cur \in Nat
    BY <1>1, <1>2 DEF TypeOK, Ids
  <2>2. update_id[b] =< cur /\ levels[b] = hist[update_id[b]]
    BY <1>1, <1>2 DEF LiveBookMatchesExchange
  <2> QED BY <1>2, <2>1, <2>2
<1>a. CASE Extends(m, update_id[b])
  <2>1. /\ levels' = [levels EXCEPT ![b] = Apply(levels[b], m)]
        /\ update_id' = [update_id EXCEPT ![b] = m.last]
        /\ history' = Record(history, m)
        /\ todo' = Tail(todo)
    BY <1>a DEF Replay
  <2>2. Apply(levels[b], m) = hist[m.last] /\ hist[m.last] \in [Levels -> Qty]
    <3> HIDE DEF m, b
    <3>1. Apply(hist[update_id[b]], m) = hist[m.last]
      BY <1>1, <1>3, <1>6, <1>a, ApplyExtends
    <3> QED BY <1>1, <1>4, <1>6, <3>1 DEF TypeOK, Quotes
  <2> HIDE DEF m, b
  <2>3. history' \subseteq BidLevels
    BY <1>1, <2>1, RecordType DEF TypeOK
  <2>4. TypeOK'
    BY <1>1, <1>2, <1>3, <1>4, <2>1, <2>2, <2>3 DEF TypeOK, GenuineSeq
  <2>5. LiveBookMatchesExchange'
    BY <1>1, <1>2, <1>4, <2>1, <2>2 DEF LiveBookMatchesExchange, TypeOK
  <2>6. OneHandlerPerBook'
    BY <1>1, <1>2, <1>4, <2>1 DEF OneHandlerPerBook, TypeOK
  <2>7. BuffersGenuine'
    BY <1>1, <1>2, <1>3, <2>1 DEF BuffersGenuine, GenuineSeq, Genuine
  <2>8. HandlersGenuine'
    BY <1>1, <1>2 DEF HandlersGenuine
  <2>9. ReplayTarget'
    BY <1>1, <1>2, <1>4, <2>1 DEF ReplayTarget, TypeOK, b
  <2>10. FreshBooks'
    BY <1>1, <1>2, <1>5, <2>1 DEF FreshBooks, TypeOK, Books
  <2> QED BY <2>4, <2>5, <2>6, <2>7, <2>8, <2>9, <2>10 DEF IInv
<1>b. CASE ~Extends(m, update_id[b])
  <2>1. /\ update_id' = [update_id EXCEPT ![b] = 0]
        /\ todo' = << >>
        /\ UNCHANGED <<levels, history>>
    BY <1>b DEF Replay
  <2> HIDE DEF m, b
  <2>2. TypeOK'
    BY <1>1, <1>2, <1>3, <2>1 DEF TypeOK, GenuineSeq
  <2>3. LiveBookMatchesExchange' /\ OneHandlerPerBook'
    BY <1>1, <1>2, <2>1 DEF LiveBookMatchesExchange, OneHandlerPerBook, TypeOK
  <2>4. BuffersGenuine' /\ ReplayTarget'
    BY <1>1, <1>2, <1>3, <2>1 DEF BuffersGenuine, GenuineSeq, Genuine, ReplayTarget
  <2>5. HandlersGenuine' /\ FreshBooks'
    BY <1>1, <1>2, <1>5, <2>1 DEF HandlersGenuine, FreshBooks, TypeOK, Books
  <2> QED BY <2>2, <2>3, <2>4, <2>5 DEF IInv
<1> QED
  BY <1>a, <1>b

(* watch(), the monitor's read, a failure of the socket and unwatch() keep *)
(* the invariant.                                                          *)
LEMMA ClientKeeps == IInv /\ (Watch \/ Read \/ Fail \/ Unwatch) => IInv'
<1> SUFFICES ASSUME IInv, Watch \/ Read \/ Fail \/ Unwatch PROVE IInv'
  OBVIOUS
<1> USE BookAssumption
<1>1. HandlersGenuine /\ FreshBooks /\ OneHandlerPerBook /\ TypeOK /\ BuffersGenuine
      /\ LiveBookMatchesExchange
  BY DEF IInv
<1>2. /\ todo = << >> /\ todo' = << >>
      /\ UNCHANGED <<cur, hist, sent, levels, update_id, history, replaying>>
  BY DEF Watch, Read, Fail, Unwatch, Running, exchange
<1>3. LiveBookMatchesExchange' /\ ReplayTarget'
  BY <1>1, <1>2 DEF LiveBookMatchesExchange, ReplayTarget
<1>4. GenuineSeq(<< >>) /\ << >> \in Seq(Events)
  BY GenuineEmpty, EmptySeq
<1>a. CASE Watch
  <2>1. /\ reader' = "await"
        /\ UNCHANGED <<phase, want, snap, retries, init, handle, aborted>>
        /\ \/ gen < MaxBooks /\ gen' = gen + 1 /\ current' = gen + 1
           \/ UNCHANGED <<gen, current>>
    BY <1>a DEF Watch, handlers
  <2>2. TypeOK'
    BY <1>1, <1>2, <2>1 DEF TypeOK
  <2>3. OneHandlerPerBook' /\ FreshBooks'
    BY <1>1, <1>2, <2>1 DEF OneHandlerPerBook, FreshBooks, TypeOK, Books
  <2>4. BuffersGenuine' /\ HandlersGenuine'
    BY <1>1, <1>2, <2>1 DEF BuffersGenuine, GenuineSeq, Genuine, HandlersGenuine
  <2> QED BY <1>3, <2>2, <2>3, <2>4 DEF IInv
<1>b. CASE Read
  <2>1. /\ reader' = "idle" /\ handle' = 0 /\ aborted' \in {"price", aborted}
        /\ UNCHANGED <<current, gen, phase, want, snap, retries, init>>
    BY <1>b DEF Read, handlers
  <2>2. TypeOK'
    BY <1>1, <1>2, <2>1 DEF TypeOK
  <2> QED
    BY <1>1, <1>2, <1>3, <2>1, <2>2
    DEF IInv, OneHandlerPerBook, FreshBooks, BuffersGenuine, GenuineSeq, Genuine, HandlersGenuine
<1>c. CASE Fail
  <2>1. /\ current' = 0 /\ init' = << >>
        /\ phase' = [b \in Books |-> "none"]
        /\ want' = [b \in Books |-> 0]
        /\ snap' = [b \in Books |-> 0]
        /\ retries' = [b \in Books |-> 0]
        /\ reader' \in {"idle", reader}
        /\ UNCHANGED <<gen, handle, aborted>>
    BY <1>c DEF Fail
  <2>2. TypeOK'
    BY <1>1, <1>2, <1>4, <2>1 DEF TypeOK
  <2>3. OneHandlerPerBook' /\ FreshBooks' /\ HandlersGenuine'
    BY <1>1, <1>2, <2>1 DEF OneHandlerPerBook, FreshBooks, HandlersGenuine, TypeOK, Books
  <2>4. BuffersGenuine'
    BY <1>2, <1>4, <2>1 DEF BuffersGenuine, GenuineSeq, Genuine
  <2> QED BY <1>3, <2>2, <2>3, <2>4 DEF IInv
<1>d. CASE Unwatch
  <2>1. /\ current' = 0 /\ reader' \in {"idle", reader}
        /\ UNCHANGED <<gen, handle, aborted, phase, want, snap, retries, init>>
    BY <1>d DEF Unwatch, handlers
  <2>2. TypeOK'
    BY <1>1, <1>2, <2>1 DEF TypeOK
  <2>3. OneHandlerPerBook' /\ FreshBooks' /\ HandlersGenuine' /\ BuffersGenuine'
    BY <1>1, <1>2, <2>1
    DEF OneHandlerPerBook, FreshBooks, HandlersGenuine, BuffersGenuine, GenuineSeq, Genuine, TypeOK, Books
  <2> QED BY <1>3, <2>2, <2>3 DEF IInv
<1> QED
  BY <1>a, <1>b, <1>c, <1>d

(* Every step preserves the invariant.                                     *)
LEMMA NextIInv == IInv /\ [Next]_vars => IInv'
<1> SUFFICES ASSUME IInv, [Next]_vars PROVE IInv'
  OBVIOUS
<1>1. CASE Change
  BY <1>1, ChangeKeeps
<1>2. ASSUME NEW m \in Events, Receive(m) PROVE IInv'
  BY <1>2, ReceiveKeeps
<1>3. ASSUME NEW b \in Books, SnapshotOk(b) PROVE IInv'
  <2>1. PICK n \in want[b] .. cur : ScanFor(b, n, 1)
    BY <1>3 DEF SnapshotOk
  <2>2. /\ phase[b] # "none" /\ todo = << >> /\ want[b] \in FirstId .. cur
        /\ want' \in [Books -> {0} \cup Ids]
        /\ \A c \in Books \ {b} : want'[c] = want[c]
        /\ UNCHANGED <<cur, hist, sent, current, gen, reader, handle, aborted>>
    BY <1>3 DEF SnapshotOk, Running, exchange, monitor, IInv, TypeOK, HandlersGenuine
  <2>3. n \in FirstId .. cur
    BY <2>2, BookAssumption DEF IInv, TypeOK, Ids
  <2> QED BY <2>1, <2>2, <2>3, ScanKeeps
<1>4. ASSUME NEW b \in Books, Rescan(b) PROVE IInv'
  <2>1. /\ phase[b] # "none" /\ todo = << >> /\ snap[b] \in FirstId .. cur
        /\ want' \in [Books -> {0} \cup Ids]
        /\ \A c \in Books \ {b} : want'[c] = want[c]
        /\ retries[b] + 1 \in Nat
        /\ UNCHANGED <<cur, hist, sent, current, gen, reader, handle, aborted>>
    BY <1>4 DEF Rescan, Running, exchange, monitor, IInv, TypeOK, HandlersGenuine
  <2>2. PICK n \in FirstId .. cur, tries \in Nat : ScanFor(b, n, tries)
    BY <1>4, <2>1 DEF Rescan
  <2> QED BY <2>1, <2>2, ScanKeeps
<1>5. ASSUME NEW b \in Books, SnapshotErr(b) \/ GiveUp(b) PROVE IInv'
  BY <1>5, AbandonKeeps
<1>6. CASE Replay
  BY <1>6, ReplayKeeps
<1>7. CASE Watch \/ Read \/ Fail \/ Unwatch
  BY <1>7, ClientKeeps
<1>8. CASE UNCHANGED vars
  BY <1>8
  DEF vars, IInv, TypeOK, LiveBookMatchesExchange, OneHandlerPerBook, BuffersGenuine, GenuineSeq,
      Genuine, HandlersGenuine, ReplayTarget, FreshBooks
<1> QED
  BY <1>1, <1>2, <1>3, <1>4, <1>5, <1>6, <1>7, <1>8 DEF Next, Handler

(* The invariant holds in every reachable state.                           *)
LEMMA Invariance == Spec => []IInv
  BY InitIInv, NextIInv, PTL DEF Spec

(* Every variable keeps its type.                                          *)
THEOREM BookTypeCorrect == Spec => []TypeOK
<1>1. IInv => TypeOK
  BY DEF IInv
<1> QED
  BY <1>1, Invariance, PTL

(* A book that claims to be at update k is the exchange's book after k,    *)
(* whatever was lost, repeated or reordered.                               *)
THEOREM BookMatchesExchange == Spec => []LiveBookMatchesExchange
<1>1. IInv => LiveBookMatchesExchange
  BY DEF IInv
<1> QED
  BY <1>1, Invariance, PTL

(* A book is synchronised by at most one handler at a time, and a          *)
(* registered book that synchronises has one.                              *)
THEOREM SingleHandler == Spec => []OneHandlerPerBook
<1>1. IInv => OneHandlerPerBook
  BY DEF IInv
<1> QED
  BY <1>1, Invariance, PTL

-----------------------------------------------------------------------------
(* The books, as the abstract mirror sees them                             *)

Book == IF LiveAt = 0 THEN Empty ELSE levels[current]

(* Apart from the exchange's own updates, nothing changes its history.     *)
LEMMA OnlyChangeMovesExchange ==
  ASSUME [Next]_vars, ~Change
  PROVE  UNCHANGED <<cur, hist>>
  BY DEF Next, vars, Receive, Handler, SnapshotOk, SnapshotErr, Rescan, GiveUp, Replay, Watch,
         Read, Fail, Unwatch, exchange

(* The registered book stays the same while it stays registered, and only  *)
(* Receive and the handlers change what it claims to be.                   *)
LEMMA RegistryMoves ==
  ASSUME IInv, Next
  PROVE  \/ current' = 0
         \/ current' = current
         \/ current = 0 /\ current' \in Books /\ update_id'[current'] = 0
<1>1. CASE Watch
  <2>1. update_id' = update_id /\ gen \in 0 .. MaxBooks /\ MaxBooks \in Nat
    BY <1>1, BookAssumption DEF Watch, IInv, TypeOK
  <2>2. CASE current = 0 /\ gen < MaxBooks /\ current' = gen + 1
    <3>1. gen + 1 \in Books /\ gen + 1 > gen
      BY <2>1, <2>2 DEF Books
    <3>2. update_id[gen + 1] = 0
      BY <3>1 DEF IInv, FreshBooks
    <3> QED BY <2>1, <2>2, <3>1, <3>2
  <2>3. CASE current' = current
    BY <2>3
  <2> QED BY <1>1, <2>2, <2>3 DEF Watch
<1>2. CASE Fail \/ Unwatch
  BY <1>2 DEF Fail, Unwatch
<1>3. CASE ~(Watch \/ Fail \/ Unwatch)
  BY <1>3 DEF Next, Change, Receive, Handler, SnapshotOk, SnapshotErr, Rescan, GiveUp, Replay, Read
<1> QED BY <1>1, <1>2, <1>3

(* A synchronised book never goes back: every step that leaves it          *)
(* synchronised leaves it where it is or takes it past its update.         *)
LEMMA NeverBack ==
  ASSUME IInv, [Next]_vars, NEW b \in Books, update_id[b] > 1, update_id'[b] > 1
  PROVE  update_id'[b] >= update_id[b]
<1>0. /\ update_id[b] \in Int /\ update_id \in [Books -> {0, 1} \cup Ids]
      /\ Ids \subseteq Int /\ phase[b] = "none"
  BY BookAssumption DEF IInv, TypeOK, Ids, OneHandlerPerBook
<1>1. ASSUME NEW m \in Events, Receive(m) PROVE update_id'[b] >= update_id[b]
  <2>0. m.last \in Int
    BY <1>0 DEF Events
  <2>1. CASE StartSync(current, m) \/ Buffer(current, m)
    BY <1>0, <2>1 DEF StartSync, Buffer
  <2>2. CASE Live(current, m)
    BY <1>0, <2>0, <2>2 DEF Live, Broadcast, Extends
  <2>3. CASE Gap(current, m)
    BY <1>0, <2>3 DEF Gap
  <2> QED BY <1>1, <2>1, <2>2, <2>3 DEF Receive
<1>2. ASSUME NEW c \in Books, Handler(c) PROVE update_id'[b] >= update_id[b]
  <2>1. phase[c] # "none"
    BY <1>2 DEF Handler, SnapshotOk, SnapshotErr, Rescan, GiveUp
  <2>2. b # c
    BY <1>0, <2>1
  <2>3. update_id'[b] = update_id[b]
    BY <1>0, <1>2, <2>2 DEF Handler, SnapshotOk, SnapshotErr, Rescan, GiveUp, ScanFor
  <2> QED BY <1>0, <2>3
<1>3. CASE Replay
  <2>1. todo # << >> /\ Head(todo) \in Events
    BY <1>3 DEF Replay, IInv, TypeOK
  <2>2. Head(todo).last \in Int
    BY <1>0, <2>1 DEF Events
  <2> QED BY <1>0, <1>3, <2>2 DEF Replay, Extends
<1>4. CASE Change \/ Watch \/ Read \/ Fail \/ Unwatch \/ UNCHANGED vars
  BY <1>0, <1>4 DEF Change, Watch, Read, Fail, Unwatch, vars
<1> QED BY <1>1, <1>2, <1>3, <1>4 DEF Next

(* The initial states show nothing.                                        *)
LEMMA MirrorInit == Init => Mirror!Init
  BY DEF Init, Mirror!Init, LiveAt

(* Every step is a step of the mirror.                                     *)
LEMMA MirrorStep == IInv /\ [Next]_vars => [Mirror!Next]_(Mirror!vars)
<1> SUFFICES ASSUME IInv, [Next]_vars PROVE Mirror!Next \/ UNCHANGED Mirror!vars
  OBVIOUS
<1>1. IInv'
  BY NextIInv
<1>2. CASE Change
  <2>1. /\ cur < MaxId /\ cur' = cur + 1
        /\ \E q \in Quotes : hist' = [i \in FirstId .. (cur + 1) |->
                                         IF i =< cur THEN hist[i] ELSE q]
    BY <1>2 DEF Change
  <2>2. UNCHANGED <<LiveAt, Book>>
    BY <1>2 DEF Change, LiveAt, Book
  <2>3. Mirror!Change
    BY <2>1, <2>2 DEF Mirror!Change, Book
  <2> QED BY <2>3 DEF Mirror!Next
<1>3. CASE ~Change /\ LiveAt' = 0
  <2>1. UNCHANGED <<cur, hist>>
    BY <1>3, OnlyChangeMovesExchange
  <2>2. Mirror!Lose
    BY <1>3, <2>1 DEF Mirror!Lose, Empty
  <2> QED BY <2>2 DEF Mirror!Next
<1>4. CASE ~Change /\ LiveAt' # 0
  <2>1. UNCHANGED <<cur, hist>>
    BY <1>4, OnlyChangeMovesExchange
  <2>2. /\ current' # 0 /\ current' \in Books
        /\ update_id'[current'] > 1 /\ LiveAt' = update_id'[current']
        /\ Book' = levels'[current']
    BY <1>1, <1>4 DEF LiveAt, Book, IInv, TypeOK, Books
  <2>3. /\ LiveAt' \in FirstId .. cur
        /\ Book' = hist[LiveAt']
    <3>0. update_id' \in [Books -> {0, 1} \cup Ids]
      BY <1>1 DEF IInv, TypeOK
    <3>1. update_id'[current'] \in Ids /\ update_id'[current'] =< cur'
      BY <1>1, <2>2, <3>0 DEF IInv, LiveBookMatchesExchange
    <3>2. levels'[current'] = hist'[update_id'[current']]
      BY <1>1, <2>2 DEF IInv, LiveBookMatchesExchange
    <3>3. cur \in Int /\ FirstId \in Int /\ MaxId \in Int
      BY BookAssumption DEF IInv, TypeOK, Ids
    <3> QED BY <2>1, <2>2, <3>1, <3>2, <3>3 DEF Ids
  <2>4. LiveAt' >= LiveAt
    <3>1. CASE LiveAt = 0
      BY <2>3, <3>1, BookAssumption
    <3>2. CASE LiveAt # 0
      <4>1. current # 0 /\ current \in Books /\ update_id[current] > 1 /\ LiveAt = update_id[current]
        BY <3>2 DEF LiveAt, IInv, TypeOK, Books
      <4>2. current' = current
        <5>1. CASE Next
          BY <2>2, <4>1, <5>1, RegistryMoves
        <5>2. CASE UNCHANGED vars
          BY <5>2 DEF vars
        <5> QED BY <5>1, <5>2
      <4> QED BY <2>2, <4>1, <4>2, NeverBack
    <3> QED BY <3>1, <3>2
  <2>5. Mirror!Advance
    BY <2>1, <2>3, <2>4 DEF Mirror!Advance, Book
  <2> QED BY <2>5 DEF Mirror!Next
<1> QED BY <1>2, <1>3, <1>4

(* The order book client implements the abstract mirror: what it registers *)
(* is a book the exchange had, and it never goes back while synchronised.  *)
THEOREM BookImplementsMirror == Spec => Mirrored
  BY MirrorInit, MirrorStep, Invariance, PTL DEF Spec, Mirrored, Mirror!Spec

-----------------------------------------------------------------------------
(* The bids of the registered book, where unwatch is not used              *)

(* Without unwatch, handlers and the replay work on the registered book,   *)
(* and every bid of it was recorded while it is synchronised.              *)
Recorded ==
  ~AllowUnwatch =>
    /\ \A b \in Books : phase[b] # "none" => b = current
    /\ todo # << >> => replaying = current
    /\ current # 0 /\ update_id[current] > 1 => Bids(levels[current]) \subseteq history
    /\ aborted # "bid"

(* What an event does to a book, Record does to the history of its bids.   *)
LEMMA RecordFollows ==
  ASSUME NEW m, NEW book, NEW prices, m.full \/ Bids(book) \subseteq prices
  PROVE  Bids(Apply(book, m)) \subseteq Record(prices, m)
<1> SUFFICES ASSUME NEW l \in BidLevels, Apply(book, m)[l] > 0
             PROVE  l \in Record(prices, m)
  BY DEF Bids
<1>0. l \in Levels
  BY DEF Levels
<1>1. CASE m.full \/ l \in Touched(m)
  <2>1. hist[m.last][l] > 0
    BY <1>0, <1>1 DEF Apply
  <2> QED BY <1>1, <2>1 DEF Record, Listed, Bids
<1>2. CASE ~m.full /\ l \notin Touched(m)
  <2>1. book[l] > 0
    BY <1>0, <1>2 DEF Apply
  <2>2. l \in prices /\ l \notin Listed(m)
    BY <1>2, <2>1 DEF Bids, Listed
  <2> QED BY <2>2 DEF Record
<1> QED BY <1>1, <1>2

(* A message keeps the bids recorded, and the check of broadcast_update    *)
(* succeeds.                                                               *)
LEMMA ReceiveRecords ==
  ASSUME IInv, Recorded, ~AllowUnwatch, NEW m \in Events, Receive(m)
  PROVE  Recorded'
<1>0. /\ current \in Books /\ aborted = "no" /\ todo = << >>
      /\ levels \in [Books -> [Levels -> Qty]] /\ update_id \in [Books -> {0, 1} \cup Ids]
      /\ phase \in [Books -> {"none", "fetch", "scan"}]
      /\ UNCHANGED <<current, todo, replaying>>
  BY DEF Receive, Running, IInv, TypeOK, Books
<1>1. CASE StartSync(current, m)
  BY <1>0, <1>1 DEF StartSync, Recorded
<1>2. CASE Buffer(current, m)
  BY <1>0, <1>2 DEF Buffer, handlers, Recorded
<1>3. CASE Live(current, m)
  <2>1. /\ levels'[current] = Apply(levels[current], m)
        /\ history' = Record(history, m)
        /\ phase' = phase
    BY <1>0, <1>3 DEF Live, Broadcast, handlers
  <2>2. m.full \/ Bids(levels[current]) \subseteq history
    BY <1>0, <1>3 DEF Live, Recorded, Books
  <2>3. Bids(levels'[current]) \subseteq history'
    BY <2>1, <2>2, RecordFollows
  <2>4. aborted' = "no"
    BY <1>0, <1>3, <2>3 DEF Live, Broadcast
  <2> QED BY <1>0, <2>1, <2>3, <2>4 DEF Recorded
<1>4. CASE Gap(current, m)
  BY <1>0, <1>4 DEF Gap, handlers, Recorded
<1> QED BY <1>1, <1>2, <1>3, <1>4 DEF Receive

(* A handler installs a snapshot only together with its bids.              *)
LEMMA HandlerRecords ==
  ASSUME IInv, Recorded, ~AllowUnwatch, NEW b \in Books, Handler(b)
  PROVE  Recorded'
<1>0. /\ b = current /\ aborted = "no" /\ todo = << >>
      /\ levels \in [Books -> [Levels -> Qty]] /\ update_id \in [Books -> {0, 1} \cup Ids]
      /\ phase \in [Books -> {"none", "fetch", "scan"}]
      /\ update_id[b] = 1
      /\ UNCHANGED <<current, aborted>>
  BY DEF Handler, SnapshotOk, SnapshotErr, Rescan, GiveUp, Running, Recorded, IInv, TypeOK,
         OneHandlerPerBook
<1>1. ASSUME NEW n, NEW tries, ScanFor(b, n, tries) PROVE Recorded'
  <2>1. CASE Matching(n) # {}
    <3>1. /\ replaying' = b
          /\ levels'[b] = hist[n] /\ history' = history \cup Bids(hist[n])
          /\ \A c \in Books : phase'[c] # "none" => phase[c] # "none"
      BY <1>0, <1>1, <2>1 DEF ScanFor
    <3>2. Bids(levels'[b]) \subseteq history'
      BY <3>1
    <3> QED BY <1>0, <3>1, <3>2 DEF Recorded
  <2>2. CASE Matching(n) = {}
    <3>1. /\ UNCHANGED <<todo, replaying, levels, update_id, history>>
          /\ \A c \in Books \ {b} : phase'[c] = phase[c]
      BY <1>0, <1>1, <2>2 DEF ScanFor
    <3> QED BY <1>0, <3>1 DEF Recorded
  <2> QED BY <2>1, <2>2
<1>2. CASE SnapshotOk(b) \/ Rescan(b)
  BY <1>1, <1>2 DEF SnapshotOk, Rescan
<1>3. CASE SnapshotErr(b) \/ GiveUp(b)
  <2>1. /\ update_id'[b] = 0
        /\ UNCHANGED <<levels, history, todo, replaying>>
        /\ \A c \in Books : phase'[c] # "none" => phase[c] # "none"
    BY <1>0, <1>3 DEF SnapshotErr, GiveUp
  <2> QED BY <1>0, <2>1 DEF Recorded
<1> QED BY <1>2, <1>3 DEF Handler

(* So does every other step: none of them touches the registered book but  *)
(* the replay, which records what it applies.                              *)
LEMMA RecordedKeeps == IInv /\ Recorded /\ [Next]_vars => Recorded'
<1> SUFFICES ASSUME IInv, Recorded, ~AllowUnwatch, [Next]_vars PROVE Recorded'
  BY DEF Recorded
<1>1. CASE Change
  BY <1>1 DEF Change, Running, handlers, monitor, Recorded, IInv, TypeOK, Bids
<1>2. ASSUME NEW m \in Events, Receive(m) PROVE Recorded'
  BY <1>2, ReceiveRecords
<1>3. ASSUME NEW b \in Books, Handler(b) PROVE Recorded'
  BY <1>3, HandlerRecords
<1>4. CASE Replay
  <2>0. /\ todo # << >> /\ replaying = current /\ current \in Books
        /\ update_id[current] > 1 /\ current # 0
        /\ levels \in [Books -> [Levels -> Qty]] /\ update_id \in [Books -> {0, 1} \cup Ids]
        /\ UNCHANGED <<current, replaying, phase, aborted>>
    BY <1>4 DEF Replay, handlers, Recorded, IInv, ReplayTarget, TypeOK, Books
  <2>1. CASE Extends(Head(todo), update_id[replaying])
    <3>1. /\ levels'[current] = Apply(levels[current], Head(todo))
          /\ history' = Record(history, Head(todo))
      BY <1>4, <2>0, <2>1 DEF Replay
    <3>2. Bids(levels[current]) \subseteq history
      BY <2>0 DEF Recorded
    <3>3. Bids(levels'[current]) \subseteq history'
      BY <3>1, <3>2, RecordFollows
    <3> QED BY <2>0, <3>3 DEF Recorded
  <2>2. CASE ~Extends(Head(todo), update_id[replaying])
    BY <1>4, <2>0, <2>2 DEF Replay, Recorded
  <2> QED BY <2>1, <2>2
<1>5. CASE Watch
  <2>1. /\ UNCHANGED <<levels, update_id, phase, history, todo, aborted>>
        /\ todo = << >>
    BY <1>5 DEF Watch, Running, handlers
  <2>2. CASE UNCHANGED current
    BY <2>1, <2>2 DEF Recorded
  <2>3. CASE current = 0 /\ gen < MaxBooks /\ current' = gen + 1
    <3>1. gen + 1 \in Books /\ gen + 1 > gen
      BY <2>3, BookAssumption DEF IInv, TypeOK, Books
    <3>2. update_id[gen + 1] = 0
      BY <3>1 DEF IInv, FreshBooks
    <3>3. \A b \in Books : phase[b] = "none"
      BY <2>3 DEF Recorded, Books
    <3> QED BY <2>1, <2>3, <3>2, <3>3 DEF Recorded
  <2> QED BY <1>5, <2>2, <2>3 DEF Watch
<1>6. CASE Read
  BY <1>6 DEF Read, Running, handlers, Recorded
<1>7. CASE Fail
  BY <1>7 DEF Fail, Running, Recorded
<1>8. CASE UNCHANGED vars
  BY <1>8 DEF vars, Recorded
<1> QED
  BY <1>1, <1>2, <1>3, <1>4, <1>5, <1>6, <1>7, <1>8 DEF Next, Unwatch

(* The stronger invariant holds in every reachable state.                  *)
LEMMA RecordedInvariance == Spec => []Recorded
<1>1. Init => Recorded
  BY DEF Init, Recorded
<1> QED
  BY <1>1, RecordedKeeps, Invariance, PTL DEF Spec

(* As the program runs, a handler never works on a book of an earlier      *)
(* connection.                                                             *)
THEOREM HandlersEndWithConnection == Spec => []NoHandlerOutlivesConnection
<1>1. Recorded => NoHandlerOutlivesConnection
  BY DEF Recorded, NoHandlerOutlivesConnection
<1> QED
  BY <1>1, RecordedInvariance, PTL

(* As the program runs, the check of a book's bids never aborts it.        *)
THEOREM BidCheckHolds == Spec => [](AllowUnwatch \/ NoBidPanic)
<1>1. Recorded => AllowUnwatch \/ NoBidPanic
  BY DEF Recorded, NoBidPanic
<1> QED
  BY <1>1, RecordedInvariance, PTL
=============================================================================
