---------------------------- MODULE BinanceProofs ----------------------------
(***************************************************************************)
(* Proofs about BinanceBook and ClientPool as parts of MC_Parts.  For any  *)
(* prices and any history of the exchange, a registered book that is being *)
(* synchronised has its handler, and the book mirrors the exchange's,      *)
(* apart from the books that were torn while their events were replayed,   *)
(* which takes a lost event.                                               *)
(* And for any number of tasks, clients and symbols, and any limit, what   *)
(* the pool of clients keeps.  The last theorem puts the types of all      *)
(* parts together.                                                         *)
(***************************************************************************)
EXTENDS PlanProofs, MexcProofs

-----------------------------------------------------------------------------
(* Binance's book.                                                         *)

\* An event the exchange has published.
Genuine(m) == /\ m \in B!Events
              /\ m.pu < m.first /\ m.first =< m.last /\ m.last =< cur

(* What is buffered was published.                                         *)
BuffersGenuine == \A n \in 1 .. Len(init) : Genuine(init[n])

(* What a suspended handler holds refers to the exchange's past.           *)
HandlersGenuine ==
  \A b \in B!Books : /\ phase[b] = "fetch" => want[b] \in FirstId .. cur
                     /\ phase[b] = "scan" => snap[b] \in FirstId .. cur

(* A handler's book is marked as synchronising.                            *)
HandlersMarked == \A b \in B!Books : phase[b] # "none" => update_id[b] = 1

(* Registered or not, a book that is whole is the exchange's as of the     *)
(* update it claims.                                                       *)
WholeBooksMatch ==
  \A b \in B!Books \ torn : update_id[b] > 1 => update_id[b] =< cur /\ levels[b] = hist[update_id[b]]

(* Books not created yet are untouched.                                    *)
FreshBooks ==
  /\ current =< gen
  /\ \A b \in B!Books : b > gen => update_id[b] = 0 /\ phase[b] = "none"

BinanceInv ==
  /\ B!TypeOK
  /\ BuffersGenuine
  /\ HandlersGenuine
  /\ HandlersMarked
  /\ WholeBooksMatch
  /\ FreshBooks
  /\ B!SynchronisingHasHandler

-----------------------------------------------------------------------------
(* Numbers                                                                 *)

(* A set of numbers that is bounded has a greatest, which Max chooses, and *)
(* a least, which Min chooses.                                             *)
LEMMA MaxIsGreatest ==
  ASSUME NEW n \in Nat, NEW T \in SUBSET (0 .. n), T # {}
  PROVE  B!Max(T) \in T /\ \A y \in T : y =< B!Max(T)
<1>1. PICK c \in {m \in Nat : n - m \in T} : \A d \in {m \in Nat : n - m \in T} : c =< d
  <2>1. PICK t \in T : TRUE
    OBVIOUS
  <2>2. n - t \in Nat /\ n - (n - t) = t
    BY <2>1
  <2> QED
    BY <2>1, <2>2, LeastNumber
<1>2. ASSUME NEW y \in T
      PROVE  y =< n - c
  <2>1. n - y \in Nat /\ n - (n - y) = y
    BY <1>2
  <2>2. c =< n - y
    BY <1>1, <1>2, <2>1
  <2> QED
    BY <1>1, <2>1, <2>2
<1>3. n - c \in T
  BY <1>1
<1> QED
  BY <1>2, <1>3 DEF B!Max

LEMMA MinIsLeast ==
  ASSUME NEW T \in SUBSET Nat, T # {}
  PROVE  B!Min(T) \in T /\ \A y \in T : B!Min(T) =< y
  BY LeastNumber DEF B!Min

-----------------------------------------------------------------------------
(* OrderBook::apply_update                                                 *)

\* A side of a book.
Amounts == 0 .. MaxQty

LEMMA QuotesOf ==
  ASSUME B!TypeOK, NEW n \in FirstId .. cur
  PROVE  hist[n] \in [Prices -> Amounts]
  BY DEF B!TypeOK, B!Quotes, Amounts

(* A genuine event leads from one update that happened to another.         *)
LEMMA Spans ==
  ASSUME B!TypeOK, NEW m, Genuine(m)
  PROVE  m.pu \in FirstId .. cur /\ m.last \in FirstId .. cur /\ m.pu =< m.last
  BY BinanceAssumption DEF Genuine, B!Events, B!Ids, B!TypeOK

(* What an event does not touch is the same after it as anywhere in it.    *)
LEMMA Untouched ==
  ASSUME B!TypeOK, NEW m, Genuine(m), NEW n \in m.pu .. m.last, NEW l \in Prices, l \notin B!Touched(m)
  PROVE  hist[n][l] = hist[m.last][l]
  BY BinanceAssumption DEF B!Touched, Genuine, B!Events, B!Ids

(* Applying events leaves a book a book.                                   *)
LEMMA ApplyType ==
  ASSUME B!TypeOK, NEW s, NEW k \in Nat, DOMAIN s = 1 .. k, \A n \in 1 .. k : Genuine(s[n]),
         NEW book \in [Prices -> Amounts]
  PROVE  B!Apply(book, s) \in [Prices -> Amounts]
<1>1. ASSUME NEW l \in Prices
      PROVE  B!Apply(book, s)[l] \in Amounts
  <2> DEFINE hits == {n \in DOMAIN s : l \in B!Touched(s[n])}
  <2>1. CASE hits = {}
    BY <2>1 DEF B!Apply
  <2>2. CASE hits # {}
    <3>1. B!Max(hits) \in 1 .. k
      <4>1. hits \in SUBSET (0 .. k) /\ hits \subseteq 1 .. k
        OBVIOUS
      <4> HIDE DEF hits
      <4> QED
        BY <2>2, <4>1, MaxIsGreatest
    <3>2. s[B!Max(hits)].last \in FirstId .. cur
      BY <3>1, BinanceAssumption DEF Genuine, B!Events, B!Ids, B!TypeOK
    <3> QED
      BY <2>2, <3>2, QuotesOf DEF B!Apply
  <2> QED
    BY <2>1, <2>2
<1> QED
  BY <1>1 DEF B!Apply

(* Events that follow each other, the first of which continues the book    *)
(* at update n, turn it into the book after the last of them.              *)
LEMMA ApplyFollows ==
  ASSUME B!TypeOK, NEW s, NEW k \in Nat \ {0}, DOMAIN s = 1 .. k, \A x \in 1 .. k : Genuine(s[x]),
         \A x \in 2 .. k : s[x].pu = s[x - 1].last,
         NEW n \in s[1].pu .. s[1].last
  PROVE  B!Apply(hist[n], s) = hist[s[k].last]
<1>0. \A x \in 1 .. k : /\ s[x].pu \in FirstId .. cur /\ s[x].last \in FirstId .. cur
                        /\ s[x].pu =< s[x].last
  BY Spans
<1>1. 1 \in 1 .. k /\ n \in FirstId .. cur
  <2>1. 1 \in 1 .. k
    OBVIOUS
  <2>2. s[1].pu \in FirstId .. cur /\ s[1].last \in FirstId .. cur
    BY <1>0, <2>1
  <2> QED
    BY <2>1, <2>2, BinanceAssumption DEF B!TypeOK, B!Ids
<1>2. hist[n] \in [Prices -> Amounts] /\ hist[s[k].last] \in [Prices -> Amounts]
  BY <1>0, <1>1, QuotesOf
<1>3. ASSUME NEW l \in Prices
      PROVE  B!Apply(hist[n], s)[l] = hist[s[k].last][l]
  <2>0. ASSUME NEW f \in 1 .. k, \A x \in 1 .. k : f < x => l \notin B!Touched(s[x])
        PROVE  hist[s[f].last][l] = hist[s[k].last][l]
    \* Once nothing touches it any more, it does not change: the first event
    \* that changes it would have to touch it.
    <3> DEFINE Changed == {x \in f .. k : hist[s[x].last][l] # hist[s[f].last][l]}
    <3>1. ASSUME Changed # {} PROVE FALSE
      <4>1. PICK x \in Changed : \A y \in Changed : x =< y
        <5>1. Changed \in SUBSET Nat
          OBVIOUS
        <5> HIDE DEF Changed
        <5> QED
          BY <3>1, <5>1, LeastNumber
      <4>2. x \in 1 .. k /\ f < x /\ x - 1 \in f .. k /\ x \in 2 .. k
        BY <4>1
      <4>3. hist[s[x - 1].last][l] = hist[s[f].last][l]
        BY <4>1, <4>2
      <4>4. s[x].pu = s[x - 1].last /\ s[x].pu \in s[x].pu .. s[x].last
        BY <1>0, <4>2, BinanceAssumption
      <4>5. hist[s[x].pu][l] = hist[s[x].last][l]
        BY <2>0, <4>2, <4>4, Untouched
      <4> QED
        BY <4>1, <4>3, <4>4, <4>5
    <3> QED
      BY <3>1
  <2> DEFINE hits == {x \in DOMAIN s : l \in B!Touched(s[x])}
  <2>1. CASE hits = {}
    <3>1. \A x \in 1 .. k : l \notin B!Touched(s[x])
      BY <2>1
    <3>2. hist[n][l] = hist[s[1].last][l]
      BY <3>1, Untouched
    <3>3. hist[s[1].last][l] = hist[s[k].last][l]
      <4>1. 1 \in 1 .. k /\ \A x \in 1 .. k : 1 < x => l \notin B!Touched(s[x])
        BY <3>1
      <4> QED
        BY <2>0, <4>1
    <3> QED
      BY <2>1, <3>2, <3>3 DEF B!Apply
  <2>2. CASE hits # {}
    <3>1. B!Max(hits) \in 1 .. k /\ \A x \in hits : x =< B!Max(hits)
      <4>1. hits \in SUBSET (0 .. k) /\ hits \subseteq 1 .. k
        OBVIOUS
      <4> HIDE DEF hits
      <4> QED
        BY <2>2, <4>1, MaxIsGreatest
    <3>2. \A x \in 1 .. k : B!Max(hits) < x => l \notin B!Touched(s[x])
      <4>1. ASSUME NEW x \in 1 .. k, B!Max(hits) < x
            PROVE  x \notin hits
        <5> HIDE DEF hits
        <5> QED
          BY <3>1, <4>1
      <4> QED
        BY <4>1
    <3>3. hist[s[B!Max(hits)].last][l] = hist[s[k].last][l]
      <4> HIDE DEF hits
      <4> QED
        BY <2>0, <3>1, <3>2
    <3> QED
      BY <2>2, <3>3 DEF B!Apply
  <2> QED
    BY <2>1, <2>2
<1> QED
  BY <1>2, <1>3 DEF B!Apply

-----------------------------------------------------------------------------
(* The inductive invariant                                                 *)

(* The other parts leave this one alone.                                   *)
LEMMA BinanceMoves == [PartsNext]_parts => [B!Next]_binance
  BY DEF PartsNext, parts, binance

LEMMA InitBinance == B!Init => BinanceInv
<1> SUFFICES ASSUME B!Init PROVE BinanceInv
  OBVIOUS
<1> USE BinanceAssumption
<1>1. hist \in [FirstId .. cur -> B!Quotes] /\ init = << >> /\ init \in Seq(B!Events)
  <2>1. FirstId .. cur = {FirstId}
    BY DEF B!Init
  <2> QED BY <2>1 DEF B!Init
<1>2. levels \in [B!Books -> B!Quotes]
  BY DEF B!Init, B!Empty, B!Quotes
<1>3. B!TypeOK
  BY <1>1, <1>2 DEF B!Init, B!TypeOK, B!Ids, B!Books
<1> QED
  BY <1>1, <1>3
  DEF B!Init, BinanceInv, BuffersGenuine, HandlersGenuine, HandlersMarked, WholeBooksMatch, FreshBooks,
      B!SynchronisingHasHandler, B!Books

(* The exchange's next update leaves its past, and so the books, alone.    *)
LEMMA BinanceChange ==
  ASSUME BinanceInv, B!Change
  PROVE  BinanceInv'
<1> USE BinanceAssumption
<1>1. /\ cur' = cur + 1 /\ cur \in B!Ids /\ cur' \in B!Ids
      /\ UNCHANGED <<market, published, current, gen, levels, update_id, torn, missed, phase, want, snap, retries,
                     init, reader, handle>>
  BY DEF B!Change, B!registry, B!books, B!handlers, B!monitor, BinanceInv, B!TypeOK, B!Ids
<1>2. /\ hist' \in [FirstId .. cur' -> B!Quotes]
      /\ \A n \in FirstId .. cur : hist'[n] = hist[n]
  <2>1. PICK q \in B!Quotes : hist' = [n \in FirstId .. (cur + 1) |-> IF n =< cur THEN hist[n] ELSE q]
    BY DEF B!Change
  <2>2. hist \in [FirstId .. cur -> B!Quotes] /\ cur \in Nat
    BY <1>1 DEF BinanceInv, B!TypeOK, B!Ids
  <2>3. \A n \in FirstId .. (cur + 1) : n =< cur => hist[n] \in B!Quotes
    BY <2>2
  <2> QED
    BY <1>1, <2>1, <2>2, <2>3
<1>3. B!TypeOK'
  BY <1>1, <1>2 DEF BinanceInv, B!TypeOK
<1>4. WholeBooksMatch'
  BY <1>1, <1>2 DEF BinanceInv, WholeBooksMatch, B!TypeOK, B!Ids
<1>5. BuffersGenuine'
  <2>1. ASSUME NEW n \in 1 .. Len(init) PROVE Genuine(init[n])'
    <3>1. Genuine(init[n])
      BY DEF BinanceInv, BuffersGenuine
    <3>2. init[n].last \in Int /\ cur \in Int
      BY <1>1, <3>1 DEF Genuine, B!Events, B!Ids
    <3> QED
      BY <1>1, <3>1, <3>2 DEF Genuine
  <2> QED
    BY <1>1, <2>1 DEF BuffersGenuine
<1>6. HandlersGenuine'
  <2>1. FirstId .. cur \subseteq FirstId .. cur'
    BY <1>1 DEF B!Ids
  <2> QED
    BY <1>1, <2>1 DEF BinanceInv, HandlersGenuine
<1> QED
  BY <1>1, <1>3, <1>4, <1>5, <1>6 DEF BinanceInv, HandlersMarked, FreshBooks, B!SynchronisingHasHandler

(* handle_message keeps the invariant, in whatever state the book is.      *)
LEMMA BinanceReceive ==
  ASSUME BinanceInv, NEW m \in B!Publishable, B!Receive(m)
  PROVE  BinanceInv'
<1> USE BinanceAssumption DEF BinanceInv
<1>1. PICK b : b = current
  OBVIOUS
<1>2. /\ b \in B!Books /\ b # 0 /\ b =< gen
      /\ Genuine(m) /\ m.first \in B!Ids /\ m.last \in B!Ids /\ m.first =< cur /\ published' \in B!Ids
      /\ UNCHANGED <<market, cur, hist, current, gen>>
  <2>1. published \in B!Ids /\ cur \in B!Ids /\ current \in 0 .. MaxBooks /\ current =< gen
    BY DEF B!TypeOK, FreshBooks
  <2>2. /\ m \in [pu : published .. cur, first : published .. cur, last : published .. cur]
        /\ m.pu < m.first /\ m.first =< m.last
    BY DEF B!Publishable
  <2>3. published .. cur \subseteq B!Ids /\ \A n \in published .. cur : n =< cur
    BY <2>1 DEF B!Ids
  <2>4. m \in B!Events /\ Genuine(m) /\ m.first \in B!Ids /\ m.last \in B!Ids /\ m.first =< cur
    BY <2>2, <2>3 DEF Genuine, B!Events
  <2>5. /\ current # 0 /\ published' = m.last
        /\ UNCHANGED <<market, cur, hist, current, gen>>
    BY DEF B!Receive, B!exchange, B!registry
  <2>6. current \in B!Books
    BY <2>1, <2>5 DEF B!Books
  <2> QED
    BY <1>1, <2>1, <2>4, <2>5, <2>6
<1>3. CASE B!StartSync(b, m)
  <2>1. /\ update_id[b] = 0
        /\ update_id' = [update_id EXCEPT ![b] = 1]
        /\ phase' = [phase EXCEPT ![b] = "fetch"]
        /\ want' = [want EXCEPT ![b] = m.first]
        /\ missed' = missed \ {b}
        /\ UNCHANGED <<levels, torn, snap, retries, init, reader, handle>>
    BY <1>3 DEF B!StartSync, B!monitor
  <2>2. B!TypeOK'
    BY <1>2, <2>1 DEF B!TypeOK
  <2>3. BuffersGenuine' /\ WholeBooksMatch'
    BY <1>2, <2>1 DEF BuffersGenuine, Genuine, B!Events, WholeBooksMatch, B!TypeOK
  <2>4. HandlersGenuine' /\ HandlersMarked'
    BY <1>2, <2>1 DEF HandlersGenuine, HandlersMarked, B!TypeOK, B!Ids
  <2>5. FreshBooks' /\ B!SynchronisingHasHandler'
    BY <1>1, <1>2, <2>1 DEF FreshBooks, B!SynchronisingHasHandler, B!TypeOK, B!Books
  <2> QED
    BY <2>2, <2>3, <2>4, <2>5
<1>4. CASE B!Buffer(b, m)
  <2>1. /\ init' = Append(init, m)
        /\ missed' \in {missed, missed \cup {b}}
        /\ UNCHANGED <<levels, update_id, torn, phase, want, snap, retries, reader, handle>>
    BY <1>4 DEF B!Buffer, B!handlers, B!monitor
  <2>2. B!TypeOK'
    BY <1>2, <2>1 DEF B!TypeOK, Genuine
  <2>3. BuffersGenuine'
    <3>1. ASSUME NEW n \in 1 .. Len(init')
          PROVE  Genuine(init'[n])
      BY <1>2, <2>1 DEF BuffersGenuine, B!TypeOK
    <3> QED
      BY <1>2, <3>1 DEF BuffersGenuine, Genuine, B!Events, B!Ids
  <2> QED
    BY <1>2, <2>1, <2>2, <2>3
    DEF HandlersGenuine, HandlersMarked, WholeBooksMatch, FreshBooks, B!SynchronisingHasHandler
<1>5. CASE B!Live(b, m)
  <2>1. /\ update_id[b] > 1 /\ B!Extends(m, update_id[b])
        /\ levels' = [levels EXCEPT ![b] = B!Apply(levels[b], <<m>>)]
        /\ update_id' = [update_id EXCEPT ![b] = m.last]
        /\ reader' \in {"handed", reader} /\ handle' \in {b, handle}
        /\ UNCHANGED <<torn, missed, phase, want, snap, retries, init>>
    BY <1>5 DEF B!Live, B!handlers
  <2>2. /\ DOMAIN <<m>> = 1 .. 1 /\ 1 \in Nat \ {0}
        /\ \A n \in 1 .. 1 : Genuine(<<m>>[n])
        /\ \A n \in 2 .. 1 : <<m>>[n].pu = <<m>>[n - 1].last
    BY <1>2
  <2>3. levels[b] \in [Prices -> Amounts] /\ update_id[b] \in B!Ids
    <3>1. levels[b] \in B!Quotes /\ update_id[b] \in {0, 1} \cup B!Ids
      BY <1>2 DEF B!TypeOK
    <3> QED
      BY <2>1, <3>1 DEF B!Quotes, Amounts
  <2>4. B!Apply(levels[b], <<m>>) \in B!Quotes
    BY <2>2, <2>3, ApplyType DEF B!Quotes, Amounts
  <2>5. B!TypeOK'
    BY <1>2, <2>1, <2>4 DEF B!TypeOK, B!Books
  <2>6. ASSUME b \notin torn
        PROVE  B!Apply(levels[b], <<m>>) = hist[m.last]
    <3>1. update_id[b] \in <<m>>[1].pu .. <<m>>[1].last
      BY <1>2, <2>1, <2>3 DEF B!Extends, Genuine, B!Events, B!Ids
    <3>2. levels[b] = hist[update_id[b]]
      BY <1>2, <2>1, <2>6 DEF WholeBooksMatch
    <3> QED
      BY <2>2, <3>1, <3>2, ApplyFollows
  <2>7. WholeBooksMatch'
    BY <1>2, <2>1, <2>6 DEF WholeBooksMatch, Genuine, B!TypeOK
  <2>8. phase[b] = "none" /\ update_id[b] # 1 /\ m.last # 1
    BY <1>2, <2>1, <2>3 DEF HandlersMarked, B!TypeOK, B!Ids
  <2>9. HandlersMarked' /\ B!SynchronisingHasHandler' /\ FreshBooks'
    BY <1>1, <1>2, <2>1, <2>8 DEF HandlersMarked, B!SynchronisingHasHandler, FreshBooks, B!TypeOK, B!Books
  <2>10. BuffersGenuine' /\ HandlersGenuine'
    BY <1>2, <2>1 DEF BuffersGenuine, Genuine, B!Events, HandlersGenuine
  <2> QED
    BY <2>5, <2>7, <2>9, <2>10
<1>6. CASE B!Gap(b, m)
  <2>1. /\ update_id[b] > 1
        /\ levels' = [levels EXCEPT ![b] = B!Empty]
        /\ update_id' = [update_id EXCEPT ![b] = 0]
        /\ torn' = torn \ {b}
        /\ UNCHANGED <<missed, phase, want, snap, retries, init, reader, handle>>
    BY <1>6 DEF B!Gap, B!handlers, B!monitor
  <2>2. B!Empty \in B!Quotes
    BY DEF B!Empty, B!Quotes
  <2>3. B!TypeOK'
    BY <1>2, <2>1, <2>2 DEF B!TypeOK
  <2>4. BuffersGenuine' /\ HandlersGenuine' /\ WholeBooksMatch'
    BY <1>2, <2>1 DEF BuffersGenuine, Genuine, B!Events, HandlersGenuine, WholeBooksMatch, B!TypeOK
  <2>5. HandlersMarked' /\ B!SynchronisingHasHandler' /\ FreshBooks'
    BY <1>1, <1>2, <2>1 DEF HandlersMarked, B!SynchronisingHasHandler, FreshBooks, B!TypeOK, B!Books
  <2> QED
    BY <2>3, <2>4, <2>5
<1> QED
  BY <1>1, <1>3, <1>4, <1>5, <1>6 DEF B!Receive

(* Taking the buffer and installing the snapshot with its events keeps the *)
(* invariant: events that follow each other lead from the snapshot to the  *)
(* last of them, and a book for which they do not is torn.                 *)
LEMMA BinanceScan ==
  ASSUME BinanceInv, NEW b \in B!Books, NEW n \in FirstId .. cur, NEW tries \in 0 .. MaxRetries,
         phase[b] # "none", B!ScanFor(b, n, tries),
         want' \in [B!Books -> {0} \cup B!Ids],
         \A c \in B!Books \ {b} : want'[c] = want[c],
         UNCHANGED <<market, cur, hist, published, current, gen, reader, handle>>
  PROVE  BinanceInv'
<1> USE BinanceAssumption DEF BinanceInv
<1>1. n \in B!Ids /\ update_id[b] = 1 /\ b =< gen /\ init' = << >> /\ init' \in Seq(B!Events)
  BY DEF B!ScanFor, HandlersMarked, FreshBooks, B!TypeOK, B!Ids, B!Books
<1>2. BuffersGenuine'
  BY <1>1 DEF BuffersGenuine
<1>3. CASE B!Matching(n) = {}
  <2>1. /\ phase' = [phase EXCEPT ![b] = "scan"] /\ snap' = [snap EXCEPT ![b] = n]
        /\ retries' = [retries EXCEPT ![b] = tries]
        /\ UNCHANGED <<levels, update_id, torn, missed>>
    BY <1>3 DEF B!ScanFor, B!books
  <2>2. B!TypeOK'
    BY <1>1, <2>1 DEF B!TypeOK
  <2>3. HandlersGenuine' /\ HandlersMarked' /\ WholeBooksMatch'
    BY <1>1, <2>1 DEF HandlersGenuine, HandlersMarked, WholeBooksMatch, B!TypeOK
  <2>4. B!SynchronisingHasHandler' /\ FreshBooks'
    BY <1>1, <2>1 DEF B!SynchronisingHasHandler, FreshBooks, B!TypeOK, B!Books
  <2> QED
    BY <1>2, <2>2, <2>3, <2>4
<1>4. CASE B!Matching(n) # {}
  <2> DEFINE s == B!Suffix(n)
  <2>1. /\ levels' = [levels EXCEPT ![b] = B!Apply(hist[n], s)]
        /\ update_id' = [update_id EXCEPT ![b] = init[Len(init)].last]
        /\ torn' = IF B!Broken(s) THEN torn \cup {b} ELSE torn
        /\ phase' = [phase EXCEPT ![b] = "none"] /\ snap' = [snap EXCEPT ![b] = 0]
        /\ retries' = [retries EXCEPT ![b] = 0] /\ missed' = missed
    BY <1>4 DEF B!ScanFor
  <2>2. PICK f : /\ f = B!Min(B!Matching(n)) /\ f \in 1 .. Len(init)
                 /\ init[f].first =< n + 1 /\ init[f].last > n
    <3>1. B!Matching(n) \in SUBSET Nat
      BY DEF B!Matching, B!TypeOK
    <3>2. B!Min(B!Matching(n)) \in B!Matching(n)
      BY <1>4, <3>1, MinIsLeast
    <3>3. DOMAIN init = 1 .. Len(init)
      BY DEF B!TypeOK
    <3>4. B!Min(B!Matching(n)) \in {x \in DOMAIN init : init[x].first =< n + 1 /\ init[x].last > n}
      BY <3>2 DEF B!Matching
    <3> QED
      BY <3>3, <3>4
  <2>3. PICK k \in Nat \ {0} :
             /\ k = Len(init) - f + 1 /\ DOMAIN s = 1 .. k /\ Len(s) = k
             /\ \A x \in 1 .. k : s[x] = init[f + x - 1] /\ f + x - 1 \in 1 .. Len(init)
    <3>1. /\ Len(init) \in Nat /\ Len(init) - f + 1 \in Nat \ {0} /\ f \in Nat \ {0}
          /\ s = SubSeq(init, f, Len(init)) /\ init \in Seq(B!Events)
      <4>1. init \in Seq(B!Events) /\ Len(init) \in Nat
        BY DEF B!TypeOK
      <4>2. Len(init) - f + 1 \in Nat \ {0} /\ f \in Nat \ {0}
        BY <2>2, <4>1
      <4> QED
        BY <2>2, <4>1, <4>2 DEF B!Suffix
    <3>2. /\ DOMAIN s = 1 .. (Len(init) - f + 1) /\ Len(s) = Len(init) - f + 1
          /\ \A x \in 1 .. (Len(init) - f + 1) : s[x] = init[f + x - 1]
      BY <3>1
    <3> HIDE DEF s
    <3>3. \A x \in 1 .. (Len(init) - f + 1) : f + x - 1 \in 1 .. Len(init)
      <4>1. PICK l \in Nat : l = Len(init)
        BY <3>1
      <4>2. \A x \in 1 .. (l - f + 1) : f + x - 1 \in 1 .. l
        BY <3>1, <4>1
      <4> QED
        BY <4>1, <4>2
    <3> QED
      BY <3>1, <3>2, <3>3
  <2>4. /\ \A x \in 1 .. k : Genuine(s[x])
        /\ s[1] = init[f] /\ s[k] = init[Len(init)] /\ 1 \in 1 .. k /\ k \in 1 .. k
    <3> HIDE DEF s
    <3>0. Len(init) \in Nat /\ k = Len(init) - f + 1 /\ k \in Nat \ {0} /\ f \in 1 .. Len(init)
      BY <2>2, <2>3 DEF B!TypeOK
    <3>1. f \in Nat /\ 1 \in 1 .. k /\ k \in 1 .. k /\ f + 1 - 1 = f /\ f + k - 1 = Len(init)
      BY <3>0
    <3>2. s[1] = init[f] /\ s[k] = init[Len(init)]
      BY <2>3, <3>1
    <3> QED
      BY <2>3, <3>1, <3>2 DEF BuffersGenuine
  <2>5. s[k].last \in FirstId .. cur /\ s[k].last \in B!Ids
    <3> HIDE DEF s
    <3>1. Genuine(s[k])
      BY <2>4
    <3>2. s[k].last \in B!Ids /\ s[k].last =< cur
      BY <3>1 DEF Genuine, B!Events
    <3>3. cur \in B!Ids
      BY DEF B!TypeOK
    <3> QED
      BY <3>2, <3>3 DEF B!Ids
  <2>6. n \in s[1].pu .. s[1].last
    <3> HIDE DEF s
    <3>1. Genuine(s[1]) /\ s[1].first =< n + 1 /\ s[1].last > n
      BY <2>2, <2>4
    <3> QED
      BY <3>1 DEF Genuine, B!Events, B!Ids
  <2>7. ASSUME ~B!Broken(s)
        PROVE  B!Apply(hist[n], s) = hist[s[k].last]
    <3>1. \A x \in 2 .. k : s[x].pu = s[x - 1].last
      BY <2>3, <2>7 DEF B!Broken
    <3> HIDE DEF s
    <3> QED
      BY <2>3, <2>4, <2>6, <3>1, ApplyFollows
  <2>8. B!Apply(hist[n], s) \in B!Quotes
    <3>1. hist[n] \in [Prices -> Amounts]
      BY QuotesOf
    <3> HIDE DEF s
    <3> QED
      BY <2>3, <2>4, <3>1, ApplyType DEF B!Quotes, Amounts
  <2> HIDE DEF s
  <2>9. B!TypeOK'
    <3>1. PICK new \in B!Quotes, at \in B!Ids :
            /\ levels' = [levels EXCEPT ![b] = new] /\ update_id' = [update_id EXCEPT ![b] = at]
      BY <2>1, <2>4, <2>5, <2>8
    <3>2. /\ levels' \in [B!Books -> B!Quotes] /\ update_id' \in [B!Books -> {0, 1} \cup B!Ids]
      BY <3>1 DEF B!TypeOK
    <3>3. torn' \subseteq B!Books /\ missed' \subseteq B!Books
      BY <2>1 DEF B!TypeOK
    <3>4. /\ phase' \in [B!Books -> {"none", "fetch", "scan"}]
          /\ snap' \in [B!Books -> {0} \cup B!Ids] /\ retries' \in [B!Books -> 0 .. MaxRetries]
      BY <2>1 DEF B!TypeOK
    <3> QED
      BY <1>1, <3>2, <3>3, <3>4 DEF B!TypeOK
  <2>10. WholeBooksMatch'
    <3>1. ASSUME b \notin torn'
          PROVE  update_id'[b] =< cur /\ levels'[b] = hist[update_id'[b]]
      <4>1. update_id'[b] = s[k].last /\ levels'[b] = B!Apply(hist[n], s) /\ s[k].last =< cur
        BY <2>1, <2>4, <2>5 DEF B!TypeOK
      <4>2. ~B!Broken(s)
        BY <2>1, <3>1
      <4> QED
        BY <2>7, <4>1, <4>2
    <3>2. ASSUME NEW c \in B!Books, c # b, c \notin torn'
          PROVE  /\ c \notin torn /\ update_id'[c] = update_id[c] /\ levels'[c] = levels[c]
      BY <2>1, <3>2 DEF B!TypeOK
    <3> QED
      BY <1>1, <3>1, <3>2 DEF WholeBooksMatch
  <2>11. HandlersGenuine' /\ HandlersMarked'
    BY <1>1, <2>1 DEF HandlersGenuine, HandlersMarked, B!TypeOK
  <2>12. B!SynchronisingHasHandler' /\ FreshBooks'
    <3>1. /\ update_id'[b] = s[k].last /\ s[k].last # 1 /\ phase'[b] = "none"
          /\ \A c \in B!Books \ {b} : update_id'[c] = update_id[c] /\ phase'[c] = phase[c]
      BY <2>1, <2>4, <2>5 DEF B!TypeOK, B!Ids
    <3>2. current' = current /\ gen' = gen /\ current \in 0 .. MaxBooks /\ gen \in Nat /\ b =< gen
      BY <1>1 DEF B!TypeOK
    <3>3. B!SynchronisingHasHandler'
      BY <3>1, <3>2 DEF B!SynchronisingHasHandler, B!Books
    <3>4. FreshBooks'
      BY <3>1, <3>2 DEF FreshBooks, B!Books
    <3> QED
      BY <3>3, <3>4
  <2> QED
    BY <1>2, <2>9, <2>10, <2>11, <2>12
<1> QED
  BY <1>3, <1>4

(* A handler that gives up leaves its book unsynchronised.                 *)
LEMMA BinanceAbandon ==
  ASSUME BinanceInv, NEW b \in B!Books, B!SnapshotErr(b) \/ B!GiveUp(b)
  PROVE  BinanceInv'
<1> USE BinanceAssumption DEF BinanceInv
<1>1. /\ phase[b] # "none"
      /\ update_id' = [update_id EXCEPT ![b] = 0] /\ phase' = [phase EXCEPT ![b] = "none"]
      /\ want' \in {want, [want EXCEPT ![b] = 0]} /\ snap' \in {snap, [snap EXCEPT ![b] = 0]}
      /\ retries' \in {retries, [retries EXCEPT ![b] = 0]}
      /\ UNCHANGED <<market, cur, hist, published, current, gen, levels, torn, missed, init, reader, handle>>
  BY DEF B!SnapshotErr, B!GiveUp, B!exchange, B!registry, B!monitor
<1>2. B!TypeOK'
  <2>1. want' \in [B!Books -> {0} \cup B!Ids]
    BY <1>1 DEF B!TypeOK
  <2>2. snap' \in [B!Books -> {0} \cup B!Ids]
    BY <1>1 DEF B!TypeOK
  <2>3. retries' \in [B!Books -> 0 .. MaxRetries]
    BY <1>1 DEF B!TypeOK
  <2> QED
    BY <1>1, <2>1, <2>2, <2>3 DEF B!TypeOK
<1>3. BuffersGenuine' /\ HandlersGenuine' /\ HandlersMarked' /\ WholeBooksMatch'
  BY <1>1 DEF BuffersGenuine, Genuine, B!Events, HandlersGenuine, HandlersMarked, WholeBooksMatch, B!TypeOK
<1>4. B!SynchronisingHasHandler' /\ FreshBooks'
  BY <1>1 DEF B!SynchronisingHasHandler, FreshBooks, B!TypeOK, B!Books
<1> QED
  BY <1>2, <1>3, <1>4

(* watch() registers an untouched book; unwatch() and on_fail register     *)
(* none.                                                                   *)
LEMMA BinanceRegistry ==
  ASSUME BinanceInv, B!Watch \/ B!Read \/ B!Fail \/ B!Unwatch
  PROVE  BinanceInv'
<1> USE BinanceAssumption DEF BinanceInv
<1>1. CASE B!Watch
  <2>1. /\ reader' = "await"
        /\ UNCHANGED <<market, cur, hist, published, levels, update_id, torn, missed, phase, want, snap, retries,
                       init, handle>>
        /\ \/ current = 0 /\ gen < MaxBooks /\ gen' = gen + 1 /\ current' = gen + 1
           \/ current # 0 /\ UNCHANGED <<current, gen>>
    BY <1>1 DEF B!Watch, B!exchange, B!registry, B!books, B!handlers
  <2>2. /\ gen' \in 0 .. MaxBooks /\ current' \in 0 .. MaxBooks /\ current' =< gen' /\ gen =< gen'
        /\ current' = current \/ (current' \in B!Books /\ current' > gen)
    BY <2>1 DEF B!TypeOK, FreshBooks, B!Books
  <2>3. B!TypeOK'
    BY <2>1, <2>2 DEF B!TypeOK
  <2>4. FreshBooks'
    BY <2>1, <2>2 DEF FreshBooks, B!TypeOK, B!Books
  <2>5. B!SynchronisingHasHandler'
    BY <2>1, <2>2 DEF B!SynchronisingHasHandler, FreshBooks
  <2> QED
    BY <2>1, <2>3, <2>4, <2>5 DEF BuffersGenuine, Genuine, B!Events, HandlersGenuine, HandlersMarked, WholeBooksMatch
<1>2. CASE B!Read
  BY <1>2 DEF B!Read, B!exchange, B!registry, B!books, B!handlers, B!TypeOK, BuffersGenuine, Genuine, B!Events,
              HandlersGenuine, HandlersMarked, WholeBooksMatch, FreshBooks, B!SynchronisingHasHandler
<1>3. CASE B!Fail
  <2>1. init' = << >> /\ init' \in Seq(B!Events)
    BY <1>3 DEF B!Fail
  <2> QED
    BY <1>3, <2>1 DEF B!Fail, B!exchange, B!books, B!TypeOK, BuffersGenuine, HandlersGenuine, HandlersMarked,
              WholeBooksMatch, FreshBooks, B!SynchronisingHasHandler, B!Books
<1>4. CASE B!Unwatch
  BY <1>4 DEF B!Unwatch, B!exchange, B!books, B!handlers, B!TypeOK, BuffersGenuine, Genuine, B!Events,
              HandlersGenuine, HandlersMarked, WholeBooksMatch, FreshBooks, B!SynchronisingHasHandler, B!Books
<1> QED
  BY <1>1, <1>2, <1>3, <1>4

LEMMA NextBinance == BinanceInv /\ [PartsNext]_parts => BinanceInv'
<1> SUFFICES ASSUME BinanceInv, [B!Next]_binance PROVE BinanceInv'
  BY BinanceMoves
<1>1. ASSUME NEW b \in B!Books, B!SnapshotOk(b) \/ B!Rescan(b)
      PROVE  BinanceInv'
  <2>1. CASE B!SnapshotOk(b)
    <3>1. PICK n \in want[b] .. cur : B!ScanFor(b, n, 1)
      BY <2>1 DEF B!SnapshotOk
    <3>2. n \in FirstId .. cur /\ 1 \in 0 .. MaxRetries
      BY <2>1, BinanceAssumption DEF B!SnapshotOk, BinanceInv, HandlersGenuine, B!TypeOK, B!Ids
    <3> QED
      BY <2>1, <3>1, <3>2, BinanceScan
      DEF B!SnapshotOk, B!exchange, B!registry, B!monitor, BinanceInv, B!TypeOK
  <2>2. CASE B!Rescan(b)
    <3>1. snap[b] \in FirstId .. cur /\ retries[b] + 1 \in 0 .. MaxRetries
      BY <2>2, BinanceAssumption DEF B!Rescan, BinanceInv, HandlersGenuine, B!TypeOK
    <3> QED
      BY <2>2, <3>1, BinanceScan
      DEF B!Rescan, B!exchange, B!registry, B!monitor, BinanceInv, B!TypeOK
  <2> QED
    BY <1>1, <2>1, <2>2
<1>2. CASE UNCHANGED binance
  BY <1>2
  DEF binance, BinanceInv, B!TypeOK, BuffersGenuine, Genuine, B!Events, HandlersGenuine, HandlersMarked,
      WholeBooksMatch, FreshBooks, B!SynchronisingHasHandler
<1> QED
  BY <1>1, <1>2, BinanceChange, BinanceReceive, BinanceAbandon, BinanceRegistry DEF B!Next, B!Handler

LEMMA BinanceInvariant == PartsSpec => []BinanceInv
<1>1. PartsInit => BinanceInv
  BY InitBinance DEF PartsInit
<1> QED
  BY <1>1, NextBinance, PTL DEF PartsSpec

(* A registered book that is being synchronised has a handler that will    *)
(* move it on, whatever fails and whoever unwatches.                       *)
THEOREM SynchronisingBooksAreHandled == PartsSpec => []SynchronisingHasHandler
<1>1. BinanceInv => SynchronisingHasHandler
  BY DEF BinanceInv, SynchronisingHasHandler
<1> QED
  BY <1>1, BinanceInvariant, PTL

-----------------------------------------------------------------------------
(* What tears a book                                                       *)

\* After its first k events the buffer is a run that connects and ends with
\* the newest event that arrived.
RunAfter(k) ==
  /\ \A x \in 1 .. Len(init) : x >= k + 2 => init[x].pu = init[x - 1].last
  /\ Len(init) > k => init[Len(init)].last = published

(* Nothing is buffered that did not arrive.                                *)
BuffersArrived == \A x \in 1 .. Len(init) : init[x].last =< published

(* Only a book that is synchronised can be torn.                           *)
TornAreLive == \A b \in torn : update_id[b] > 1

(* Unless an event was lost for it, what the registered book waits for is  *)
(* a run: behind leftovers that are older than the snapshot it asks for,   *)
(* and alone in the buffer once it has that snapshot.                      *)
BufferConnects ==
  current # 0 /\ current \notin missed =>
    /\ phase[current] = "fetch" =>
         \E k \in 0 .. Len(init) : (\A x \in 1 .. k : init[x].last < want[current]) /\ RunAfter(k)
    /\ phase[current] = "scan" => RunAfter(0)

TearInv ==
  /\ BuffersArrived
  /\ TornAreLive
  /\ BufferConnects
  /\ B!OnlyLossTears

LEMMA InitTear == B!Init => TearInv
  BY DEF B!Init, TearInv, BuffersArrived, TornAreLive, BufferConnects, RunAfter, B!OnlyLossTears

(* An empty buffer connects, whatever the handler of the book is doing.    *)
LEMMA EmptyConnects ==
  ASSUME init' = << >>
  PROVE  BuffersArrived' /\ BufferConnects'
<1>1. Len(init') = 0 /\ \A x : x \notin 1 .. 0
  OBVIOUS
<1>2. RunAfter(0)'
  BY <1>1 DEF RunAfter
<1>3. 0 \in 0 .. Len(init') /\ \A x \in 1 .. 0 : init'[x].last < want'[current']
  BY <1>1
<1> QED
  BY <1>1, <1>2, <1>3 DEF BuffersArrived, BufferConnects

LEMMA BufferedLast ==
  ASSUME BinanceInv, NEW x \in 1 .. Len(init)
  PROVE  init[x].last \in Nat /\ init[x].last > 1
<1>1. Genuine(init[x])
  BY DEF BinanceInv, BuffersGenuine
<1> QED
  BY <1>1, BinanceAssumption DEF Genuine, B!Events, B!Ids

(* What a handler replays of the registered book is a run, unless an event *)
(* was lost: the snapshot is newer than the leftovers.                     *)
LEMMA ReplayConnects ==
  ASSUME BinanceInv, TearInv, NEW n \in FirstId .. cur,
         current # 0, current \notin missed, B!Matching(n) # {},
         \/ phase[current] = "fetch" /\ want[current] =< n
         \/ phase[current] = "scan"
  PROVE  ~B!Broken(B!Suffix(n))
<1> USE BinanceAssumption
<1>1. init \in Seq(B!Events) /\ Len(init) \in Nat /\ DOMAIN init = 1 .. Len(init) /\ n \in Int
      /\ current \in B!Books
  BY DEF BinanceInv, B!TypeOK, B!Books
<1>2. PICK k \in 0 .. Len(init) : (\A x \in 1 .. k : init[x].last =< n) /\ RunAfter(k)
  <2>1. CASE phase[current] = "scan"
    <3>1. RunAfter(0) /\ 0 \in 0 .. Len(init) /\ \A x \in 1 .. 0 : init[x].last =< n
      BY <1>1, <2>1 DEF TearInv, BufferConnects
    <3> QED
      BY <3>1
  <2>2. CASE phase[current] = "fetch" /\ want[current] =< n
    <3>1. PICK k \in 0 .. Len(init) : (\A x \in 1 .. k : init[x].last < want[current]) /\ RunAfter(k)
      BY <2>2 DEF TearInv, BufferConnects
    <3>2. ASSUME NEW x \in 1 .. k PROVE init[x].last =< n
      <4>1. init[x].last < want[current] /\ x \in 1 .. Len(init)
        BY <1>1, <3>1, <3>2
      <4>2. init[x].last \in Int
        BY <4>1, BufferedLast
      <4>3. want[current] \in Int
        BY <1>1 DEF BinanceInv, B!TypeOK, B!Ids
      <4> QED
        BY <1>1, <2>2, <4>1, <4>2, <4>3
    <3> QED
      BY <3>1, <3>2
  <2> QED
    BY <2>1, <2>2
<1>3. PICK f : f = B!Min(B!Matching(n)) /\ f \in 1 .. Len(init) /\ f > k
  <2>1. B!Matching(n) \in SUBSET Nat
    BY <1>1 DEF B!Matching
  <2>2. B!Min(B!Matching(n)) \in B!Matching(n)
    BY <2>1, MinIsLeast
  <2>3. B!Min(B!Matching(n)) \in {x \in DOMAIN init : init[x].first =< n + 1 /\ init[x].last > n}
    BY <2>2 DEF B!Matching
  <2>4. PICK g : g = B!Min(B!Matching(n))
    OBVIOUS
  <2>5. g \in 1 .. Len(init) /\ init[g].last > n
    BY <1>1, <2>3, <2>4
  <2>6. ASSUME g =< k PROVE FALSE
    <3>1. g \in 1 .. k /\ init[g].last \in Int
      BY <1>1, <1>2, <2>5, <2>6, BufferedLast
    <3>2. init[g].last =< n
      BY <1>2, <3>1
    <3> QED
      BY <1>1, <2>5, <3>1, <3>2
  <2> QED
    BY <1>1, <1>2, <2>4, <2>5, <2>6
<1> DEFINE s == B!Suffix(n)
<1>4. /\ s = SubSeq(init, f, Len(init)) /\ Len(s) = Len(init) - f + 1
      /\ \A x \in 1 .. Len(s) : s[x] = init[f + x - 1]
  BY <1>1, <1>3 DEF B!Suffix
<1> HIDE DEF s
<1>5. ASSUME NEW x \in 2 .. Len(s) PROVE s[x].pu = s[x - 1].last
  <2>0. PICK l \in Nat : l = Len(init) /\ f \in 1 .. l /\ k \in 0 .. l /\ f > k /\ x \in 2 .. l - f + 1
    BY <1>1, <1>2, <1>3, <1>4, <1>5
  <2>1. PICK y \in 1 .. Len(init) : y = f + x - 1 /\ y >= k + 2 /\ y - 1 = f + (x - 1) - 1
    <3>1. /\ f + x - 1 \in 1 .. l /\ f + x - 1 >= k + 2
          /\ (f + x - 1) - 1 = f + (x - 1) - 1
      BY <2>0
    <3> QED
      BY <2>0, <3>1
  <2>2. x \in 1 .. Len(s) /\ x - 1 \in 1 .. Len(s)
    <3>1. x \in 1 .. l - f + 1 /\ x - 1 \in 1 .. l - f + 1
      BY <2>0
    <3> QED
      BY <1>4, <2>0, <3>1
  <2>3. s[x] = init[y] /\ s[x - 1] = init[y - 1]
    BY <1>4, <2>1, <2>2
  <2>4. init[y].pu = init[y - 1].last
    BY <1>2, <2>1 DEF RunAfter
  <2> QED
    BY <2>3, <2>4
<1>6. ~B!Broken(s)
  BY <1>5 DEF B!Broken
<1> QED
  BY <1>6 DEF s

(* An event that arrives.                                                  *)
LEMMA ReceiveTear ==
  ASSUME BinanceInv, TearInv, NEW m \in B!Publishable, B!Receive(m)
  PROVE  TearInv'
<1> USE BinanceAssumption
<1>0. PICK b : b = current
  OBVIOUS
<1>1. /\ b \in B!Books /\ b # 0 /\ current' = b /\ published' = m.last
      /\ published \in Nat /\ m.pu \in Nat /\ m.first \in Nat /\ m.last \in Nat
      /\ published =< m.pu /\ m.pu < m.first /\ m.first =< m.last /\ m.last > 1
      /\ init \in Seq(B!Events) /\ Len(init) \in Nat
      /\ \A x \in 1 .. Len(init) : init[x].last \in Nat /\ init[x].last =< published
  <2>1. published \in B!Ids /\ cur \in B!Ids /\ current \in 0 .. MaxBooks /\ init \in Seq(B!Events)
    BY DEF BinanceInv, B!TypeOK
  <2>2. /\ m \in [pu : published .. cur, first : published .. cur, last : published .. cur]
        /\ m.pu < m.first /\ m.first =< m.last
    BY DEF B!Publishable
  <2>3. current # 0 /\ published' = m.last /\ current' = current
    BY DEF B!Receive, B!registry
  <2>4. \A x \in 1 .. Len(init) : init[x].last \in Nat /\ init[x].last =< published
    BY BufferedLast DEF TearInv, BuffersArrived
  <2> QED
    BY <1>0, <2>1, <2>2, <2>3, <2>4 DEF B!Books, B!Ids
<1>2. \A x \in 1 .. Len(init) : init[x].last =< published'
  BY <1>1
<1>3. CASE B!StartSync(b, m)
  <2>1. /\ update_id[b] = 0 /\ update_id' = [update_id EXCEPT ![b] = 1]
        /\ phase'[b] = "fetch" /\ want'[b] = m.first /\ UNCHANGED <<torn, init>>
    BY <1>1, <1>3 DEF B!StartSync, BinanceInv, B!TypeOK
  <2>2. b \notin torn
    BY <2>1 DEF TearInv, TornAreLive
  <2>3. \A x \in 1 .. Len(init) : init[x].last < m.first
    BY <1>1
  <2>4. RunAfter(Len(init))'
    BY <1>1, <2>1 DEF RunAfter
  <2>5. BufferConnects'
    <3>1. Len(init) \in 0 .. Len(init') /\ \A x \in 1 .. Len(init) : init'[x].last < want'[b]
      BY <1>1, <2>1, <2>3
    <3>2. phase'[b] = "fetch" /\ current' = b
      BY <1>1, <2>1
    <3>3. Len(init) = Len(init')
      BY <2>1
    <3> QED
      BY <2>4, <3>1, <3>2, <3>3 DEF BufferConnects
  <2>6. TornAreLive'
    <3>1. \A c \in torn : c \in B!Books /\ update_id'[c] = update_id[c]
      BY <2>1, <2>2 DEF BinanceInv, B!TypeOK
    <3> QED
      BY <2>1, <3>1 DEF TearInv, TornAreLive
  <2>7. BuffersArrived' /\ B!OnlyLossTears'
    BY <1>1, <1>2, <2>1, <2>2 DEF BuffersArrived, B!OnlyLossTears
  <2> QED
    BY <2>5, <2>6, <2>7 DEF TearInv
<1>4. CASE B!Buffer(b, m)
  <2>1. /\ init' = Append(init, m) /\ missed' = IF m.pu = published THEN missed ELSE missed \cup {b}
        /\ UNCHANGED <<update_id, torn, phase, want>>
    BY <1>4 DEF B!Buffer, B!handlers
  <2>2. /\ Len(init') = Len(init) + 1 /\ init'[Len(init) + 1] = m
        /\ \A x \in 1 .. Len(init) : init'[x] = init[x]
    BY <1>1, <2>1
  <2>3. BuffersArrived'
    BY <1>1, <1>2, <2>2 DEF BuffersArrived
  <2>4. ASSUME NEW k \in 0 .. Len(init), RunAfter(k), m.pu = published
        PROVE  RunAfter(k)'
    <3>1. ASSUME NEW x \in 1 .. Len(init'), x >= k + 2
          PROVE  init'[x].pu = init'[x - 1].last
      <4>1. CASE x =< Len(init)
        <5>1. x \in 1 .. Len(init) /\ x - 1 \in 1 .. Len(init)
          BY <1>1, <2>4, <3>1, <4>1
        <5> QED
          BY <2>2, <2>4, <3>1, <5>1 DEF RunAfter
      <4>2. CASE x = Len(init) + 1
        <5>1. Len(init) > k /\ Len(init) \in 1 .. Len(init) /\ x - 1 = Len(init)
          BY <1>1, <2>4, <3>1, <4>2
        <5>2. init[Len(init)].last = published
          BY <2>4, <5>1 DEF RunAfter
        <5> QED
          BY <2>2, <2>4, <4>2, <5>1, <5>2
      <4> QED
        BY <1>1, <2>2, <3>1, <4>1, <4>2
    <3> QED
      BY <1>1, <2>2, <3>1 DEF RunAfter
  <2>5. BufferConnects'
    <3> SUFFICES ASSUME b \notin missed'
                 PROVE  /\ phase[b] = "fetch" =>
                             \E k \in 0 .. Len(init') :
                               (\A x \in 1 .. k : init'[x].last < want[b]) /\ RunAfter(k)'
                        /\ phase[b] = "scan" => RunAfter(0)'
      BY <1>1, <2>1 DEF BufferConnects
    <3>1. b \notin missed /\ m.pu = published
      BY <2>1
    <3>2. ASSUME phase[b] = "scan" PROVE RunAfter(0)'
      <4>1. RunAfter(0) /\ 0 \in 0 .. Len(init)
        BY <1>0, <1>1, <3>1, <3>2 DEF TearInv, BufferConnects
      <4> QED
        BY <2>4, <3>1, <4>1
    <3>3. ASSUME phase[b] = "fetch"
          PROVE  \E k \in 0 .. Len(init') :
                   (\A x \in 1 .. k : init'[x].last < want[b]) /\ RunAfter(k)'
      <4>1. PICK k \in 0 .. Len(init) : (\A x \in 1 .. k : init[x].last < want[b]) /\ RunAfter(k)
        BY <1>0, <1>1, <3>1, <3>3 DEF TearInv, BufferConnects
      <4>2. RunAfter(k)'
        BY <2>4, <3>1, <4>1
      <4>3. k \in 0 .. Len(init') /\ \A x \in 1 .. k : x \in 1 .. Len(init)
        BY <1>1, <2>2, <4>1
      <4> QED
        BY <2>2, <4>1, <4>2, <4>3
    <3> QED
      BY <3>2, <3>3
  <2>6. B!OnlyLossTears' /\ TornAreLive'
    BY <1>0, <1>1, <2>1 DEF TearInv, TornAreLive, B!OnlyLossTears
  <2> QED
    BY <2>3, <2>5, <2>6 DEF TearInv
<1>5. CASE B!Live(b, m) \/ B!Gap(b, m)
  <2>1. /\ update_id[b] > 1 /\ UNCHANGED <<phase, init, missed>>
        /\ \/ torn' = torn /\ update_id' = [update_id EXCEPT ![b] = m.last]
           \/ torn' = torn \ {b} /\ update_id' = [update_id EXCEPT ![b] = 0]
    BY <1>5 DEF B!Live, B!Gap, B!handlers
  <2>2. phase[b] = "none"
    BY <1>1, <2>1 DEF BinanceInv, HandlersMarked
  <2>3. BufferConnects'
    BY <1>1, <2>1, <2>2 DEF BufferConnects
  <2>4. BuffersArrived'
    BY <1>2, <2>1 DEF BuffersArrived
  <2>5. TornAreLive'
    <3>1. torn \subseteq B!Books /\ update_id \in [B!Books -> {0, 1} \cup B!Ids]
      BY DEF BinanceInv, B!TypeOK
    <3> QED
      BY <1>1, <2>1, <3>1 DEF TearInv, TornAreLive
  <2>6. B!OnlyLossTears'
    BY <1>0, <1>1, <2>1 DEF TearInv, B!OnlyLossTears
  <2> QED
    BY <2>3, <2>4, <2>5, <2>6 DEF TearInv
<1> QED
  BY <1>0, <1>3, <1>4, <1>5 DEF B!Receive

(* A handler takes the buffer.                                             *)
LEMMA ScanTear ==
  ASSUME BinanceInv, TearInv, NEW b \in B!Books, NEW n \in FirstId .. cur, NEW tries,
         (phase[b] = "fetch" /\ want[b] =< n) \/ phase[b] = "scan",
         B!ScanFor(b, n, tries), UNCHANGED <<current, published>>
  PROVE  TearInv'
<1> USE BinanceAssumption
<1>1. init' = << >> /\ missed' = missed
  BY DEF B!ScanFor, B!books
<1>2. CASE B!Matching(n) = {}
  <2>1. UNCHANGED <<torn, update_id>>
    BY <1>2 DEF B!ScanFor, B!books
  <2> QED
    BY <1>1, <2>1, EmptyConnects DEF TearInv, TornAreLive, B!OnlyLossTears
<1>3. CASE B!Matching(n) # {}
  <2>1. /\ torn' = IF B!Broken(B!Suffix(n)) THEN torn \cup {b} ELSE torn
        /\ update_id' = [update_id EXCEPT ![b] = init[Len(init)].last]
    BY <1>3 DEF B!ScanFor
  <2>2. init[Len(init)].last > 1 /\ update_id \in [B!Books -> {0, 1} \cup B!Ids] /\ torn \subseteq B!Books
    <3>1. init \in Seq(B!Events) /\ Len(init) \in Nat /\ DOMAIN init = 1 .. Len(init)
      BY DEF BinanceInv, B!TypeOK
    <3>2. Len(init) \in 1 .. Len(init)
      BY <1>3, <3>1 DEF B!Matching
    <3>3. init[Len(init)] \in B!Events
      BY <3>1, <3>2
    <3> QED
      BY <3>3 DEF BinanceInv, B!TypeOK, B!Events, B!Ids
  <2>3. TornAreLive'
    BY <2>1, <2>2 DEF TearInv, TornAreLive
  <2>4. B!OnlyLossTears'
    <3>1. SUFFICES ASSUME current # 0, current \in torn', current \notin missed
                   PROVE  FALSE
      BY <1>1 DEF B!OnlyLossTears
    <3>2. b = current /\ B!Broken(B!Suffix(n))
      BY <2>1, <3>1 DEF TearInv, B!OnlyLossTears
    <3> QED
      BY <1>3, <3>1, <3>2, ReplayConnects
  <2> QED
    BY <1>1, <2>3, <2>4, EmptyConnects DEF TearInv
<1> QED
  BY <1>2, <1>3

LEMMA NextTear == BinanceInv /\ TearInv /\ [PartsNext]_parts => TearInv'
<1> SUFFICES ASSUME BinanceInv, TearInv, [B!Next]_binance PROVE TearInv'
  BY BinanceMoves
<1>1. ASSUME NEW b \in B!Books, B!SnapshotOk(b) PROVE TearInv'
  <2>1. phase[b] = "fetch" /\ UNCHANGED <<current, published>> /\ want[b] \in FirstId .. cur
    BY <1>1 DEF B!SnapshotOk, B!registry, BinanceInv, HandlersGenuine
  <2>2. PICK n \in want[b] .. cur : B!ScanFor(b, n, 1)
    BY <1>1 DEF B!SnapshotOk
  <2>3. n \in FirstId .. cur /\ want[b] =< n
    BY <2>1, <2>2, BinanceAssumption DEF BinanceInv, B!TypeOK, B!Ids
  <2> QED
    BY <2>1, <2>2, <2>3, ScanTear
<1>2. ASSUME NEW b \in B!Books, B!Rescan(b) PROVE TearInv'
  <2>1. /\ phase[b] = "scan" /\ UNCHANGED <<current, published>> /\ snap[b] \in FirstId .. cur
        /\ B!ScanFor(b, snap[b], retries[b] + 1)
    BY <1>2 DEF B!Rescan, B!registry, BinanceInv, HandlersGenuine
  <2> QED
    BY <2>1, ScanTear
<1>3. ASSUME NEW b \in B!Books, B!SnapshotErr(b) \/ B!GiveUp(b) PROVE TearInv'
  <2>1. /\ phase[b] # "none" /\ phase' = [phase EXCEPT ![b] = "none"]
        /\ update_id' = [update_id EXCEPT ![b] = 0]
        /\ \A c \in B!Books \ {b} : want'[c] = want[c]
        /\ UNCHANGED <<published, current, torn, missed, init>>
    BY <1>3 DEF B!SnapshotErr, B!GiveUp, B!registry, BinanceInv, B!TypeOK
  <2>2. update_id[b] = 1 /\ b \notin torn
    BY <2>1 DEF BinanceInv, HandlersMarked, TearInv, TornAreLive
  <2>3. TornAreLive'
    BY <2>1, <2>2 DEF TearInv, TornAreLive, BinanceInv, B!TypeOK
  <2>4. BufferConnects'
    <3>1. CASE current = b
      BY <2>1, <3>1 DEF BufferConnects, BinanceInv, B!TypeOK
    <3>2. CASE current # b /\ current # 0
      <4>1. current \in B!Books
        BY <3>2 DEF BinanceInv, B!TypeOK, B!Books
      <4>2. phase'[current] = phase[current] /\ want'[current] = want[current]
        BY <2>1, <3>2, <4>1 DEF BinanceInv, B!TypeOK
      <4>3. \A k : RunAfter(k)' <=> RunAfter(k)
        BY <2>1 DEF RunAfter
      <4> QED
        BY <2>1, <4>2, <4>3 DEF TearInv, BufferConnects
    <3>3. CASE current = 0
      BY <2>1, <3>3 DEF BufferConnects
    <3> QED
      BY <3>1, <3>2, <3>3
  <2> QED
    BY <2>1, <2>3, <2>4 DEF TearInv, BuffersArrived, B!OnlyLossTears
<1>4. CASE B!Watch
  <2>1. /\ UNCHANGED <<published, update_id, torn, missed, phase, want, init>>
        /\ \/ current = 0 /\ gen < MaxBooks /\ current' = gen + 1
           \/ current' = current
    BY <1>4 DEF B!Watch, B!registry, B!books, B!handlers
  <2>2. \A k : RunAfter(k)' <=> RunAfter(k)
    BY <2>1 DEF RunAfter
  <2>3. CASE current' = current
    BY <2>1, <2>2, <2>3 DEF TearInv, BuffersArrived, TornAreLive, BufferConnects, B!OnlyLossTears
  <2>4. CASE current' = gen + 1 /\ gen < MaxBooks
    <3>1. current' \in B!Books /\ current' > gen
      BY <2>4, BinanceAssumption DEF BinanceInv, B!TypeOK, B!Books
    <3>2. phase[current'] = "none" /\ update_id[current'] = 0
      BY <3>1 DEF BinanceInv, FreshBooks
    <3>3. current' \notin torn
      BY <3>2 DEF TearInv, TornAreLive
    <3> QED
      BY <2>1, <3>2, <3>3 DEF TearInv, BuffersArrived, TornAreLive, BufferConnects, B!OnlyLossTears
  <2> QED
    BY <2>1, <2>3, <2>4
<1>5. CASE B!Fail
  BY <1>5, EmptyConnects DEF B!Fail, B!books, TearInv, TornAreLive, B!OnlyLossTears
<1>6. CASE B!Unwatch
  BY <1>6 DEF B!Unwatch, B!books, TearInv, BuffersArrived, TornAreLive, BufferConnects, B!OnlyLossTears
<1>7. CASE B!Change \/ B!Read \/ UNCHANGED binance
  <2>1. UNCHANGED <<published, current, update_id, torn, missed, phase, want, init>>
    BY <1>7 DEF B!Change, B!Read, binance, B!registry, B!books, B!handlers
  <2>2. \A k : RunAfter(k)' <=> RunAfter(k)
    BY <2>1 DEF RunAfter
  <2> QED
    BY <2>1, <2>2 DEF TearInv, BuffersArrived, TornAreLive, BufferConnects, B!OnlyLossTears
<1> QED
  BY <1>1, <1>2, <1>3, <1>4, <1>5, <1>6, <1>7, ReceiveTear DEF B!Next, B!Handler

(* A replay never tears the registered book unless an event was lost among *)
(* those buffered for it: what other attempts left in the buffer they      *)
(* share is older than the snapshot.                                       *)
THEOREM BooksAreTornByLoss == PartsSpec => []OnlyLossTears
<1>1. PartsInit => TearInv
  BY InitTear DEF PartsInit
<1>2. TearInv => OnlyLossTears
  BY DEF TearInv, OnlyLossTears
<1> QED
  BY <1>1, <1>2, NextTear, BinanceInvariant, PTL DEF PartsSpec

-----------------------------------------------------------------------------
(* The book, as the abstract mirror sees it                                *)

Book == IF B!LiveAt = 0 THEN B!Empty ELSE levels[current]

(* Apart from the exchange's own updates, nothing changes its history.     *)
LEMMA OnlyChangeMovesHistory ==
  ASSUME [B!Next]_binance, ~B!Change
  PROVE  UNCHANGED <<cur, hist>>
  BY DEF B!Next, binance, B!Receive, B!Handler, B!SnapshotOk, B!SnapshotErr, B!Rescan, B!GiveUp, B!Watch,
         B!Read, B!Fail, B!Unwatch, B!exchange

(* Another book is registered only where there was none, and it is not     *)
(* synchronised.                                                           *)
LEMMA RegisteredAnew ==
  ASSUME BinanceInv, [B!Next]_binance, current # 0, current' # 0
  PROVE  current' = current
<1>1. CASE B!Watch \/ B!Fail \/ B!Unwatch
  BY <1>1 DEF B!Watch, B!Fail, B!Unwatch, B!registry
<1>2. CASE ~(B!Watch \/ B!Fail \/ B!Unwatch)
  BY <1>2 DEF B!Next, binance, B!Change, B!Receive, B!Handler, B!SnapshotOk, B!SnapshotErr, B!Rescan,
              B!GiveUp, B!Read, B!registry
<1> QED
  BY <1>1, <1>2

(* A book that stays synchronised stays where it is or moves on, and stays *)
(* torn if it was.                                                         *)
LEMMA BooksMoveOn ==
  ASSUME BinanceInv, [B!Next]_binance, NEW b \in B!Books, update_id[b] > 1, update_id'[b] > 1
  PROVE  update_id'[b] >= update_id[b] /\ (b \in torn => b \in torn')
<1>1. /\ update_id[b] \in Int /\ update_id \in [B!Books -> {0, 1} \cup B!Ids]
      /\ B!Ids \subseteq Int /\ phase[b] = "none"
  BY BinanceAssumption DEF BinanceInv, B!TypeOK, B!Ids, HandlersMarked
<1>2. ASSUME NEW m \in B!Publishable, B!Receive(m)
      PROVE  update_id'[b] >= update_id[b] /\ (b \in torn => b \in torn')
  <2>1. m.pu < m.first /\ m.first =< m.last /\ m.last \in Int /\ m.first \in Int /\ m.pu \in Int
    BY DEF B!Publishable, BinanceInv, B!TypeOK, B!Ids
  <2>2. CASE B!StartSync(current, m) \/ B!Buffer(current, m)
    BY <1>1, <2>2 DEF B!StartSync, B!Buffer, B!books
  <2>3. CASE B!Live(current, m)
    <3>1. torn' = torn /\ update_id' = [update_id EXCEPT ![current] = m.last]
      BY <2>3 DEF B!Live
    <3>2. ASSUME b = current PROVE m.last >= update_id[b]
      BY <1>1, <2>1, <2>3, <3>2 DEF B!Live, B!Extends
    <3> QED
      BY <1>1, <3>1, <3>2
  <2>4. CASE B!Gap(current, m)
    BY <1>1, <2>4 DEF B!Gap
  <2> QED
    BY <1>2, <2>2, <2>3, <2>4 DEF B!Receive
<1>3. ASSUME NEW c \in B!Books, B!Handler(c)
      PROVE  update_id'[b] >= update_id[b] /\ (b \in torn => b \in torn')
  <2>1. b # c
    BY <1>1, <1>3 DEF B!Handler, B!SnapshotOk, B!SnapshotErr, B!Rescan, B!GiveUp
  <2>2. update_id'[b] = update_id[b] /\ (b \in torn => b \in torn')
    BY <1>1, <1>3, <2>1
    DEF B!Handler, B!SnapshotOk, B!SnapshotErr, B!Rescan, B!GiveUp, B!ScanFor, B!books
  <2> QED
    BY <1>1, <2>2
<1>4. CASE B!Change \/ B!Watch \/ B!Read \/ B!Fail \/ B!Unwatch \/ UNCHANGED binance
  BY <1>1, <1>4 DEF B!Change, B!Watch, B!Read, B!Fail, B!Unwatch, binance, B!books
<1> QED
  BY <1>2, <1>3, <1>4 DEF B!Next

(* The initial states show nothing.                                        *)
LEMMA BinanceMirrorInit == PartsInit => B!Mirror!Init
  BY DEF PartsInit, B!Init, B!Mirror!Init, B!LiveAt

(* Every step is a step of the mirror.                                     *)
LEMMA BinanceMirrorStep == BinanceInv /\ [PartsNext]_parts => [B!Mirror!Next]_(B!Mirror!vars)
<1> SUFFICES ASSUME BinanceInv, [B!Next]_binance, BinanceInv'
             PROVE  B!Mirror!Next \/ UNCHANGED B!Mirror!vars
  BY NextBinance, BinanceMoves
<1>1. CASE B!Change
  <2>1. /\ cur < MaxId /\ cur' = cur + 1
        /\ \E q \in B!Quotes : hist' = [n \in FirstId .. (cur + 1) |-> IF n =< cur THEN hist[n] ELSE q]
    BY <1>1 DEF B!Change
  <2>2. UNCHANGED <<B!LiveAt, Book>>
    BY <1>1 DEF B!Change, B!LiveAt, Book, B!registry, B!books
  <2>3. B!Mirror!Change
    BY <2>1, <2>2 DEF B!Mirror!Change, Book
  <2> QED
    BY <2>3 DEF B!Mirror!Next
<1>2. CASE ~B!Change /\ B!LiveAt' = 0
  <2>1. B!Mirror!Lose
    BY <1>2, OnlyChangeMovesHistory DEF B!Mirror!Lose, B!Empty
  <2> QED
    BY <2>1 DEF B!Mirror!Next
<1>3. CASE ~B!Change /\ B!LiveAt' # 0
  <2>1. UNCHANGED <<cur, hist>>
    BY <1>3, OnlyChangeMovesHistory
  <2>2. /\ current' # 0 /\ current' \in B!Books \ torn'
        /\ update_id'[current'] > 1 /\ B!LiveAt' = update_id'[current'] /\ Book' = levels'[current']
    BY <1>3 DEF B!LiveAt, Book, BinanceInv, B!TypeOK, B!Books
  <2>3. B!LiveAt' \in FirstId .. cur /\ Book' = hist[B!LiveAt']
    <3>1. update_id'[current'] \in {0, 1} \cup B!Ids
      BY <2>2 DEF BinanceInv, B!TypeOK
    <3>2. update_id'[current'] =< cur' /\ levels'[current'] = hist'[update_id'[current']]
      BY <2>2 DEF BinanceInv, WholeBooksMatch
    <3>3. cur \in Int
      BY BinanceAssumption DEF BinanceInv, B!TypeOK, B!Ids
    <3> QED
      BY <2>1, <2>2, <3>1, <3>2, <3>3, BinanceAssumption DEF B!Ids
  <2>4. B!LiveAt' >= B!LiveAt
    <3>1. CASE B!LiveAt = 0
      BY <2>3, <3>1, BinanceAssumption
    <3>2. CASE B!LiveAt # 0
      <4>1. current # 0 /\ current \in B!Books /\ update_id[current] > 1 /\ B!LiveAt = update_id[current]
        BY <3>2 DEF B!LiveAt, BinanceInv, B!TypeOK, B!Books
      <4>2. current' = current
        BY <2>2, <4>1, RegisteredAnew
      <4> QED
        BY <2>2, <4>1, <4>2, BooksMoveOn
    <3> QED
      BY <3>1, <3>2
  <2>5. B!Mirror!Advance
    BY <2>1, <2>3, <2>4 DEF B!Mirror!Advance, Book
  <2> QED
    BY <2>5 DEF B!Mirror!Next
<1> QED
  BY <1>1, <1>2, <1>3

(* The client implements the abstract mirror: a registered book that is    *)
(* whole is one the exchange had, and never goes back while it is          *)
(* synchronised.                                                           *)
THEOREM BinanceImplementsMirror == PartsSpec => Mirrored
  BY BinanceMirrorInit, BinanceMirrorStep, BinanceInvariant, PTL DEF PartsSpec, Mirrored, B!Mirrored, B!Mirror!Spec

-----------------------------------------------------------------------------
(* The pool of clients.                                                    *)

Pooled(c) == Occurs(c, pool)

(* reg holds the symbols whose last command in w asks for them, and those  *)
(* that are streamed and have no command in w.                             *)
Heeded(w, st, reg) ==
  /\ \A n \in 1 .. Len(w) :
       w[n].op = "SUBSCRIBE" /\ (\A k \in 1 .. Len(w) : k > n => w[k].of # w[n].of) => w[n].of \in reg
  /\ \A s \in st : (\A n \in 1 .. Len(w) : w[n].of # s) => s \in reg

(* A client without a connection has no commands and no streams.  A symbol *)
(* without a command that was overtaken is registered if its last command  *)
(* asks for it, or if it is streamed and has no command.                   *)
Quiet(c) == link[c] # "up" => wire[c] = << >> /\ streams[c] = {}
Word(c)  == Heeded(wire[c], streams[c], subscribed[c] \cup overtaken[c])

Clean(c) == Quiet(c) /\ Word(c) /\ IsFiniteSet(subscribed[c])

(* A dialer waits for its client.                                          *)
DialersWait == \A c \in G!Clients : \A t \in dialer[c] : pc[t] = "connect" /\ client[t] = c

UnmadeAreNew ==
  /\ \A t \in Tasks : pc[t] # "idle" => client[t] \in 1 .. made
  /\ \A c \in G!Clients : c > made => link[c] = "down"

Used == \A c \in G!Clients : Pooled(c) /\ link[c] = "up" => subscribed[c] # {}

PoolInv ==
  G!TypeOK /\ (\A c \in G!Clients : Clean(c)) /\ DialersWait /\ UnmadeAreNew /\ Used

LEMMA PoolMoves == [PartsNext]_parts => [G!Next]_pools
  BY DEF PartsNext, parts, pools

(* The registry of one client, as commands come and go.                    *)
LEMMA SubscribeHeeded ==
  ASSUME NEW w \in Seq(G!Commands), NEW st, NEW reg, NEW s \in Watched, Heeded(w, st, reg)
  PROVE  Heeded(Append(w, G!Command("SUBSCRIBE", s)), st, reg \cup {s})
<1>1. PICK v : v = Append(w, G!Command("SUBSCRIBE", s))
  OBVIOUS
<1>2. /\ Len(v) = Len(w) + 1 /\ Len(w) \in Nat /\ (\A n \in 1 .. Len(w) : v[n] = w[n])
      /\ v[Len(w) + 1].of = s
  BY <1>1 DEF G!Command
<1>3. \A n \in 1 .. Len(w) : n \in 1 .. Len(v)
  BY <1>2
<1>4. \A n \in 1 .. Len(v) : n \in 1 .. Len(w) \/ n = Len(w) + 1
  BY <1>2
<1>5. Heeded(v, st, reg \cup {s})
  BY <1>2, <1>3, <1>4 DEF Heeded
<1> QED
  BY <1>1, <1>5

LEMMA UnsubscribeHeeded ==
  ASSUME NEW w \in Seq(G!Commands), NEW st, NEW reg, NEW less, NEW s \in Watched,
         Heeded(w, st, reg), reg \subseteq less \cup {s}
  PROVE  Heeded(Append(w, G!Command("UNSUBSCRIBE", s)), st, less)
<1>1. PICK v : v = Append(w, G!Command("UNSUBSCRIBE", s))
  OBVIOUS
<1>2. /\ Len(v) = Len(w) + 1 /\ Len(w) \in Nat /\ (\A n \in 1 .. Len(w) : v[n] = w[n])
      /\ v[Len(w) + 1].of = s /\ v[Len(w) + 1].op = "UNSUBSCRIBE"
  BY <1>1 DEF G!Command
<1>3. \A n \in 1 .. Len(w) : n \in 1 .. Len(v) /\ Len(w) + 1 > n
  BY <1>2
<1>4. /\ \A n \in 1 .. Len(v) : n \in 1 .. Len(w) \/ n = Len(w) + 1
      /\ Len(w) + 1 \in 1 .. Len(v)
  BY <1>2
<1>5. Heeded(v, st, less)
  BY <1>2, <1>3, <1>4 DEF Heeded
<1> QED
  BY <1>1, <1>5

(* A command leaves that no older one of its symbol waits before; or the   *)
(* symbol is noted as overtaken.                                           *)
LEMMA TransmitHeeded ==
  ASSUME NEW w \in Seq(G!Commands), NEW st, NEW reg, NEW more, NEW n \in 1 .. Len(w), Heeded(w, st, reg),
         reg \subseteq more,
         (\E k \in 1 .. Len(w) : k < n /\ w[k].of = w[n].of) => w[n].of \in more
  PROVE  Heeded(Without(w, n), IF w[n].op = "SUBSCRIBE" THEN st \cup {w[n].of} ELSE st \ {w[n].of}, more)
<1> DEFINE st2 == IF w[n].op = "SUBSCRIBE" THEN st \cup {w[n].of} ELSE st \ {w[n].of}
<1>0. PICK v : v = Without(w, n)
  OBVIOUS
<1>1. PICK m \in Nat : v = Without(w, n) /\ m = Len(w)
  BY <1>0
<1>2. /\ Len(v) = m - 1 /\ \A k \in 1 .. m - 1 : v[k] = w[Before(n, k)]
  BY <1>1, WithoutPlace
<1>3. /\ \A k \in 1 .. m - 1 : Before(n, k) \in 1 .. m /\ Before(n, k) # n
      /\ \A x \in 1 .. m : x # n => \E k \in 1 .. m - 1 : Before(n, k) = x
  BY <1>1, BeforeIsPlace
<1>4. \A k1, k2 \in 1 .. m - 1 : Before(n, k2) > Before(n, k1) => k2 > k1
  BY <1>1 DEF Before
<1>5. n \in 1 .. m /\ Len(w) = m
  BY <1>1
<1>6. ASSUME NEW k \in 1 .. m - 1, v[k].op = "SUBSCRIBE",
             \A k2 \in 1 .. m - 1 : k2 > k => v[k2].of # v[k].of
      PROVE  v[k].of \in more
  <2>1. PICK x \in 1 .. m : x = Before(n, k) /\ x # n /\ v[k] = w[x]
    BY <1>2, <1>3
  <2>2. \A y \in 1 .. m : y > x /\ y # n => w[y].of # w[x].of
    BY <1>2, <1>3, <1>4, <1>6, <2>1
  <2>3. CASE n > x /\ w[n].of = w[x].of
    BY <1>5, <2>1, <2>3
  <2>4. CASE ~(n > x /\ w[n].of = w[x].of)
    <3>1. \A y \in 1 .. m : y > x => w[y].of # w[x].of
      BY <2>2, <2>4
    <3> QED
      BY <1>5, <1>6, <2>1, <3>1 DEF Heeded
  <2> QED
    BY <2>3, <2>4
<1>7. ASSUME NEW s \in st2, \A k \in 1 .. m - 1 : v[k].of # s
      PROVE  s \in more
  <2>1. ASSUME NEW y \in 1 .. m, y # n PROVE w[y].of # s
    <3>1. PICK k \in 1 .. m - 1 : Before(n, k) = y
      BY <1>3, <2>1
    <3>2. v[k] = w[y]
      BY <1>2, <3>1
    <3> QED
      BY <1>7, <3>1, <3>2
  <2>2. CASE s = w[n].of
    <3>1. w[n].op = "SUBSCRIBE"
      BY <1>7, <2>2
    <3>2. \A y \in 1 .. m : y > n => w[y].of # w[n].of
      BY <1>5, <2>1, <2>2
    <3> QED
      BY <1>5, <2>2, <3>1, <3>2 DEF Heeded
  <2>3. CASE s # w[n].of
    <3>1. s \in st /\ \A y \in 1 .. m : w[y].of # s
      BY <1>5, <1>7, <2>1, <2>3
    <3> QED
      BY <1>5, <3>1 DEF Heeded
  <2> QED
    BY <2>2, <2>3
<1> HIDE DEF st2
<1>8. Heeded(v, st2, more)
  BY <1>2, <1>6, <1>7 DEF Heeded
<1> QED
  BY <1>1, <1>8 DEF st2

LEMMA InitPool == G!Init => PoolInv
<1> SUFFICES ASSUME G!Init PROVE PoolInv
  OBVIOUS
<1>1. \A c : ~Pooled(c)
  BY DEF G!Init, Pooled, Occurs
<1>2. ASSUME NEW c \in G!Clients PROVE Clean(c)
  <2>1. /\ subscribed[c] = {} /\ wire[c] = << >> /\ streams[c] = {} /\ Len(<< >>) = 0
    BY DEF G!Init
  <2>2. IsFiniteSet({})
    BY FS_EmptySet
  <2> QED
    BY <2>1, <2>2 DEF Clean, Quiet, Word, Heeded
<1>3. G!TypeOK
  <2>1. made \in 0 .. MaxClients /\ 0 \in 0 .. MaxClients /\ made = 0
    BY PoolAssumption DEF G!Init
  <2>2. pool \in Seq(1 .. made) /\ G!IsInjective(pool)
    BY DEF G!Init, G!IsInjective
  <2>3. \A S : << >> \in Seq(S)
    OBVIOUS
  <2>4. /\ subscribed \in [G!Clients -> SUBSET Watched] /\ link \in [G!Clients -> {"down", "dialing", "up"}]
        /\ dialer \in [G!Clients -> SUBSET Tasks] /\ wire \in [G!Clients -> Seq(G!Commands)]
        /\ streams \in [G!Clients -> SUBSET Watched] /\ overtaken \in [G!Clients -> SUBSET Watched]
    BY <2>3 DEF G!Init
  <2>5. pc \in [Tasks -> G!PCs] /\ sym \in [Tasks -> Watched] /\ client \in [Tasks -> 0 .. MaxClients]
    BY <2>1 DEF G!Init, G!PCs
  <2> QED
    BY <2>1, <2>2, <2>4, <2>5 DEF G!TypeOK
<1>4. DialersWait /\ UnmadeAreNew
  BY DEF G!Init, DialersWait, UnmadeAreNew
<1> QED
  BY <1>1, <1>2, <1>3, <1>4 DEF PoolInv, Used

(* A client whose commands stay, and whose registry and socket may grow.   *)
LEMMA StaysClean ==
  ASSUME NEW c, Clean(c), wire'[c] = wire[c], streams'[c] = streams[c], overtaken'[c] = overtaken[c],
         subscribed'[c] = subscribed[c], link'[c] = link[c] \/ link[c] # "up"
  PROVE  Clean(c)'
  BY DEF Clean, Quiet, Word

(* A task registers, whatever became of the socket.                        *)
LEMMA TaskRegisters ==
  ASSUME PoolInv, NEW t \in Tasks, NEW c \in G!Clients, NEW s \in Watched, NEW pcs \in [Tasks -> G!PCs],
         G!Register(t, c, s, pcs), UNCHANGED <<streams, overtaken>>,
         \A d \in G!Clients : d # c => link'[d] = link[d],
         link'[c] = link[c] \/ link[c] # "up"
  PROVE  /\ \A d \in G!Clients : Clean(d)'
         /\ subscribed' \in [G!Clients -> SUBSET Watched] /\ wire' \in [G!Clients -> Seq(G!Commands)]
         /\ pc' \in [Tasks -> G!PCs] /\ pc'[t] = "idle" /\ \A r \in Tasks \ {t} : pc'[r] = pcs[r]
         /\ subscribed'[c] = subscribed[c] \cup {s}
         /\ \A d \in G!Clients \ {c} : subscribed'[d] = subscribed[d]
<1> DEFINE sends == s \notin subscribed[c] /\ link'[c] = "up"
<1>0. /\ subscribed \in [G!Clients -> SUBSET Watched] /\ wire \in [G!Clients -> Seq(G!Commands)]
      /\ streams \in [G!Clients -> SUBSET Watched] /\ overtaken \in [G!Clients -> SUBSET Watched]
      /\ \A d \in G!Clients : Clean(d)
  BY DEF PoolInv, G!TypeOK
<1>1. /\ subscribed' = [subscribed EXCEPT ![c] = @ \cup {s}]
      /\ wire' = [wire EXCEPT ![c] = IF sends THEN Append(@, G!Command("SUBSCRIBE", s)) ELSE @]
      /\ pc' = [pcs EXCEPT ![t] = "idle"]
      /\ streams' = streams /\ overtaken' = overtaken
  BY DEF G!Register
<1> HIDE DEF sends
<1>2. /\ subscribed' \in [G!Clients -> SUBSET Watched]
      /\ subscribed'[c] = subscribed[c] \cup {s}
      /\ \A d \in G!Clients \ {c} : subscribed'[d] = subscribed[d] /\ wire'[d] = wire[d]
      /\ wire'[c] = (IF sends THEN Append(wire[c], G!Command("SUBSCRIBE", s)) ELSE wire[c])
  BY <1>0, <1>1
<1>3. pc' \in [Tasks -> G!PCs] /\ pc'[t] = "idle" /\ \A r \in Tasks \ {t} : pc'[r] = pcs[r]
  BY <1>1 DEF G!PCs
<1>4. wire' \in [G!Clients -> Seq(G!Commands)]
  <2>1. G!Command("SUBSCRIBE", s) \in G!Commands
    BY DEF G!Command, G!Commands
  <2>2. wire[c] \in Seq(G!Commands)
    BY <1>0
  <2>3. Append(wire[c], G!Command("SUBSCRIBE", s)) \in Seq(G!Commands)
    BY <2>1, <2>2, AppendProperties
  <2> QED
    BY <1>0, <1>1, <2>3
<1>5. ASSUME NEW d \in G!Clients, d # c
      PROVE  Clean(d)'
  BY <1>0, <1>1, <1>2, <1>5, StaysClean
<1>6. Clean(c)'
  <2>1. IsFiniteSet(subscribed[c] \cup {s})
    BY <1>0, FS_AddElement DEF Clean
  <2>2. Quiet(c)'
    <3>1. CASE sends
      BY <3>1 DEF sends, Quiet
    <3>2. CASE ~sends
      BY <1>0, <1>1, <1>2, <3>2 DEF Quiet, Clean
    <3> QED
      BY <3>1, <3>2
  <2>3. PICK w \in Seq(G!Commands), st \in SUBSET Watched, reg \in SUBSET Watched :
          w = wire[c] /\ st = streams[c] /\ reg = subscribed[c] \cup overtaken[c]
    BY <1>0
  <2>4. Heeded(w, st, reg)
    BY <1>0, <2>3 DEF Clean, Word
  <2>5. Heeded(Append(w, G!Command("SUBSCRIBE", s)), st, reg \cup {s})
    BY <2>4, SubscribeHeeded
  <2>6. Heeded(w, st, reg \cup {s})
    BY <2>4 DEF Heeded
  <2>7. Heeded(wire'[c], st, reg \cup {s})
    BY <1>2, <2>3, <2>5, <2>6
  <2>8. streams'[c] = st /\ subscribed'[c] \cup overtaken'[c] = reg \cup {s}
    BY <1>1, <1>2, <2>3
  <2>9. Word(c)'
    BY <2>7, <2>8 DEF Word
  <2> QED
    BY <1>2, <2>1, <2>2, <2>9 DEF Clean
<1> QED
  BY <1>2, <1>3, <1>4, <1>5, <1>6

(* watch_orderbook() on the client that was chosen, which may be a new one.*)
LEMMA JoinMoves ==
  ASSUME PoolInv, NEW t \in Tasks, NEW c \in G!Clients, NEW s \in Watched,
         pc[t] # "connect", client'[t] = c, c =< made',
         client' \in [Tasks -> 0 .. MaxClients], \A r \in Tasks \ {t} : client'[r] = client[r],
         sym' \in [Tasks -> Watched], made' \in made .. MaxClients,
         pool' \in Seq(1 .. made'), Once(pool'), \A d : Pooled(d)' => Pooled(d) \/ d = c,
         UNCHANGED <<streams, overtaken>>,
         \/ G!Join(t, c, s)
         \/ link[c] = "down" /\ UNCHANGED <<link, dialer>> /\ G!Register(t, c, s, pc)
  PROVE  PoolInv'
<1>0. /\ G!TypeOK /\ DialersWait /\ UnmadeAreNew /\ Used
      /\ \A d \in G!Clients : Clean(d)
      /\ made \in Nat /\ c \in Nat /\ c >= 1 /\ MaxClients \in Nat
  <2>1. G!TypeOK /\ DialersWait /\ UnmadeAreNew /\ Used /\ \A d \in G!Clients : Clean(d)
    BY DEF PoolInv
  <2>2. made \in Nat
    BY <2>1, PoolAssumption DEF G!TypeOK
  <2>3. c \in Nat /\ c >= 1 /\ MaxClients \in Nat
    BY PoolAssumption DEF G!Clients
  <2> QED
    BY <2>1, <2>2, <2>3
<1>1. made' \in 0 .. MaxClients /\ pool' \in Seq(1 .. made') /\ G!IsInjective(pool')
  BY <1>0 DEF Once, G!IsInjective
<1>2. \A d \in G!Clients : d # c => link'[d] = link[d] /\ dialer'[d] = dialer[d]
  BY <1>0 DEF G!Join, G!TypeOK
<1>3. \A d \in G!Clients : t \notin dialer[d]
  BY <1>0 DEF DialersWait
<1>4. \A d \in G!Clients : d > made' => d > made /\ d # c
  BY <1>0 DEF G!Clients
<1>5. ASSUME NEW r \in Tasks, r # t, client[r] \in 1 .. made
      PROVE  client'[r] \in 1 .. made'
  BY <1>0, <1>5
<1>6. client'[t] \in 1 .. made'
  BY <1>0
<1>7. CASE UNCHANGED <<link, dialer>> /\ G!Register(t, c, s, pc)
  <2>0. pc \in [Tasks -> G!PCs]
    BY <1>0 DEF G!TypeOK
  <2>1. /\ \A d \in G!Clients : Clean(d)'
        /\ subscribed' \in [G!Clients -> SUBSET Watched] /\ wire' \in [G!Clients -> Seq(G!Commands)]
        /\ pc' \in [Tasks -> G!PCs] /\ pc'[t] = "idle" /\ \A r \in Tasks \ {t} : pc'[r] = pc[r]
        /\ subscribed'[c] = subscribed[c] \cup {s}
        /\ \A d \in G!Clients \ {c} : subscribed'[d] = subscribed[d]
    BY <1>7, <2>0, TaskRegisters
  <2>2. G!TypeOK'
    BY <1>0, <1>1, <1>7, <2>1 DEF G!TypeOK
  <2>3. DialersWait'
    <3>1. ASSUME NEW d \in G!Clients, NEW r \in dialer[d]
          PROVE  pc'[r] = "connect" /\ client'[r] = d
      <4>1. r \in Tasks \ {t} /\ pc[r] = "connect" /\ client[r] = d
        BY <1>0, <1>3, <3>1 DEF G!TypeOK, DialersWait
      <4> QED
        BY <2>1, <4>1
    <3> QED
      BY <1>7, <3>1 DEF DialersWait
  <2>4. UnmadeAreNew'
    BY <1>0, <1>4, <1>5, <1>6, <1>7, <2>1 DEF UnmadeAreNew
  <2>5. Used'
    BY <1>0, <1>7, <2>1 DEF Used
  <2> QED
    BY <2>1, <2>2, <2>3, <2>4, <2>5 DEF PoolInv
<1>8. CASE /\ link[c] = "down" /\ link' = [link EXCEPT ![c] = "dialing"]
           /\ dialer' = [dialer EXCEPT ![c] = {t}] /\ pc' = [pc EXCEPT ![t] = "connect"]
           /\ UNCHANGED <<subscribed, wire>>
  <2>1. link'[c] = "dialing" /\ dialer'[c] = {t} /\ pc'[t] = "connect" /\ \A r \in Tasks \ {t} : pc'[r] = pc[r]
    BY <1>0, <1>8 DEF G!TypeOK
  <2>2. G!TypeOK'
    BY <1>0, <1>1, <1>8 DEF G!TypeOK, G!PCs
  <2>3. \A d \in G!Clients : Clean(d)'
    <3>1. ASSUME NEW d \in G!Clients PROVE link'[d] = link[d] \/ link[d] # "up"
      BY <1>2, <1>8
    <3> QED
      BY <1>0, <1>8, <3>1, StaysClean
  <2>4. DialersWait'
    <3>1. ASSUME NEW d \in G!Clients, NEW r \in dialer'[d]
          PROVE  pc'[r] = "connect" /\ client'[r] = d
      <4>1. CASE d = c
        BY <2>1, <3>1, <4>1
      <4>2. CASE d # c
        <5>1. r \in dialer[d] /\ r \in Tasks \ {t}
          BY <1>0, <1>2, <1>3, <3>1, <4>2 DEF G!TypeOK
        <5> QED
          BY <1>0, <2>1, <5>1 DEF DialersWait
      <4> QED
        BY <4>1, <4>2
    <3> QED
      BY <3>1 DEF DialersWait
  <2>5. UnmadeAreNew'
    BY <1>0, <1>2, <1>4, <1>5, <1>6, <2>1 DEF UnmadeAreNew
  <2>6. Used'
    BY <1>0, <1>2, <1>8, <2>1 DEF Used
  <2> QED
    BY <2>2, <2>3, <2>4, <2>5, <2>6 DEF PoolInv
<1>9. CASE link[c] = "dialing" /\ pc' = [pc EXCEPT ![t] = "connect"] /\ UNCHANGED <<link, dialer, subscribed, wire>>
  <2>1. pc'[t] = "connect" /\ \A r \in Tasks \ {t} : pc'[r] = pc[r]
    BY <1>0, <1>9 DEF G!TypeOK
  <2>2. G!TypeOK'
    BY <1>0, <1>1, <1>9 DEF G!TypeOK, G!PCs
  <2>3. \A d \in G!Clients : Clean(d)'
    BY <1>0, <1>9, StaysClean
  <2>4. DialersWait'
    <3>1. ASSUME NEW d \in G!Clients, NEW r \in dialer[d]
          PROVE  pc'[r] = "connect" /\ client'[r] = d
      <4>1. r \in Tasks \ {t} /\ pc[r] = "connect" /\ client[r] = d
        BY <1>0, <1>3, <3>1 DEF G!TypeOK, DialersWait
      <4> QED
        BY <2>1, <4>1
    <3> QED
      BY <1>9, <3>1 DEF DialersWait
  <2>5. UnmadeAreNew'
    BY <1>0, <1>2, <1>4, <1>5, <1>6, <1>9, <2>1 DEF UnmadeAreNew
  <2>6. Used'
    BY <1>0, <1>2, <1>9 DEF Used
  <2> QED
    BY <2>2, <2>3, <2>4, <2>5, <2>6 DEF PoolInv
<1> QED
  BY <1>7, <1>8, <1>9 DEF G!Join

(* The place of the client that is chosen.                                 *)
LEMMA FirstPlace ==
  ASSUME NEW places \in SUBSET Nat, places # {}
  PROVE  G!Min(places) \in places
  BY LeastNumber DEF G!Min

LEMMA PoolPlaces ==
  ASSUME PoolInv
  PROVE  /\ Len(pool) \in Nat /\ DOMAIN pool = 1 .. Len(pool)
         /\ \A n \in DOMAIN pool : pool[n] \in 1 .. made /\ pool[n] \in G!Clients /\ Pooled(pool[n])
         /\ Once(pool)
<1>1. pool \in Seq(1 .. made) /\ made \in 0 .. MaxClients /\ MaxClients \in Nat
  BY PoolAssumption DEF PoolInv, G!TypeOK
<1>2. Once(pool)
  BY DEF PoolInv, G!TypeOK, Once, G!IsInjective
<1>3. Len(pool) \in Nat /\ DOMAIN pool = 1 .. Len(pool)
  BY <1>1
<1>4. \A n \in 1 .. Len(pool) : pool[n] \in 1 .. made
  BY <1>1
<1>5. \A x \in 1 .. made : x \in G!Clients
  BY <1>1 DEF G!Clients
<1> QED
  BY <1>2, <1>3, <1>4, <1>5 DEF Pooled, Occurs

LEMMA ChosenPlace ==
  ASSUME PoolInv, NEW s, G!Candidates(s) # {}
  PROVE  /\ G!Min(G!Candidates(s)) \in DOMAIN pool
         /\ G!Min(G!Candidates(s)) \in G!Candidates(s)
<1>1. G!Candidates(s) \subseteq DOMAIN pool
  BY DEF G!Candidates, G!Having, G!Roomy
<1>2. G!Candidates(s) \in SUBSET Nat
  BY <1>1, PoolPlaces
<1> QED
  BY <1>1, <1>2, FirstPlace

LEMMA WatchPool ==
  ASSUME PoolInv, NEW t \in Tasks, NEW s \in Watched, G!Watch(t, s)
  PROVE  PoolInv'
<1>0. G!TypeOK /\ made \in Nat /\ MaxClients \in Nat /\ pc[t] = "idle"
  BY PoolAssumption DEF PoolInv, G!TypeOK, G!Watch
<1>1. PICK c \in G!Clients : /\ G!Choose(t, s, c) /\ client' = [client EXCEPT ![t] = c] /\ G!Join(t, c, s)
  BY DEF G!Watch
<1>2. sym' = [sym EXCEPT ![t] = s] /\ UNCHANGED <<streams, overtaken>>
  BY DEF G!Watch
<1>3. /\ client' \in [Tasks -> 0 .. MaxClients] /\ client'[t] = c /\ \A r \in Tasks \ {t} : client'[r] = client[r]
      /\ sym' \in [Tasks -> Watched]
  BY <1>0, <1>1, <1>2 DEF G!TypeOK, G!Clients
<1>4. CASE G!Candidates(s) # {} /\ c = pool[G!Min(G!Candidates(s))] /\ pool' = pool /\ made' = made
  <2>1. c \in 1 .. made
    BY <1>4, ChosenPlace, PoolPlaces
  <2>2. made' \in made .. MaxClients /\ c =< made'
    BY <1>0, <1>4, <2>1 DEF G!TypeOK
  <2>3. pool' \in Seq(1 .. made') /\ Once(pool') /\ \A d : Pooled(d)' => Pooled(d)
    BY <1>0, <1>4, PoolPlaces DEF G!TypeOK, Pooled
  <2> QED
    BY <1>0, <1>1, <1>2, <1>3, <2>2, <2>3, JoinMoves
<1>5. CASE made < MaxClients /\ c = made + 1 /\ made' = made + 1 /\ pool' = Append(pool, made + 1)
  <2>1. made' \in made .. MaxClients /\ c =< made'
    BY <1>0, <1>5 DEF G!TypeOK
  <2>2. PICK q \in Seq(1 .. made) : q = pool /\ Once(q)
    BY <1>0, PoolPlaces DEF G!TypeOK
  <2>3. ~Occurs(c, q) /\ c = made + 1
    <3>1. \A n \in 1 .. Len(pool) : pool[n] \in 1 .. made
      BY PoolPlaces
    <3>2. c \notin 1 .. made
      BY <1>0, <1>5
    <3> QED
      BY <1>5, <2>2, <3>1, <3>2 DEF Occurs
  <2>4. Once(Append(q, c))
    BY <2>2, <2>3, AppendedOnce
  <2>5. Append(q, c) \in Seq(1 .. made + 1)
    <3>1. 1 .. made \subseteq 1 .. made + 1 /\ c \in 1 .. made + 1
      BY <1>0, <1>5
    <3>2. q \in Seq(1 .. made + 1)
      <4>1. made + 1 \in Nat /\ made =< made + 1
        BY <1>0
      <4> QED
        BY <1>0, <4>1, MoreNumbers
    <3> QED
      BY <3>1, <3>2, AppendProperties
  <2>6. \A d : Occurs(d, Append(q, c)) => Occurs(d, q) \/ d = c
    <3>1. PICK v : v = Append(q, c)
      OBVIOUS
    <3>2. Len(v) = Len(q) + 1 /\ Len(q) \in Nat /\ (\A n \in 1 .. Len(q) : v[n] = q[n]) /\ v[Len(q) + 1] = c
      BY <3>1
    <3>3. \A n \in 1 .. Len(v) : n \in 1 .. Len(q) \/ n = Len(q) + 1
      BY <3>2
    <3>4. \A d : Occurs(d, v) => Occurs(d, q) \/ d = c
      BY <3>2, <3>3 DEF Occurs
    <3> QED
      BY <3>1, <3>4
  <2>7. pool' = Append(q, c)
    BY <1>5, <2>2
  <2>8. pool' \in Seq(1 .. made') /\ Once(pool') /\ \A d : Pooled(d)' => Pooled(d) \/ d = c
    BY <1>5, <2>2, <2>4, <2>5, <2>6, <2>7 DEF Pooled
  <2> QED
    BY <1>0, <1>1, <1>2, <1>3, <2>1, <2>8, JoinMoves
<1> QED
  BY <1>1, <1>4, <1>5 DEF G!Choose

LEMMA ResumePool ==
  ASSUME PoolInv, NEW t \in Tasks, G!Resume(t)
  PROVE  PoolInv'
<1>0. G!TypeOK /\ pc[t] = "woken" /\ MaxClients \in Nat
  BY PoolAssumption DEF PoolInv, G!Resume
<1>1. PICK c, s : c = client[t] /\ s = sym[t]
  OBVIOUS
<1>2. c \in 1 .. made /\ c \in G!Clients /\ s \in Watched /\ made \in 0 .. MaxClients
  BY <1>0, <1>1 DEF PoolInv, UnmadeAreNew, G!TypeOK, G!Clients
<1>3. made \in made .. MaxClients /\ c =< made
  BY <1>0, <1>2
<1>4. UNCHANGED <<pool, made, streams, overtaken, sym, client>>
  BY DEF G!Resume
<1>5. /\ client' \in [Tasks -> 0 .. MaxClients] /\ sym' \in [Tasks -> Watched] /\ client'[t] = c
      /\ \A r \in Tasks \ {t} : client'[r] = client[r]
      /\ pool' \in Seq(1 .. made') /\ Once(pool') /\ \A d : Pooled(d)' => Pooled(d)
      /\ made' \in made .. MaxClients /\ c =< made'
  BY <1>0, <1>1, <1>3, <1>4, PoolPlaces DEF G!TypeOK, Pooled
<1>6. \/ G!Join(t, c, s)
      \/ link[c] = "down" /\ UNCHANGED <<link, dialer>> /\ G!Register(t, c, s, pc)
  BY <1>1 DEF G!Resume
<1> QED
  BY <1>0, <1>2, <1>4, <1>5, <1>6, JoinMoves

(* The dial ends, and the dialer registers whatever came of it.            *)
LEMMA DialMoves ==
  ASSUME PoolInv, NEW c \in G!Clients, G!DialOk(c) \/ G!DialFail(c)
  PROVE  PoolInv'
<1>0. G!TypeOK /\ DialersWait /\ UnmadeAreNew /\ Used /\ link[c] = "dialing"
  BY DEF PoolInv, G!DialOk, G!DialFail
<1>1. PICK t \in dialer[c], l \in {"up", "down"}, label \in {"woken", "idle"} :
        /\ link' = [link EXCEPT ![c] = l] /\ dialer' = [dialer EXCEPT ![c] = {}]
        /\ G!Register(t, c, sym[t], G!Move(pc, G!Waiting(c), label))
  BY DEF G!DialOk, G!DialFail
<1>2. UNCHANGED <<pool, made, streams, overtaken, sym, client>>
  BY DEF G!DialOk, G!DialFail
<1>3. PICK pcs : pcs = G!Move(pc, G!Waiting(c), label)
  OBVIOUS
<1>4. /\ pcs \in [Tasks -> G!PCs]
      /\ \A r \in Tasks : pcs[r] = pc[r] \/ (client[r] = c /\ pc[r] = "connect")
  BY <1>0, <1>3 DEF G!Move, G!Waiting, G!PCs, G!TypeOK
<1>5. t \in Tasks /\ sym[t] \in Watched /\ pc[t] = "connect" /\ client[t] = c
  BY <1>0 DEF G!TypeOK, DialersWait
<1>6. /\ link'[c] = l /\ dialer'[c] = {} /\ link[c] # "up"
      /\ \A d \in G!Clients : d # c => link'[d] = link[d] /\ dialer'[d] = dialer[d]
  BY <1>0, <1>1 DEF G!TypeOK
<1>7. /\ \A d \in G!Clients : Clean(d)'
      /\ subscribed' \in [G!Clients -> SUBSET Watched] /\ wire' \in [G!Clients -> Seq(G!Commands)]
      /\ pc' \in [Tasks -> G!PCs] /\ pc'[t] = "idle" /\ \A r \in Tasks \ {t} : pc'[r] = pcs[r]
      /\ subscribed'[c] = subscribed[c] \cup {sym[t]}
      /\ \A d \in G!Clients \ {c} : subscribed'[d] = subscribed[d]
  BY <1>1, <1>2, <1>3, <1>4, <1>5, <1>6, TaskRegisters
<1>8. G!TypeOK'
  BY <1>0, <1>1, <1>2, <1>7 DEF G!TypeOK
<1>9. DialersWait'
  <2>1. ASSUME NEW d \in G!Clients, NEW r \in dialer'[d]
        PROVE  pc'[r] = "connect" /\ client'[r] = d
    <3>1. d # c /\ r \in dialer[d]
      BY <1>6, <2>1
    <3>2. r \in Tasks /\ pc[r] = "connect" /\ client[r] = d
      BY <1>0, <3>1 DEF G!TypeOK, DialersWait
    <3>3. r # t /\ pcs[r] = pc[r]
      BY <1>4, <1>5, <3>1, <3>2
    <3> QED
      BY <1>2, <1>7, <3>2, <3>3
  <2> QED
    BY <2>1 DEF DialersWait
<1>10. UnmadeAreNew'
  <2>1. ASSUME NEW r \in Tasks, pc'[r] # "idle"
        PROVE  client[r] \in 1 .. made
    <3>1. r # t /\ pc[r] # "idle"
      BY <1>4, <1>7, <2>1
    <3> QED
      BY <1>0, <3>1 DEF UnmadeAreNew
  <2>2. \A d \in G!Clients : d > made => d # c
    BY <1>0 DEF UnmadeAreNew
  <2> QED
    BY <1>0, <1>2, <1>6, <2>1, <2>2 DEF UnmadeAreNew
<1>11. Used'
  <2>1. \A d : Pooled(d)' = Pooled(d)
    BY <1>2 DEF Pooled
  <2> QED
    BY <1>0, <1>6, <1>7, <2>1 DEF Used
<1> QED
  BY <1>7, <1>8, <1>9, <1>10, <1>11 DEF PoolInv

(* unwatch_orderbook()                                                     *)
LEMMA UnwatchPool ==
  ASSUME PoolInv, NEW s \in Watched, G!Unwatch(s)
  PROVE  PoolInv'
<1>0. G!TypeOK /\ DialersWait /\ UnmadeAreNew /\ Used /\ \A d \in G!Clients : Clean(d)
  BY DEF PoolInv
<1>1. PICK k : k = G!Min(G!Having(s))
  OBVIOUS
<1>2. PICK c : c = pool[k]
  OBVIOUS
<1>3. k \in DOMAIN pool /\ s \in subscribed[c]
  <2>1. G!Having(s) # {} /\ G!Having(s) \subseteq DOMAIN pool
    BY DEF G!Unwatch, G!Having
  <2>2. G!Having(s) \in SUBSET Nat
    BY <2>1, PoolPlaces
  <2>3. k \in G!Having(s)
    BY <1>1, <2>1, <2>2, FirstPlace
  <2> QED
    BY <1>2, <2>3 DEF G!Having
<1>4. c \in G!Clients /\ k \in 1 .. Len(pool)
  BY <1>2, <1>3, PoolPlaces
<1>5. /\ subscribed' = [subscribed EXCEPT ![c] = @ \ {s}]
      /\ IF link[c] = "up"
         THEN /\ wire' = [wire EXCEPT ![c] = Append(@, G!Command("UNSUBSCRIBE", s))]
              /\ pool' = IF subscribed[c] = {s} THEN G!RemoveAt(pool, k) ELSE pool
         ELSE wire' = wire /\ pool' = pool
      /\ UNCHANGED <<made, link, dialer, streams, overtaken, pc, sym, client>>
  BY <1>1, <1>2 DEF G!Unwatch
<1>6. /\ subscribed' \in [G!Clients -> SUBSET Watched] /\ subscribed'[c] = subscribed[c] \ {s}
      /\ \A d \in G!Clients \ {c} : subscribed'[d] = subscribed[d]
  BY <1>0, <1>4, <1>5 DEF G!TypeOK
<1>7. /\ wire' \in [G!Clients -> Seq(G!Commands)]
      /\ wire'[c] = (IF link[c] = "up" THEN Append(wire[c], G!Command("UNSUBSCRIBE", s)) ELSE wire[c])
      /\ \A d \in G!Clients \ {c} : wire'[d] = wire[d]
  <2>1. G!Command("UNSUBSCRIBE", s) \in G!Commands
    BY DEF G!Command, G!Commands
  <2>2. wire[c] \in Seq(G!Commands) /\ wire \in [G!Clients -> Seq(G!Commands)]
    BY <1>0, <1>4 DEF G!TypeOK
  <2>3. Append(wire[c], G!Command("UNSUBSCRIBE", s)) \in Seq(G!Commands)
    BY <2>1, <2>2, AppendProperties
  <2> QED
    BY <1>4, <1>5, <2>2, <2>3
<1>8. /\ pool' \in Seq(1 .. made) /\ Once(pool')
      /\ \A d : Pooled(d)' => Pooled(d)
      /\ link[c] = "up" /\ subscribed[c] = {s} => ~Pooled(c)'
  <2>1. CASE link[c] = "up" /\ subscribed[c] = {s}
    <3>1. pool' = Without(pool, k)
      BY <1>5, <2>1 DEF G!RemoveAt, Without
    <3>2. PICK q \in Seq(1 .. made) : q = pool /\ Once(q) /\ k \in 1 .. Len(q) /\ q[k] = c
      BY <1>0, <1>2, <1>4, PoolPlaces DEF G!TypeOK
    <3>3. /\ Without(q, k) \in Seq(1 .. made) /\ Once(Without(q, k))
          /\ \A v : Occurs(v, Without(q, k)) <=> v # c /\ Occurs(v, q)
      BY <3>2, WithoutPlace, WithoutElement
    <3> QED
      BY <3>1, <3>2, <3>3 DEF Pooled
  <2>2. CASE ~(link[c] = "up" /\ subscribed[c] = {s})
    <3>1. pool' = pool
      BY <1>5, <2>2
    <3> QED
      BY <1>0, <2>2, <3>1, PoolPlaces DEF G!TypeOK, Pooled
  <2> QED
    BY <2>1, <2>2
<1>9. Clean(c)'
  <2>1. IsFiniteSet(subscribed[c] \ {s}) /\ Quiet(c) /\ Word(c)
    BY <1>0, <1>4, FS_RemoveElement DEF Clean
  <2>2. Quiet(c)'
    BY <1>5, <1>7, <2>1 DEF Quiet
  <2>3. CASE link[c] = "up"
    <3>1. PICK w \in Seq(G!Commands), st \in SUBSET Watched, reg \in SUBSET Watched, less \in SUBSET Watched :
            /\ w = wire[c] /\ st = streams[c] /\ reg = subscribed[c] \cup overtaken[c]
            /\ less = (subscribed[c] \ {s}) \cup overtaken[c]
      BY <1>0, <1>4 DEF G!TypeOK
    <3>2. Heeded(w, st, reg) /\ reg \subseteq less \cup {s}
      BY <2>1, <3>1 DEF Word
    <3>3. Heeded(Append(w, G!Command("UNSUBSCRIBE", s)), st, less)
      BY <3>2, UnsubscribeHeeded
    <3>4. wire'[c] = Append(w, G!Command("UNSUBSCRIBE", s)) /\ streams'[c] = st
          /\ subscribed'[c] \cup overtaken'[c] = less
      BY <1>5, <1>6, <1>7, <2>3, <3>1
    <3> QED
      BY <1>6, <2>1, <2>2, <3>3, <3>4 DEF Clean, Word
  <2>4. CASE link[c] # "up"
    <3>1. wire'[c] = << >> /\ streams'[c] = {} /\ Len(<< >>) = 0
      BY <1>5, <1>7, <2>1, <2>4 DEF Quiet
    <3> QED
      BY <1>6, <2>1, <2>2, <3>1 DEF Clean, Word, Heeded
  <2> QED
    BY <2>3, <2>4
<1>10. ASSUME NEW d \in G!Clients, d # c PROVE Clean(d)'
  BY <1>0, <1>5, <1>6, <1>7, <1>10, StaysClean
<1>11. G!TypeOK'
  <2>1. G!IsInjective(pool') /\ pool' \in Seq(1 .. made')
    BY <1>5, <1>8 DEF Once, G!IsInjective
  <2> QED
    BY <1>0, <1>5, <1>6, <1>7, <2>1 DEF G!TypeOK
<1>12. DialersWait' /\ UnmadeAreNew'
  BY <1>0, <1>5 DEF DialersWait, UnmadeAreNew
<1>13. Used'
  <2>1. ASSUME NEW d \in G!Clients, Pooled(d)', link'[d] = "up" PROVE subscribed'[d] # {}
    <3>1. Pooled(d) /\ link[d] = "up" /\ subscribed[d] # {}
      BY <1>0, <1>5, <1>8, <2>1 DEF Used
    <3>2. CASE d = c
      <4>1. subscribed[c] # {s}
        BY <1>5, <1>8, <2>1, <3>2
      <4> QED
        BY <1>3, <1>6, <3>2, <4>1
    <3> QED
      BY <1>6, <3>1, <3>2
  <2> QED
    BY <2>1 DEF Used
<1> QED
  BY <1>9, <1>10, <1>11, <1>12, <1>13 DEF PoolInv

(* A command leaves, and a socket closes.                                  *)
LEMMA TransmitMoves ==
  ASSUME PoolInv, NEW c \in G!Clients, NEW n \in DOMAIN wire[c], G!Transmit(c, n)
  PROVE  PoolInv'
<1>0. G!TypeOK /\ DialersWait /\ UnmadeAreNew /\ Used /\ \A d \in G!Clients : Clean(d)
  BY DEF PoolInv
<1>1. PICK w \in Seq(G!Commands) : w = wire[c]
  BY <1>0 DEF G!TypeOK
<1>2. n \in 1 .. Len(w) /\ w[n].of \in Watched
  <2>1. n \in 1 .. Len(w) /\ w[n] \in G!Commands
    BY <1>1
  <2> QED
    BY <2>1 DEF G!Commands
<1>3. PICK st2, more :
        /\ st2 = (IF w[n].op = "SUBSCRIBE" THEN streams[c] \cup {w[n].of} ELSE streams[c] \ {w[n].of})
        /\ more = (IF G!Overtakes(c, n) THEN overtaken[c] \cup {w[n].of} ELSE overtaken[c])
  OBVIOUS
<1>4. /\ link[c] = "up" /\ UNCHANGED <<pool, made, subscribed, link, dialer, pc, sym, client>>
      /\ wire' = [wire EXCEPT ![c] = Without(w, n)]
      /\ streams' = [streams EXCEPT ![c] = st2]
      /\ overtaken' = [overtaken EXCEPT ![c] = more]
  BY <1>1, <1>3 DEF G!Transmit, G!RemoveAt, Without
<1>5. Without(w, n) \in Seq(G!Commands)
  BY <1>2, WithoutPlace
<1>6. st2 \in SUBSET Watched /\ more \in SUBSET Watched
  BY <1>0, <1>2, <1>3 DEF G!TypeOK
<1>7. G!TypeOK'
  BY <1>0, <1>4, <1>5, <1>6 DEF G!TypeOK
<1>8. /\ wire'[c] = Without(w, n) /\ streams'[c] = st2 /\ overtaken'[c] = more
      /\ \A d \in G!Clients : d # c => wire'[d] = wire[d] /\ streams'[d] = streams[d] /\ overtaken'[d] = overtaken[d]
  BY <1>0, <1>4 DEF G!TypeOK
<1>9. Clean(c)'
  <2>1. Heeded(w, streams[c], subscribed[c] \cup overtaken[c]) /\ IsFiniteSet(subscribed[c])
    BY <1>0, <1>1 DEF Clean, Word
  <2>2. (\E k \in 1 .. Len(w) : k < n /\ w[k].of = w[n].of) => w[n].of \in more
    <3>1. ASSUME NEW k \in 1 .. Len(w), k < n, w[k].of = w[n].of PROVE G!Overtakes(c, n)
      <4>1. k \in 1 .. (n - 1)
        BY <1>2, <3>1
      <4> QED
        BY <1>1, <3>1, <4>1 DEF G!Overtakes
    <3> QED
      BY <1>3, <3>1
  <2>3. Heeded(Without(w, n), st2, subscribed[c] \cup more)
    <3>1. subscribed[c] \cup overtaken[c] \subseteq subscribed[c] \cup more
      BY <1>3
    <3>2. (\E k \in 1 .. Len(w) : k < n /\ w[k].of = w[n].of) => w[n].of \in subscribed[c] \cup more
      BY <2>2
    <3> QED
      BY <1>2, <1>3, <2>1, <3>1, <3>2, TransmitHeeded
  <2> QED
    BY <1>4, <1>8, <2>1, <2>3 DEF Clean, Word, Quiet
<1>10. ASSUME NEW d \in G!Clients, d # c PROVE Clean(d)'
  BY <1>0, <1>4, <1>8, <1>10, StaysClean
<1>11. DialersWait' /\ UnmadeAreNew'
  BY <1>0, <1>4 DEF DialersWait, UnmadeAreNew
<1>12. Used'
  BY <1>0, <1>4 DEF Used, Pooled
<1> QED
  BY <1>7, <1>9, <1>10, <1>11, <1>12 DEF PoolInv

LEMMA CloseMoves ==
  ASSUME PoolInv, NEW c \in G!Clients, G!Fail(c)
  PROVE  PoolInv'
<1>0. G!TypeOK /\ DialersWait /\ UnmadeAreNew /\ Used /\ \A d \in G!Clients : Clean(d)
  BY DEF PoolInv
<1>1. /\ link' = [link EXCEPT ![c] = "down"] /\ subscribed' = [subscribed EXCEPT ![c] = {}]
      /\ wire' = [wire EXCEPT ![c] = << >>] /\ streams' = [streams EXCEPT ![c] = {}]
      /\ overtaken' = [overtaken EXCEPT ![c] = {}]
      /\ UNCHANGED <<pool, made, dialer, pc, sym, client>>
  BY DEF G!Fail
<1>2. /\ link'[c] = "down" /\ subscribed'[c] = {} /\ wire'[c] = << >> /\ streams'[c] = {}
      /\ \A d \in G!Clients : d # c =>
           /\ link'[d] = link[d] /\ subscribed'[d] = subscribed[d] /\ wire'[d] = wire[d]
           /\ streams'[d] = streams[d] /\ overtaken'[d] = overtaken[d]
  BY <1>0, <1>1 DEF G!TypeOK
<1>3. G!TypeOK'
  <2>1. << >> \in Seq(G!Commands)
    OBVIOUS
  <2> QED
    BY <1>0, <1>1, <2>1 DEF G!TypeOK
<1>4. Clean(c)'
  <2>1. IsFiniteSet({}) /\ Len(<< >>) = 0
    BY FS_EmptySet
  <2> QED
    BY <1>2, <2>1 DEF Clean, Quiet, Word, Heeded
<1>5. ASSUME NEW d \in G!Clients, d # c PROVE Clean(d)'
  BY <1>0, <1>2, <1>5, StaysClean
<1>6. DialersWait' /\ UnmadeAreNew'
  BY <1>0, <1>1, <1>2 DEF DialersWait, UnmadeAreNew
<1>7. Used'
  BY <1>0, <1>1, <1>2 DEF Used, Pooled
<1> QED
  BY <1>3, <1>4, <1>5, <1>6, <1>7 DEF PoolInv

LEMMA PoolCounted == \A S : G!Cardinality(S) = Cardinality(S)
  BY DEF G!Cardinality, Cardinality

LEMMA NextPool == PoolInv /\ [PartsNext]_parts => PoolInv'
<1> SUFFICES ASSUME PoolInv, [G!Next]_pools PROVE PoolInv'
  BY PoolMoves
<1>1. CASE UNCHANGED pools
  <2>1. /\ UNCHANGED <<pool, made, subscribed, link, dialer, wire, streams, overtaken, pc, sym, client>>
    BY <1>1 DEF pools
  <2>2. \A c \in G!Clients : Clean(c)'
    BY <2>1, StaysClean DEF PoolInv
  <2>3. G!TypeOK'
    <3>1. G!IsInjective(pool)' = G!IsInjective(pool)
      BY <2>1 DEF G!IsInjective
    <3> QED
      BY <2>1, <3>1 DEF PoolInv, G!TypeOK
  <2>4. DialersWait' /\ UnmadeAreNew' /\ Used'
    BY <2>1 DEF PoolInv, DialersWait, UnmadeAreNew, Used, Pooled
  <2> QED
    BY <2>2, <2>3, <2>4 DEF PoolInv
<1>2. CASE G!Next
  BY <1>2, WatchPool, ResumePool, DialMoves, UnwatchPool, TransmitMoves, CloseMoves DEF G!Next
<1> QED
  BY <1>1, <1>2

LEMMA PoolInvariant == PartsSpec => []PoolInv
<1>1. PartsInit => PoolInv
  BY InitPool DEF PartsInit
<1> QED
  BY <1>1, NextPool, PTL DEF PartsSpec

(* The pool keeps no socket open for nothing: a connected client that is   *)
(* listed has symbols.                                                     *)
THEOREM NoSocketIsKeptForNothing == PartsSpec => []PooledSocketsAreUsed
<1>1. PoolInv => PooledSocketsAreUsed
  BY DEF PoolInv, Used, Pooled, Occurs, PooledSocketsAreUsed, G!PooledSocketsAreUsed, G!Contains
<1> QED
  BY <1>1, PoolInvariant, PTL

(* Once its commands have left, a server streams nothing that its client   *)
(* forgot, unless one of the symbol's commands overtook an older one.      *)
THEOREM OnlyOvertakingOrphans == PartsSpec => []OrphansWereOvertaken
<1>1. ASSUME PoolInv, NEW c \in G!ToSet(pool),
             NEW s \in streams[c], ~\E n \in DOMAIN wire[c] : wire[c][n].of = s
      PROVE  s \in subscribed[c] \cup overtaken[c]
  <2>1. c \in G!Clients
    BY <1>1, PoolPlaces DEF G!ToSet
  <2>2. DOMAIN wire[c] = 1 .. Len(wire[c]) /\ Word(c)
    BY <1>1, <2>1 DEF PoolInv, G!TypeOK, Clean
  <2> QED
    BY <1>1, <2>2 DEF Word, Heeded
<1>2. PoolInv => OrphansWereOvertaken
  BY <1>1 DEF OrphansWereOvertaken, G!OrphansWereOvertaken
<1> QED
  BY <1>2, PoolInvariant, PTL

(* A client takes a symbol beyond its limit, and a symbol comes to be with *)
(* two clients of the pool, only for a task that chose the client before   *)
(* the dial.                                                               *)
THEOREM OnlyADialCrosses == PartsSpec => CrossingNeedsDial
<1> DEFINE Crosses(c, s) ==
      /\ s \in subscribed'[c] \ subscribed[c]
      /\ \/ G!Cardinality(subscribed'[c]) > Limit
         \/ \E d \in G!Clients \ {c} : s \in subscribed[d] /\ G!Contains(pool, d)
<1>1. ASSUME PoolInv, G!Next, NEW c \in G!Clients, NEW s \in Watched, Crosses(c, s)
      PROVE  G!ChosenBeforeDial(c, s)
  <2>0. G!TypeOK /\ DialersWait /\ UnmadeAreNew /\ IsFiniteSet(subscribed[c])
    BY <1>1 DEF PoolInv, Clean
  <2>1. subscribed'[c] # subscribed[c] /\ s \in subscribed'[c] /\ s \notin subscribed[c]
    BY <1>1
  <2>2. ASSUME NEW t \in Tasks, NEW d \in G!Clients, NEW x, NEW pcs, G!Register(t, d, x, pcs)
        PROVE  d = c /\ x = s /\ subscribed'[c] = subscribed[c] \cup {s}
    BY <2>0, <2>1, <2>2 DEF G!Register, G!TypeOK
  <2>3. CASE \E t \in Tasks, x \in Watched : G!Watch(t, x)
    <3>1. PICK t \in Tasks, x \in Watched, d \in G!Clients : G!Choose(t, x, d) /\ G!Join(t, d, x)
      BY <2>3 DEF G!Watch
    <3>2. link[d] = "up" /\ G!Register(t, d, x, pc)
      BY <2>1, <3>1 DEF G!Join
    <3>3. d = c /\ x = s /\ subscribed'[c] = subscribed[c] \cup {s} /\ link[c] = "up"
      BY <2>2, <3>2
    <3>4. G!Candidates(s) # {} /\ c = pool[G!Min(G!Candidates(s))]
      <4>1. c # made + 1
        <5>1. made \in Nat /\ made + 1 > made
          BY <2>0, PoolAssumption DEF G!TypeOK
        <5> QED
          BY <2>0, <3>3, <5>1 DEF UnmadeAreNew
      <4> QED
        BY <3>1, <3>3, <4>1 DEF G!Choose
    <3>5. PICK k \in DOMAIN pool : k \in G!Candidates(s) /\ c = pool[k]
      BY <1>1, <3>4, ChosenPlace
    <3>6. G!Having(s) = {} /\ k \in G!Roomy
      BY <2>1, <3>5 DEF G!Candidates, G!Having
    <3>7. ~\E d2 \in G!Clients : s \in subscribed[d2] /\ G!Contains(pool, d2)
      <4>1. DOMAIN pool = 1 .. Len(pool)
        BY <1>1, PoolPlaces
      <4> QED
        BY <3>6, <4>1 DEF G!Having, G!Contains
    <3>8. Cardinality(subscribed'[c]) =< Limit /\ Cardinality(subscribed'[c]) \in Nat
      <4>1. Cardinality(subscribed[c]) < Limit
        BY <3>5, <3>6, PoolCounted DEF G!Roomy
      <4>2. Cardinality(subscribed[c]) \in Nat /\ Cardinality(subscribed'[c]) = Cardinality(subscribed[c]) + 1
        BY <2>0, <2>1, <3>3, FS_CardinalityType, FS_AddElement
      <4> QED
        BY <4>1, <4>2, PoolAssumption
    <3>9. ~(G!Cardinality(subscribed'[c]) > Limit)
      BY <3>8, PoolCounted, PoolAssumption
    <3> QED
      BY <1>1, <3>7, <3>9
  <2>4. CASE \E t \in Tasks : G!Resume(t)
    <3>1. PICK t \in Tasks : G!Resume(t)
      BY <2>4
    <3>2. client[t] \in G!Clients
      <4>1. client[t] \in 1 .. made /\ made \in 0 .. MaxClients
        BY <2>0, <3>1 DEF G!Resume, UnmadeAreNew, G!TypeOK
      <4> QED
        BY <4>1, PoolAssumption DEF G!Clients
    <3>3. G!Register(t, client[t], sym[t], pc) /\ pc[t] = "woken"
      BY <2>1, <3>1 DEF G!Resume, G!Join
    <3>4. client[t] = c /\ sym[t] = s
      BY <2>2, <3>2, <3>3
    <3> QED
      BY <3>3, <3>4 DEF G!ChosenBeforeDial
  <2>5. CASE \E d \in G!Clients : G!DialOk(d) \/ G!DialFail(d)
    <3>0. PICK d \in G!Clients : G!DialOk(d) \/ G!DialFail(d)
      BY <2>5
    <3>1. PICK t \in dialer[d] : \E pcs : G!Register(t, d, sym[t], pcs)
      BY <3>0 DEF G!DialOk, G!DialFail
    <3>2. t \in Tasks /\ pc[t] = "connect" /\ client[t] = d
      BY <2>0 DEF G!TypeOK, DialersWait
    <3>3. d = c /\ sym[t] = s
      BY <2>2, <3>1, <3>2
    <3> QED
      BY <3>2, <3>3 DEF G!ChosenBeforeDial
  <2>6. CASE \E x \in Watched : G!Unwatch(x)
    <3>1. PICK x, d : subscribed' = [subscribed EXCEPT ![d] = @ \ {x}]
      BY <2>6 DEF G!Unwatch
    <3> QED
      BY <2>0, <2>1, <3>1 DEF G!TypeOK
  <2>7. CASE \E d \in G!Clients : G!Fail(d)
    <3>1. PICK d : subscribed' = [subscribed EXCEPT ![d] = {}]
      BY <2>7 DEF G!Fail
    <3> QED
      BY <2>0, <2>1, <3>1 DEF G!TypeOK
  <2>8. CASE \E d \in G!Clients : \E n \in DOMAIN wire[d] : G!Transmit(d, n)
    BY <2>1, <2>8 DEF G!Transmit
  <2> QED
    BY <1>1, <2>3, <2>4, <2>5, <2>6, <2>7, <2>8 DEF G!Next
<1>2. ASSUME PoolInv, G!Next
      PROVE  \A c \in G!Clients, s \in Watched : Crosses(c, s) => G!ChosenBeforeDial(c, s)
  BY <1>1, <1>2
<1>3. PoolInv /\ [PartsNext]_parts =>
        [\A c \in G!Clients, s \in Watched :
           /\ s \in subscribed'[c] \ subscribed[c]
           /\ \/ G!Cardinality(subscribed'[c]) > Limit
              \/ \E d \in G!Clients \ {c} : s \in subscribed[d] /\ G!Contains(pool, d)
           => G!ChosenBeforeDial(c, s)]_(G!vars)
  BY <1>2, PoolMoves DEF pools, G!vars
<1> QED
  BY <1>3, PoolInvariant, PTL DEF PartsSpec, CrossingNeedsDial, G!CrossingNeedsDial

-----------------------------------------------------------------------------
\* One of the parts moves.
Moves == part \in {"binance", "pools", "stream", "mexc", "monitor", "account", "plan", "channel"}

(* Every part keeps its types, whichever moves: no index leaves its        *)
(* sequence, no counter its range, and no client, book, catch or session   *)
(* has a state its code does not know.                                     *)
THEOREM PartsTypeCorrect == PartsSpec => []PartsTypeOK
<1>1. MexcInv => X!TypeOK
  <2> SUFFICES ASSUME MexcInv PROVE X!TypeOK
    OBVIOUS
  <2>1. ASSUME NEW c \in MexcClients
        PROVE  /\ pending[c] = DOMAIN msubscribed[c] /\ pending[c] \subseteq Symbols
               /\ X!Count(c) =< MaxSymbols
               /\ \A s \in DOMAIN msubscribed[c] : msubscribed[c][s] \in 0 .. MaxUpdates
    BY CardinalityAsCounted DEF MexcInv, Sound, Subs, X!Count
  <2>2. X!IsInjective(mpool)
    BY DEF MexcInv, MexcTypes, Once, X!IsInjective
  <2> QED
    BY <2>1, <2>2 DEF MexcInv, MexcTypes, Stages, X!TypeOK
<1>2. PartsInit => ChannelInv /\ Moves
  BY InitChannel DEF PartsInit, Moves
<1>3. ChannelInv /\ [PartsNext]_parts => ChannelInv'
  <2>1. [PartsNext]_parts => [Next]_vars
    BY DEF PartsNext, parts, channel
  <2> QED
    BY <2>1, NextChannel
<1>4. Moves /\ [PartsNext]_parts => Moves'
  BY DEF PartsNext, parts, Moves
<1>5. /\ Moves /\ BinanceInv /\ PoolInv /\ StreamInv /\ MexcInv /\ MonitorInv /\ AccountInv /\ PlanInv /\ ChannelInv
      => PartsTypeOK
  BY <1>1 DEF Moves, PartsTypeOK, BinanceInv, PoolInv, StreamInv, MonitorInv, AccountInv, PlanInv, ChannelInv
<1> QED
  BY <1>2, <1>3, <1>4, <1>5, BinanceInvariant, PoolInvariant, StreamInvariant, MexcInvariant,
     MonitorInvariant, AccountInvariant, PlanInvariant, PTL DEF PartsSpec
=============================================================================
