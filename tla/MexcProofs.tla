----------------------------- MODULE MexcProofs -----------------------------
(***************************************************************************)
(* Proofs about MEXC, as two parts of MC_Parts: its private orders         *)
(* (OrderStream) and its public books (MexcBook), for any number of catches, *)
(* clients and symbols.                                                    *)
(***************************************************************************)
EXTENDS PartsProofs

-----------------------------------------------------------------------------
(* MEXC's private orders.                                                  *)

StreamTypes ==
  /\ queue \in [Catches -> Seq(Nat)] /\ log \in [Catches -> Seq(Nat)]
  /\ got \in [Catches -> Seq(Nat)] /\ owed \in [Catches -> Seq(Nat)]
  /\ streaming \in BOOLEAN /\ arrived \in 0 .. MaxOrders

(* What a catch holds: its caller got the first orders of its log, and log *)
(* and channel are what it was owed.  One that is not made holds nothing.  *)
Kept(c) ==
  /\ last[c] \in 0 .. Len(log[c]) /\ got[c] = SubSeq(log[c], 1, last[c])
  /\ log[c] \o queue[c] = owed[c] /\ Len(owed[c]) =< arrived
  /\ waiting[c] = "asleep" => last[c] = Len(log[c])
  /\ symbol[c] = O!NoSymbol => ~filling[c] /\ waiting[c] = "no" /\ log[c] = << >> /\ queue[c] = << >>

(* Calls are for a catch that is not made, while there is no socket.       *)
CallsAreFirst ==
  ocall # << >> => \E c \in Catches, s \in Symbols :
                     /\ ocall = <<c, s, "listen_key">> \/ ocall = <<c, s, "handshake">>
                     /\ symbol[c] = O!NoSymbol /\ ~inited /\ socket < MaxSockets

(* Orders are asked for with the first catch, and on the first socket.     *)
AskedOnce ==
  /\ ~osubscribed => O!Made = {} /\ socket = 0
  /\ inited => osubscribed

(* The channels of a symbol are those of its catches whose tasks run; all  *)
(* of them, while orders stream.                                           *)
OfCatches == \A s \in DOMAIN opending : \A n \in 1 .. Len(opending[s]) :
               symbol[opending[s][n]] = s /\ filling[opending[s][n]]

AllConnected == streaming /\ ~panicked => \A c \in O!Made : filling[c] => O!Connected(c)

StreamInv ==
  /\ O!TypeOK /\ StreamTypes
  /\ \A c \in Catches : Kept(c)
  /\ CallsAreFirst /\ AskedOnce /\ OfCatches /\ AllConnected

LEMMA StreamMoves == [PartsNext]_parts => [O!Next]_stream
  BY DEF PartsNext, parts, stream

LEMMA InitStream == O!Init => StreamInv
<1> SUFFICES ASSUME O!Init PROVE StreamInv
  OBVIOUS
<1>1. O!Made = {}
  BY DEF O!Init, O!Made
<1>2. O!TypeOK
  <2>1. opending = << >> /\ DOMAIN << >> = {} /\ 0 \in 0 .. MaxOrders /\ 0 \in 0 .. MaxSockets
    BY StreamAssumption DEF O!Init
  <2> QED
    BY <2>1 DEF O!Init, O!TypeOK
<1>3. StreamTypes
  <2>1. << >> \in Seq(Nat) /\ 0 \in 0 .. MaxOrders
    BY StreamAssumption
  <2>2. /\ queue \in [Catches -> Seq(Nat)] /\ log \in [Catches -> Seq(Nat)]
        /\ got \in [Catches -> Seq(Nat)] /\ owed \in [Catches -> Seq(Nat)]
    BY <2>1 DEF O!Init
  <2> QED
    BY <2>1, <2>2 DEF O!Init, StreamTypes
<1>4. ASSUME NEW c \in Catches PROVE Kept(c)
  BY DEF O!Init, Kept
<1> QED
  BY <1>1, <1>2, <1>3, <1>4 DEF O!Init, StreamInv, CallsAreFirst, AskedOnce, OfCatches, AllConnected

(* What the invariant says of one catch.                                   *)
LEMMA OneCatch ==
  ASSUME StreamInv, NEW c \in Catches
  PROVE  /\ queue[c] \in Seq(Nat) /\ log[c] \in Seq(Nat) /\ got[c] \in Seq(Nat) /\ owed[c] \in Seq(Nat)
         /\ Kept(c) /\ arrived \in Nat /\ last[c] \in Nat /\ Len(log[c]) \in Nat
         /\ symbol[c] \in Symbols \cup {O!NoSymbol} /\ filling[c] \in BOOLEAN
         /\ (c \in O!Made) <=> (symbol[c] # O!NoSymbol)
<1>1. /\ queue[c] \in Seq(Nat) /\ log[c] \in Seq(Nat) /\ got[c] \in Seq(Nat) /\ owed[c] \in Seq(Nat)
      /\ arrived \in Nat
  BY DEF StreamInv, StreamTypes
<1>2. symbol[c] \in Symbols \cup {O!NoSymbol} /\ filling[c] \in BOOLEAN
  BY DEF StreamInv, O!TypeOK
<1>3. Kept(c) /\ last[c] \in 0 .. Len(log[c])
  BY DEF StreamInv, Kept
<1>4. Len(log[c]) \in Nat
  BY <1>1
<1>5. last[c] \in Nat
  BY <1>3
<1> QED
  BY <1>1, <1>2, <1>3, <1>4, <1>5 DEF O!Made

(* A catch stays what it is when orders come for others.                   *)
LEMMA KeptOn ==
  ASSUME NEW c \in Catches, Kept(c), arrived' \in Nat, arrived \in Nat, arrived =< arrived',
         owed[c] \in Seq(Nat),
         queue'[c] = queue[c], log'[c] = log[c], got'[c] = got[c], owed'[c] = owed[c],
         last'[c] = last[c], waiting'[c] = waiting[c],
         (symbol'[c] = symbol[c] /\ filling'[c] = filling[c]) \/ symbol'[c] # O!NoSymbol
  PROVE  Kept(c)'
<1>1. Len(owed'[c]) =< arrived'
  <2>1. PICK m \in Nat : m = Len(owed[c])
    OBVIOUS
  <2>2. m =< arrived
    BY <2>1 DEF Kept
  <2>3. m =< arrived'
    BY <2>2
  <2> QED
    BY <2>1, <2>3
<1>2. last'[c] \in 0 .. Len(log'[c]) /\ got'[c] = SubSeq(log'[c], 1, last'[c])
  BY DEF Kept
<1>3. log'[c] \o queue'[c] = owed'[c]
  BY DEF Kept
<1>4. waiting'[c] = "asleep" => last'[c] = Len(log'[c])
  BY DEF Kept
<1>5. symbol'[c] = O!NoSymbol => ~filling'[c] /\ waiting'[c] = "no" /\ log'[c] = << >> /\ queue'[c] = << >>
  BY DEF Kept
<1> QED
  BY <1>1, <1>2, <1>3, <1>4, <1>5 DEF Kept

(* A log and a channel hold no more than came.                             *)
LEMMA LogIsShort ==
  ASSUME StreamInv, NEW c \in Catches
  PROVE  Len(log[c]) =< MaxOrders
<1>1. Len(owed[c]) = Len(log[c]) + Len(queue[c]) /\ Len(queue[c]) \in Nat /\ Len(log[c]) \in Nat
  <2>1. log[c] \in Seq(Nat) /\ queue[c] \in Seq(Nat) /\ owed[c] = log[c] \o queue[c]
    BY OneCatch DEF Kept
  <2> QED
    BY <2>1, ConcatProperties
<1>2. Len(owed[c]) =< arrived /\ arrived =< MaxOrders /\ arrived \in Nat /\ MaxOrders \in Nat
  BY OneCatch, StreamAssumption DEF Kept, StreamInv, StreamTypes
<1>3. PICK a \in Nat, b \in Nat : a = Len(log[c]) /\ b = Len(queue[c])
  BY <1>1
<1>4. a + b =< arrived /\ arrived =< MaxOrders /\ arrived \in Nat /\ MaxOrders \in Nat
  BY <1>1, <1>2, <1>3
<1>5. a =< MaxOrders
  BY <1>4
<1> QED
  BY <1>3, <1>5

(* Registering a catch, whose channel is the last of its symbol's.         *)
LEMMA RegisterKeeps ==
  ASSUME StreamInv, NEW c \in Catches, NEW s \in Symbols, symbol[c] = O!NoSymbol, O!Register(c, s)
  PROVE  /\ symbol' \in [Catches -> Symbols \cup {O!NoSymbol}] /\ filling' \in [Catches -> BOOLEAN]
         /\ O!Made' = O!Made \cup {c}
         /\ DOMAIN opending' \subseteq Symbols
         /\ \A x \in DOMAIN opending' : opending'[x] \in Seq(O!Made') /\ O!IsInjective(opending'[x])
         /\ OfCatches'
         /\ \A d \in O!Made \cup {c} : filling'[d] /\ (d # c => O!Connected(d)) => O!Connected(d)'
         /\ \A d \in Catches : Kept(d)'
<1>1. /\ symbol' = [symbol EXCEPT ![c] = s] /\ filling' = [filling EXCEPT ![c] = TRUE]
      /\ opending' = [x \in DOMAIN opending \cup {s} |-> IF x = s THEN Append(O!Entry(s), c) ELSE opending[x]]
      /\ UNCHANGED <<queue, log, last, waiting, got, owed, arrived>>
  BY DEF O!Register
<1>2. /\ symbol \in [Catches -> Symbols \cup {O!NoSymbol}] /\ filling \in [Catches -> BOOLEAN]
      /\ DOMAIN opending \subseteq Symbols
      /\ \A x \in DOMAIN opending : opending[x] \in Seq(O!Made) /\ O!IsInjective(opending[x])
      /\ O!Made = {d \in Catches : symbol[d] # O!NoSymbol} /\ s # O!NoSymbol
  BY StreamAssumption DEF StreamInv, O!TypeOK, O!Made, O!NoSymbol
<1>3. /\ symbol' \in [Catches -> Symbols \cup {O!NoSymbol}] /\ filling' \in [Catches -> BOOLEAN]
      /\ symbol'[c] = s /\ filling'[c] /\ \A d \in Catches \ {c} : symbol'[d] = symbol[d] /\ filling'[d] = filling[d]
      /\ DOMAIN opending' = DOMAIN opending \cup {s}
      /\ opending'[s] = Append(O!Entry(s), c)
      /\ \A x \in DOMAIN opending \ {s} : opending'[x] = opending[x]
  BY <1>1, <1>2
<1>4. O!Made' = O!Made \cup {c} /\ c \notin O!Made
  BY <1>2, <1>3 DEF O!Made
<1>5. PICK e : e = O!Entry(s)
  OBVIOUS
<1>6. /\ e \in Seq(O!Made) /\ Once(e)
      /\ \A n \in 1 .. Len(e) : e[n] \in O!Made /\ symbol[e[n]] = s /\ filling[e[n]]
  <2>1. CASE s \in DOMAIN opending
    <3>1. e = opending[s]
      BY <1>5, <2>1 DEF O!Entry
    <3>2. e \in Seq(O!Made) /\ Once(e)
      BY <1>2, <2>1, <3>1 DEF O!IsInjective, Once
    <3> QED
      BY <2>1, <3>1, <3>2 DEF StreamInv, OfCatches
  <2>2. CASE s \notin DOMAIN opending
    BY <1>5, <2>2 DEF O!Entry, Once
  <2> QED
    BY <2>1, <2>2
<1>7. PICK q : q = opending'[s]
  OBVIOUS
<1>8. /\ q \in Seq(O!Made') /\ Len(q) = Len(e) + 1 /\ Len(e) \in Nat
      /\ \A n \in 1 .. Len(e) : q[n] = e[n]
      /\ q[Len(e) + 1] = c
      /\ Once(q)
  <2>1. q = Append(e, c)
    BY <1>3, <1>5, <1>7
  <2>2. ~Occurs(c, e)
    BY <1>4, <1>6 DEF Occurs
  <2>3. /\ q \in Seq(O!Made \cup {c}) /\ Len(q) = Len(e) + 1 /\ Len(e) \in Nat
        /\ (\A n \in 1 .. Len(e) : q[n] = e[n]) /\ q[Len(e) + 1] = c
    BY <1>6, <2>1, Appended
  <2>4. Once(q)
    BY <1>6, <2>1, <2>2, AppendedOnce
  <2> QED
    BY <1>4, <2>3, <2>4
<1>9. ASSUME NEW x \in DOMAIN opending'
      PROVE  opending'[x] \in Seq(O!Made') /\ O!IsInjective(opending'[x])
  <2>1. CASE x = s
    BY <1>7, <1>8, <2>1 DEF O!IsInjective, Once
  <2>2. CASE x # s
    <3>1. opending'[x] = opending[x] /\ opending[x] \in Seq(O!Made) /\ O!IsInjective(opending[x])
      BY <1>2, <1>3, <2>2
    <3>2. opending[x] \in Seq(O!Made')
      BY <1>4, <3>1, SeqMonotonic
    <3> QED
      BY <3>1, <3>2
  <2> QED
    BY <2>1, <2>2
<1>10. OfCatches'
  <2> SUFFICES ASSUME NEW x \in DOMAIN opending', NEW n \in 1 .. Len(opending'[x])
               PROVE  symbol'[opending'[x][n]] = x /\ filling'[opending'[x][n]]
    BY DEF OfCatches
  <2>1. CASE x = s
    <3>1. n \in 1 .. Len(e) \/ n = Len(e) + 1
      BY <1>7, <1>8, <2>1
    <3>2. CASE n \in 1 .. Len(e)
      <4>1. opending'[x][n] = e[n] /\ e[n] \in O!Made /\ symbol[e[n]] = s /\ filling[e[n]]
        BY <1>6, <1>7, <1>8, <2>1, <3>2
      <4>2. e[n] \in Catches \ {c}
        BY <1>2, <1>4, <4>1
      <4> QED
        BY <1>3, <2>1, <4>1, <4>2
    <3>3. CASE n = Len(e) + 1
      <4>1. opending'[x][n] = c
        BY <1>7, <1>8, <2>1, <3>3
      <4> QED
        BY <1>3, <2>1, <4>1
    <3> QED
      BY <3>1, <3>2, <3>3
  <2>2. CASE x # s
    <3>1. x \in DOMAIN opending /\ opending'[x] = opending[x] /\ opending[x] \in Seq(O!Made)
      BY <1>2, <1>3, <2>2
    <3>2. opending[x][n] \in O!Made /\ symbol[opending[x][n]] = x /\ filling[opending[x][n]]
      BY <3>1 DEF StreamInv, OfCatches
    <3> QED
      BY <1>2, <1>3, <1>4, <3>1, <3>2
  <2> QED
    BY <2>1, <2>2
<1>11. ASSUME NEW d \in O!Made \cup {c}, filling'[d], d # c => O!Connected(d)
       PROVE  O!Connected(d)'
  <2>1. CASE d = c
    <3>1. symbol'[d] = s /\ s \in DOMAIN opending' /\ Len(e) + 1 \in 1 .. Len(q)
      BY <1>3, <1>8, <2>1
    <3> QED
      BY <1>7, <1>8, <2>1, <3>1 DEF O!Connected, O!Contains
  <2>2. CASE d # c
    <3>1. d \in Catches /\ symbol'[d] = symbol[d] /\ O!Connected(d)
      BY <1>2, <1>3, <1>11, <2>2
    <3>2. PICK n \in 1 .. Len(opending[symbol[d]]) : symbol[d] \in DOMAIN opending /\ opending[symbol[d]][n] = d
      BY <3>1 DEF O!Connected, O!Contains
    <3>3. CASE symbol[d] = s
      <4>1. e = opending[s]
        BY <1>5, <3>2, <3>3 DEF O!Entry
      <4>2. n \in 1 .. Len(q) /\ q[n] = d
        BY <1>8, <3>2, <3>3, <4>1
      <4> QED
        BY <1>3, <1>7, <3>1, <3>3, <4>2 DEF O!Connected, O!Contains
    <3>4. CASE symbol[d] # s
      BY <1>3, <3>1, <3>2, <3>4 DEF O!Connected, O!Contains
    <3> QED
      BY <3>3, <3>4
  <2> QED
    BY <2>1, <2>2
<1>12. ASSUME NEW d \in Catches PROVE Kept(d)'
  <2>1. Kept(d) /\ arrived \in Nat /\ owed[d] \in Seq(Nat)
    BY OneCatch
  <2>2. (symbol'[d] = symbol[d] /\ filling'[d] = filling[d]) \/ symbol'[d] # O!NoSymbol
    BY <1>2, <1>3
  <2>3. arrived' \in Nat /\ arrived =< arrived'
    BY <1>1, <2>1
  <2>4. /\ queue'[d] = queue[d] /\ log'[d] = log[d] /\ got'[d] = got[d] /\ owed'[d] = owed[d]
        /\ last'[d] = last[d] /\ waiting'[d] = waiting[d]
    BY <1>1
  <2> QED
    BY <2>1, <2>2, <2>3, <2>4, KeptOn
<1> QED
  BY <1>2, <1>3, <1>4, <1>9, <1>10, <1>11, <1>12

(* Who did not register, and owns no channel that was changed, stays.      *)
LEMMA StreamStays ==
  ASSUME StreamInv, UNCHANGED <<opending, symbol, queue, filling, log, last, waiting, got, owed, arrived, panicked>>,
         inited' \in BOOLEAN, UNCHANGED <<osubscribed, socket, streaming>>, oup' \in BOOLEAN,
         inited' => osubscribed, CallsAreFirst'
  PROVE  StreamInv'
<1>1. O!TypeOK' /\ StreamTypes'
  BY DEF StreamInv, O!TypeOK, StreamTypes, O!Made
<1>2. ASSUME NEW c \in Catches PROVE Kept(c)'
  <2>1. Kept(c)
    BY DEF StreamInv
  <2> QED
    BY <2>1 DEF Kept
<1>3. AskedOnce' /\ OfCatches' /\ AllConnected'
  BY DEF StreamInv, AskedOnce, OfCatches, AllConnected, O!Made, O!Connected
<1> QED
  BY <1>1, <1>2, <1>3 DEF StreamInv

(* catch_orders(), its socket, and the socket's failure.                   *)
LEMMA CallMoves ==
  ASSUME StreamInv, ~panicked,
         \/ O!ListenKey \/ O!Handshake \/ O!CallFails \/ O!Fail
         \/ \E s \in Symbols, c \in Catches : O!Catch(c, s)
  PROVE  StreamInv'
<1>0. /\ O!TypeOK /\ StreamTypes /\ CallsAreFirst /\ AskedOnce /\ OfCatches /\ AllConnected
      /\ \A c \in Catches : Kept(c)
  BY DEF StreamInv
<1>1. CASE O!ListenKey
  <2>1. UNCHANGED <<inited, osubscribed, socket, oup, streaming, opending, symbol, queue, filling, log, last,
                    waiting, got, owed, arrived, panicked>>
    BY <1>1 DEF O!ListenKey, O!ws, O!catch
  <2>2. ocall' = [ocall EXCEPT ![3] = "handshake"] /\ ocall # << >>
    BY <1>1 DEF O!ListenKey
  <2>3. CallsAreFirst'
    <3>1. PICK c \in Catches, s \in Symbols :
            /\ ocall = <<c, s, "listen_key">> \/ ocall = <<c, s, "handshake">>
            /\ symbol[c] = O!NoSymbol /\ ~inited /\ socket < MaxSockets
      BY <1>0, <2>2 DEF CallsAreFirst
    <3>2. CASE ocall = <<c, s, "listen_key">>
      BY <2>1, <2>2, <3>1, <3>2 DEF CallsAreFirst
    <3>3. CASE ocall = <<c, s, "handshake">>
      BY <2>1, <2>2, <3>1, <3>3 DEF CallsAreFirst
    <3> QED
      BY <3>1, <3>2, <3>3
  <2> QED
    BY <1>0, <2>1, <2>3, StreamStays DEF O!TypeOK, AskedOnce
<1>2. CASE O!CallFails
  BY <1>0, <1>2, StreamStays DEF O!CallFails, O!ws, O!catch, O!TypeOK, AskedOnce, CallsAreFirst
<1>3. CASE O!Fail
  <2>1. /\ oup' = FALSE /\ streaming' = FALSE /\ inited' = FALSE /\ opending' = << >>
        /\ UNCHANGED <<ocall, osubscribed, socket, symbol, queue, filling, log, last, waiting, got, owed,
                       arrived, panicked>>
    BY <1>3 DEF O!Fail, O!catch
  <2>2. DOMAIN opending' = {} /\ O!Made' = O!Made
    BY <2>1 DEF O!Made
  <2>3. O!TypeOK'
    BY <1>0, <2>1, <2>2 DEF O!TypeOK
  <2>4. StreamTypes'
    BY <1>0, <2>1 DEF StreamTypes
  <2>5. ASSUME NEW c \in Catches PROVE Kept(c)'
    BY <1>0, <2>1 DEF Kept
  <2>6. CallsAreFirst'
    BY <1>0, <2>1 DEF CallsAreFirst
  <2>7. AskedOnce'
    BY <1>0, <2>1, <2>2 DEF AskedOnce
  <2>8. OfCatches' /\ AllConnected'
    BY <2>1, <2>2 DEF OfCatches, AllConnected
  <2> QED
    BY <2>3, <2>4, <2>5, <2>6, <2>7, <2>8 DEF StreamInv
<1>4. ASSUME NEW s \in Symbols, NEW c \in Catches, symbol[c] = O!NoSymbol, O!Register(c, s),
             ocall' = << >>, inited' = TRUE, oup' \in BOOLEAN, socket' \in 0 .. MaxSockets,
             streaming' \in BOOLEAN, streaming' => socket' = 1, streaming' => streaming \/ ~osubscribed
      PROVE  StreamInv'
  <2>1. osubscribed' = TRUE /\ UNCHANGED <<queue, log, last, waiting, got, owed, arrived, panicked>>
    BY <1>4 DEF O!Register
  <2>2. /\ symbol' \in [Catches -> Symbols \cup {O!NoSymbol}] /\ filling' \in [Catches -> BOOLEAN]
        /\ O!Made' = O!Made \cup {c}
        /\ DOMAIN opending' \subseteq Symbols
        /\ \A x \in DOMAIN opending' : opending'[x] \in Seq(O!Made') /\ O!IsInjective(opending'[x])
        /\ OfCatches'
        /\ \A d \in O!Made \cup {c} : filling'[d] /\ (d # c => O!Connected(d)) => O!Connected(d)'
        /\ \A d \in Catches : Kept(d)'
    BY <1>4, RegisterKeeps
  <2>3. O!TypeOK'
    BY <1>0, <1>4, <2>1, <2>2 DEF O!TypeOK, O!IsInjective
  <2>4. StreamTypes'
    BY <1>0, <1>4, <2>1 DEF StreamTypes
  <2>5. CallsAreFirst' /\ AskedOnce'
    BY <1>4, <2>1 DEF CallsAreFirst, AskedOnce
  <2>6. AllConnected'
    <3> SUFFICES ASSUME streaming', NEW d \in O!Made', filling'[d] PROVE O!Connected(d)'
      BY DEF AllConnected
    <3>1. d # c => d \in O!Made /\ filling[d]
      BY <1>4, <2>2 DEF O!Register, O!Made
    <3>2. d # c => O!Connected(d)
      <4>1. streaming \/ O!Made = {}
        BY <1>0, <1>4 DEF AskedOnce
      <4> QED
        BY <1>0, <3>1, <4>1 DEF AllConnected
    <3> QED
      BY <2>2, <3>2
  <2> QED
    BY <2>2, <2>3, <2>4, <2>5, <2>6 DEF StreamInv
<1>5. CASE O!Handshake
  <2>1. /\ ocall # << >> /\ socket' = socket + 1 /\ oup' = TRUE /\ inited' = TRUE
        /\ O!Register(ocall[1], ocall[2]) /\ streaming' = ~osubscribed /\ ocall' = << >>
    BY <1>5 DEF O!Handshake
  <2>2. /\ ocall[1] \in Catches /\ ocall[2] \in Symbols /\ symbol[ocall[1]] = O!NoSymbol
        /\ socket < MaxSockets
    <3>1. PICK c \in Catches, s \in Symbols :
            /\ ocall = <<c, s, "listen_key">> \/ ocall = <<c, s, "handshake">>
            /\ symbol[c] = O!NoSymbol /\ ~inited /\ socket < MaxSockets
      BY <1>0, <2>1 DEF CallsAreFirst
    <3>2. ocall[1] = c /\ ocall[2] = s
      BY <3>1
    <3> QED
      BY <3>1, <3>2
  <2>3. /\ socket' \in 0 .. MaxSockets /\ streaming' \in BOOLEAN /\ (streaming' => socket' = 1)
        /\ (streaming' => ~osubscribed)
    BY <1>0, <2>1, <2>2, StreamAssumption DEF O!TypeOK, AskedOnce
  <2> QED
    BY <1>4, <2>1, <2>2, <2>3
<1>6. ASSUME NEW s \in Symbols, NEW c \in Catches, O!Catch(c, s) PROVE StreamInv'
  <2>0. ocall = << >> /\ symbol[c] = O!NoSymbol
    BY <1>6 DEF O!Catch
  <2>1. CASE inited
    <3>1. O!Register(c, s) /\ streaming' = (streaming \/ ~osubscribed) /\ UNCHANGED <<ocall, inited, socket, oup>>
      BY <1>6, <2>1 DEF O!Catch
    <3>2. osubscribed /\ streaming \in BOOLEAN /\ (streaming => socket = 1) /\ socket \in 0 .. MaxSockets
          /\ oup \in BOOLEAN
      BY <1>0, <2>1 DEF AskedOnce, O!TypeOK, StreamTypes
    <3> QED
      BY <1>4, <2>0, <2>1, <3>1, <3>2
  <2>2. CASE ~inited
    <3>1. /\ socket < MaxSockets /\ ocall' = <<c, s, "listen_key">>
          /\ UNCHANGED <<inited, osubscribed, socket, oup, streaming, opending, symbol, queue, filling, log,
                         last, waiting, got, owed, arrived, panicked>>
      BY <1>6, <2>2 DEF O!Catch, O!ws, O!catch
    <3>2. CallsAreFirst'
      BY <2>0, <2>2, <3>1 DEF CallsAreFirst
    <3> QED
      BY <1>0, <3>1, <3>2, StreamStays DEF O!TypeOK, AskedOnce
  <2> QED
    BY <2>1, <2>2
<1> QED
  BY <1>1, <1>2, <1>3, <1>5, <1>6

(* An order goes to all catches of its symbol whose tasks run.             *)
LEMMA OrderMoves ==
  ASSUME StreamInv, ~panicked, NEW s \in Symbols, O!Order(s)
  PROVE  StreamInv'
<1>0. /\ O!TypeOK /\ StreamTypes /\ CallsAreFirst /\ AskedOnce /\ OfCatches /\ AllConnected
      /\ \A c \in Catches : Kept(c)
  BY DEF StreamInv
<1>1. /\ oup /\ streaming /\ arrived < MaxOrders /\ arrived' = arrived + 1
      /\ UNCHANGED <<ocall, inited, osubscribed, socket, streaming, opending, symbol, filling, log, last,
                     waiting, got>>
  BY DEF O!Order, O!exchange
<1>2. arrived \in Nat /\ arrived' \in Nat /\ arrived =< arrived' /\ arrived' \in 0 .. MaxOrders
  BY <1>0, <1>1, StreamAssumption DEF StreamTypes
<1>3. /\ CallsAreFirst' /\ AskedOnce' /\ OfCatches'
  BY <1>0, <1>1 DEF CallsAreFirst, AskedOnce, OfCatches, O!Made
<1>4. CASE s \notin DOMAIN opending
  <2>1. panicked' = TRUE /\ oup' = FALSE /\ UNCHANGED <<queue, owed>>
    BY <1>4 DEF O!Order
  <2>2. O!TypeOK' /\ StreamTypes' /\ AllConnected'
    BY <1>0, <1>1, <1>2, <2>1 DEF O!TypeOK, StreamTypes, AllConnected, O!Made
  <2>3. ASSUME NEW c \in Catches PROVE Kept(c)'
    <3>1. Kept(c) /\ owed[c] \in Seq(Nat)
      BY OneCatch
    <3> QED
      BY <1>1, <1>2, <2>1, <3>1, KeptOn
  <2> QED
    BY <1>3, <2>2, <2>3 DEF StreamInv
<1>5. CASE s \in DOMAIN opending
  <2>1. /\ queue' = [c \in Catches |-> IF O!Contains(opending[s], c) THEN Append(queue[c], arrived + 1)
                                                                     ELSE queue[c]]
        /\ owed' = [c \in Catches |-> IF symbol[c] = s /\ filling[c] THEN Append(owed[c], arrived + 1)
                                                                     ELSE owed[c]]
        /\ UNCHANGED <<oup, panicked>>
    BY <1>5 DEF O!Order
  <2>2. ASSUME NEW c \in Catches
        PROVE  O!Contains(opending[s], c) <=> symbol[c] = s /\ filling[c]
    <3>1. ASSUME O!Contains(opending[s], c) PROVE symbol[c] = s /\ filling[c]
      BY <1>0, <1>5, <3>1 DEF O!Contains, OfCatches
    <3>2. ASSUME symbol[c] = s, filling[c] PROVE O!Contains(opending[s], c)
      <4>1. c \in O!Made
        BY <3>2, StreamAssumption DEF O!Made, O!NoSymbol
      <4> QED
        BY <1>0, <1>1, <3>2, <4>1 DEF AllConnected, O!Connected
    <3> QED
      BY <3>1, <3>2
  <2>3. ASSUME NEW c \in Catches
        PROVE  Kept(c)' /\ queue'[c] \in Seq(Nat) /\ owed'[c] \in Seq(Nat)
    <3>0. /\ queue[c] \in Seq(Nat) /\ log[c] \in Seq(Nat) /\ owed[c] \in Seq(Nat) /\ Kept(c)
          /\ (filling[c] => symbol[c] # O!NoSymbol)
      BY OneCatch DEF Kept
    <3>1. CASE O!Contains(opending[s], c)
      <4>1. /\ queue'[c] = Append(queue[c], arrived') /\ owed'[c] = Append(owed[c], arrived')
            /\ symbol'[c] # O!NoSymbol
        BY <1>1, <2>1, <2>2, <3>0, <3>1
      <4>2. log[c] \o Append(queue[c], arrived') = Append(log[c] \o queue[c], arrived')
        <5>1. PICK r \in Seq(Nat), q \in Seq(Nat), e \in Nat : r = log[c] /\ q = queue[c] /\ e = arrived'
          BY <1>2, <3>0
        <5>2. r \o Append(q, e) = Append(r \o q, e)
          BY AppendMoves
        <5> QED
          BY <5>1, <5>2
      <4>3. Len(owed'[c]) =< arrived' /\ queue'[c] \in Seq(Nat) /\ owed'[c] \in Seq(Nat)
        <5>1. Len(owed[c]) =< arrived /\ Len(owed[c]) \in Nat
          BY <3>0 DEF Kept
        <5>2. Len(owed'[c]) = Len(owed[c]) + 1
          BY <1>2, <3>0, <4>1, AppendProperties
        <5>3. Len(owed'[c]) =< arrived'
          BY <1>1, <1>2, <5>1, <5>2
        <5> QED
          BY <1>2, <3>0, <4>1, <5>3
      <4>4. log'[c] \o queue'[c] = owed'[c]
        BY <1>1, <3>0, <4>1, <4>2 DEF Kept
      <4> QED
        BY <1>1, <3>0, <4>1, <4>3, <4>4 DEF Kept
    <3>2. CASE ~O!Contains(opending[s], c)
      <4>1. queue'[c] = queue[c] /\ owed'[c] = owed[c]
        BY <2>1, <2>2, <3>2
      <4> QED
        BY <1>1, <1>2, <3>0, <4>1, KeptOn
    <3> QED
      BY <3>1, <3>2
  <2>4. StreamTypes'
    <3>1. queue' \in [Catches -> Seq(Nat)] /\ owed' \in [Catches -> Seq(Nat)]
      BY <2>1, <2>3
    <3> QED
      BY <1>0, <1>1, <1>2, <3>1 DEF StreamTypes
  <2>5. O!TypeOK' /\ AllConnected'
    BY <1>0, <1>1, <2>1 DEF O!TypeOK, AllConnected, O!Made, O!Connected
  <2> QED
    BY <1>3, <2>3, <2>4, <2>5 DEF StreamInv
<1> QED
  BY <1>4, <1>5

(* What the caller has and what it has not add up to the log.              *)
LEMMA RestOfLog ==
  ASSUME NEW S, NEW s \in Seq(S), NEW n \in 0 .. Len(s)
  PROVE  SubSeq(s, 1, n) \o SubSeq(s, n + 1, Len(s)) = SubSeq(s, 1, Len(s))
<1>1. 1 \in 1 .. Len(s) + 1 /\ n \in 1 - 1 .. Len(s) /\ Len(s) \in n .. Len(s)
  OBVIOUS
<1> QED
  BY <1>1, ConcatAdjacentSubSeq

(* A longer log begins as the shorter one did.                             *)
LEMMA BeginningStays ==
  ASSUME NEW S, NEW s \in Seq(S), NEW e \in S, NEW n \in 0 .. Len(s)
  PROVE  SubSeq(Append(s, e), 1, n) = SubSeq(s, 1, n)
<1>1. PICK q \in Seq(S) : q = Append(s, e)
  BY AppendProperties
<1>2. /\ Len(s) \in Nat /\ n \in Nat /\ n =< Len(s) /\ Len(q) = Len(s) + 1
      /\ \A k \in 1 .. Len(s) : q[k] = s[k]
  BY <1>1, AppendProperties
<1>3. \A k \in 1 .. n : k \in 1 .. Len(s) /\ k \in 1 .. Len(q) /\ q[k] = s[k]
  BY <1>2
<1>4. SubSeq(s, 1, n) \in Seq(S) /\ Len(SubSeq(s, 1, n)) = n /\ \A k \in 1 .. n : SubSeq(s, 1, n)[k] = s[k]
  BY <1>2, <1>3
<1>5. SubSeq(q, 1, n) \in Seq(S) /\ Len(SubSeq(q, 1, n)) = n /\ \A k \in 1 .. n : SubSeq(q, 1, n)[k] = q[k]
  BY <1>2, <1>3
<1>6. SubSeq(q, 1, n) = SubSeq(s, 1, n)
  BY <1>3, <1>4, <1>5, SeqEqual
<1> QED
  BY <1>1, <1>6

(* The task of a catch, and its caller, change nothing of the others.      *)
LEMMA CatchMoves ==
  ASSUME StreamInv, NEW c \in Catches, O!Fill(c) \/ O!FillEnds(c) \/ O!CallNext(c) \/ O!Wake(c)
  PROVE  StreamInv'
<1>0. /\ O!TypeOK /\ StreamTypes /\ CallsAreFirst /\ AskedOnce /\ OfCatches /\ AllConnected
      /\ Kept(c) /\ queue[c] \in Seq(Nat) /\ log[c] \in Seq(Nat) /\ got[c] \in Seq(Nat) /\ owed[c] \in Seq(Nat)
      /\ last[c] \in Nat /\ Len(log[c]) \in Nat /\ last[c] \in 0 .. Len(log[c]) /\ arrived \in Nat
  BY OneCatch DEF StreamInv, Kept
<1>1. UNCHANGED <<ocall, inited, osubscribed, socket, oup, streaming, opending, symbol, owed, arrived, panicked>>
  BY DEF O!Fill, O!FillEnds, O!CallNext, O!Wake, O!exchange, O!ws
<1>2. CallsAreFirst' /\ AskedOnce' /\ O!Made' = O!Made
  BY <1>0, <1>1 DEF CallsAreFirst, AskedOnce, O!Made
<1>3. ASSUME NEW d \in Catches \ {c},
             queue'[d] = queue[d], log'[d] = log[d], got'[d] = got[d], last'[d] = last[d],
             waiting'[d] = waiting[d], filling'[d] = filling[d]
      PROVE  Kept(d)'
  <2>1. Kept(d) /\ owed[d] \in Seq(Nat)
    BY OneCatch
  <2> QED
    BY <1>0, <1>1, <1>3, <2>1, KeptOn
<1>4. ASSUME UNCHANGED filling, StreamTypes', Kept(c)', \A d \in Catches \ {c} : Kept(d)',
             waiting' \in [Catches -> {"no", "asleep", "woken"}], last' \in [Catches -> 0 .. MaxOrders]
      PROVE  StreamInv'
  <2>1. O!TypeOK'
    BY <1>0, <1>1, <1>2, <1>4 DEF O!TypeOK
  <2>2. OfCatches' /\ AllConnected'
    BY <1>0, <1>1, <1>2, <1>4 DEF OfCatches, AllConnected, O!Connected
  <2>3. \A d \in Catches : Kept(d)'
    BY <1>4
  <2> QED
    BY <1>2, <1>4, <2>1, <2>2, <2>3 DEF StreamInv
<1>5. CASE O!Fill(c)
  <2>1. /\ filling[c] /\ queue[c] # << >>
        /\ log' = [log EXCEPT ![c] = Append(log[c], Head(queue[c]))]
        /\ queue' = [queue EXCEPT ![c] = Tail(queue[c])]
        /\ waiting' = [waiting EXCEPT ![c] = IF waiting[c] = "asleep" THEN "woken" ELSE waiting[c]]
        /\ UNCHANGED <<filling, last, got>>
    BY <1>5 DEF O!Fill
  <2>2. Head(queue[c]) \in Nat /\ Tail(queue[c]) \in Seq(Nat)
    BY <1>0, <2>1
  <2>3. PICK h \in Nat : h = Head(queue[c])
    BY <2>2
  <2>4. /\ Append(log[c], h) \in Seq(Nat) /\ Len(Append(log[c], h)) = Len(log[c]) + 1
        /\ Append(log[c], h) \o Tail(queue[c]) = log[c] \o queue[c]
        /\ SubSeq(Append(log[c], h), 1, last[c]) = SubSeq(log[c], 1, last[c])
    <3>1. PICK r \in Seq(Nat), q \in Seq(Nat), n \in Nat :
            r = log[c] /\ q = queue[c] /\ q # << >> /\ h = Head(q) /\ n = last[c] /\ n \in 0 .. Len(r)
      BY <1>0, <2>1, <2>3
    <3>2. Append(r, h) \in Seq(Nat) /\ Len(Append(r, h)) = Len(r) + 1
      BY AppendProperties
    <3>3. Append(r, h) \o Tail(q) = r \o q
      <4>1. q # << >>
        BY <3>1
      <4>2. Append(r, Head(q)) \o Tail(q) = r \o q
        BY <4>1, HeadMoves
      <4> QED
        BY <3>1, <4>2
    <3>4. SubSeq(Append(r, h), 1, n) = SubSeq(r, 1, n)
      <4>1. h \in Nat /\ n \in 0 .. Len(r)
        BY <3>1
      <4> QED
        BY <4>1, BeginningStays
    <3> QED
      BY <3>1, <3>2, <3>3, <3>4
  <2>5. StreamTypes' /\ waiting' \in [Catches -> {"no", "asleep", "woken"}] /\ last' \in [Catches -> 0 .. MaxOrders]
    BY <1>0, <1>1, <2>1, <2>2, <2>3, <2>4 DEF StreamTypes, O!TypeOK
  <2>6. /\ queue'[c] = Tail(queue[c]) /\ log'[c] = Append(log[c], h)
        /\ waiting'[c] = IF waiting[c] = "asleep" THEN "woken" ELSE waiting[c]
        /\ symbol[c] # O!NoSymbol
    BY <1>0, <2>1, <2>3 DEF StreamTypes, O!TypeOK, Kept
  <2>7. Kept(c)'
    <3>1. last'[c] \in 0 .. Len(log'[c])
      <4>1. PICK n \in Nat, m \in Nat : n = last[c] /\ m = Len(log[c]) /\ n =< m /\ Len(log'[c]) = m + 1
        BY <1>0, <2>4, <2>6
      <4>2. n \in 0 .. m + 1
        BY <4>1
      <4> QED
        BY <2>1, <4>1, <4>2
    <3>2. got'[c] = SubSeq(log'[c], 1, last'[c])
      <4>1. got[c] = SubSeq(log[c], 1, last[c])
        BY <1>0 DEF Kept
      <4> QED
        BY <2>1, <2>4, <2>6, <4>1
    <3>3. log'[c] \o queue'[c] = owed'[c] /\ Len(owed'[c]) =< arrived'
      <4>1. log[c] \o queue[c] = owed[c] /\ Len(owed[c]) =< arrived
        BY <1>0 DEF Kept
      <4> QED
        BY <1>1, <2>4, <2>6, <4>1
    <3>4. waiting'[c] # "asleep" /\ symbol'[c] # O!NoSymbol
      BY <1>1, <2>6
    <3> QED
      BY <3>1, <3>2, <3>3, <3>4 DEF Kept
  <2>8. \A d \in Catches \ {c} : Kept(d)'
    BY <1>0, <1>3, <2>1 DEF StreamTypes, O!TypeOK
  <2> QED
    BY <1>4, <2>1, <2>5, <2>7, <2>8
<1>6. CASE O!FillEnds(c)
  <2>1. /\ filling[c] /\ ~O!Connected(c) /\ filling' = [filling EXCEPT ![c] = FALSE]
        /\ UNCHANGED <<queue, log, last, waiting, got>>
    BY <1>6 DEF O!FillEnds
  <2>2. filling' \in [Catches -> BOOLEAN] /\ ~filling'[c] /\ \A d \in Catches \ {c} : filling'[d] = filling[d]
    BY <1>0, <2>1 DEF O!TypeOK
  <2>3. O!TypeOK' /\ StreamTypes'
    BY <1>0, <1>1, <1>2, <2>1, <2>2 DEF O!TypeOK, StreamTypes
  <2>4. Kept(c)' /\ \A d \in Catches \ {c} : Kept(d)'
    BY <1>0, <1>1, <1>3, <2>1, <2>2 DEF Kept
  <2>5. OfCatches'
    <3> SUFFICES ASSUME NEW s \in DOMAIN opending, NEW n \in 1 .. Len(opending[s])
                 PROVE  symbol[opending[s][n]] = s /\ filling'[opending[s][n]]
      BY <1>1 DEF OfCatches
    <3>1. symbol[opending[s][n]] = s /\ filling[opending[s][n]]
      BY <1>0 DEF OfCatches
    <3>2. opending[s][n] \in Catches
      <4>1. opending[s] \in Seq(O!Made)
        BY <1>0 DEF O!TypeOK
      <4> QED
        BY <4>1 DEF O!Made
    <3>3. opending[s][n] # c
      BY <2>1, <3>1 DEF O!Connected, O!Contains
    <3> QED
      BY <2>2, <3>1, <3>2, <3>3
  <2>6. AllConnected'
    BY <1>0, <1>1, <1>2, <2>2 DEF AllConnected, O!Connected, O!Made
  <2>7. \A d \in Catches : Kept(d)'
    BY <2>4
  <2> QED
    BY <1>2, <2>3, <2>5, <2>6, <2>7 DEF StreamInv
<1>7. ASSUME O!Answer(c), UNCHANGED <<queue, filling, log>>, symbol[c] # O!NoSymbol,
             waiting' \in [Catches -> {"no", "asleep", "woken"}], waiting'[c] # "asleep",
             \A d \in Catches \ {c} : waiting'[d] = waiting[d]
      PROVE  StreamInv'
  <2>1. /\ got' = [got EXCEPT ![c] = got[c] \o SubSeq(log[c], last[c] + 1, Len(log[c]))]
        /\ last' = [last EXCEPT ![c] = Len(log[c])]
    BY <1>7 DEF O!Answer
  <2>2. /\ got'[c] = got[c] \o SubSeq(log[c], last[c] + 1, Len(log[c])) /\ last'[c] = Len(log[c])
        /\ \A d \in Catches \ {c} : got'[d] = got[d] /\ last'[d] = last[d]
    BY <1>0, <2>1 DEF StreamTypes, O!TypeOK
  <2>3. got'[c] = SubSeq(log[c], 1, Len(log[c]))
    BY <1>0, <2>2, RestOfLog DEF Kept
  <2>4. got'[c] \in Seq(Nat) /\ Len(log[c]) \in 0 .. MaxOrders
    BY <1>0, <2>3, SubSeqFull, LogIsShort, StreamAssumption
  <2>5. StreamTypes' /\ last' \in [Catches -> 0 .. MaxOrders]
    <3>1. got' \in [Catches -> Seq(Nat)] /\ last' \in [Catches -> 0 .. MaxOrders]
      BY <1>0, <2>1, <2>2, <2>4 DEF StreamTypes, O!TypeOK
    <3> QED
      BY <1>0, <1>1, <1>7, <3>1 DEF StreamTypes
  <2>6. Kept(c)'
    <3>1. last'[c] \in 0 .. Len(log'[c]) /\ got'[c] = SubSeq(log'[c], 1, last'[c])
      <4>1. PICK n \in Nat : n = Len(log[c])
        BY <1>0
      <4>2. n \in 0 .. n
        OBVIOUS
      <4>3. log'[c] = log[c]
        BY <1>7
      <4>4. last'[c] = n /\ Len(log'[c]) = n
        BY <2>2, <4>1, <4>3
      <4>5. got'[c] = SubSeq(log'[c], 1, n)
        BY <2>3, <4>1, <4>3
      <4> QED
        BY <4>2, <4>4, <4>5
    <3>2. log'[c] \o queue'[c] = owed'[c] /\ Len(owed'[c]) =< arrived'
      <4>1. log[c] \o queue[c] = owed[c] /\ Len(owed[c]) =< arrived
        BY <1>0 DEF Kept
      <4> QED
        BY <1>1, <1>7, <4>1
    <3>3. waiting'[c] # "asleep" /\ symbol'[c] # O!NoSymbol
      BY <1>1, <1>7
    <3> QED
      BY <3>1, <3>2, <3>3 DEF Kept
  <2>7. \A d \in Catches \ {c} : Kept(d)'
    BY <1>3, <1>7, <2>2
  <2> QED
    BY <1>4, <1>7, <2>5, <2>6, <2>7
<1>8. CASE O!CallNext(c)
  <2>1. symbol[c] # O!NoSymbol /\ UNCHANGED <<queue, filling, log>>
    BY <1>8 DEF O!CallNext, O!Made
  <2>2. CASE last[c] < Len(log[c])
    BY <1>0, <1>7, <1>8, <2>1, <2>2 DEF O!CallNext, O!TypeOK
  <2>3. CASE ~(last[c] < Len(log[c]))
    <3>1. waiting' = [waiting EXCEPT ![c] = "asleep"] /\ UNCHANGED <<got, last>>
      BY <1>8, <2>3 DEF O!CallNext
    <3>2. /\ waiting' \in [Catches -> {"no", "asleep", "woken"}] /\ last' \in [Catches -> 0 .. MaxOrders]
          /\ \A d \in Catches \ {c} : waiting'[d] = waiting[d]
      BY <1>0, <3>1 DEF O!TypeOK
    <3>3. StreamTypes'
      BY <1>0, <1>1, <2>1, <3>1 DEF StreamTypes
    <3>4. last[c] = Len(log[c])
      BY <1>0, <2>3
    <3>5. Kept(c)'
      BY <1>0, <1>1, <2>1, <3>1, <3>4 DEF Kept
    <3>6. \A d \in Catches \ {c} : Kept(d)'
      BY <1>3, <2>1, <3>1, <3>2
    <3> QED
      BY <1>4, <2>1, <3>2, <3>3, <3>5, <3>6
  <2> QED
    BY <2>2, <2>3
<1>9. CASE O!Wake(c)
  <2>1. symbol[c] # O!NoSymbol /\ UNCHANGED <<queue, filling, log>>
    BY <1>0, <1>9 DEF O!Wake, Kept
  <2> QED
    BY <1>0, <1>7, <1>9, <2>1 DEF O!Wake, O!TypeOK
<1> QED
  BY <1>5, <1>6, <1>8, <1>9

(* A catch that is dropped leaves the channels of its symbol.              *)
LEMMA DropMoves ==
  ASSUME StreamInv, ~panicked, NEW c \in Catches, O!Drop(c)
  PROVE  StreamInv'
<1>0. /\ O!TypeOK /\ StreamTypes /\ CallsAreFirst /\ AskedOnce /\ OfCatches /\ AllConnected
      /\ arrived \in Nat /\ symbol[c] # O!NoSymbol
  BY OneCatch DEF StreamInv, O!Drop, O!Made
<1>1. /\ symbol' = [symbol EXCEPT ![c] = O!NoSymbol]
      /\ queue' = [queue EXCEPT ![c] = << >>] /\ filling' = [filling EXCEPT ![c] = FALSE]
      /\ log' = [log EXCEPT ![c] = << >>] /\ last' = [last EXCEPT ![c] = 0]
      /\ got' = [got EXCEPT ![c] = << >>] /\ owed' = [owed EXCEPT ![c] = << >>]
      /\ waiting' = [waiting EXCEPT ![c] = "no"]
      /\ UNCHANGED <<ocall, inited, osubscribed, socket, oup, streaming, arrived>>
  BY DEF O!Drop, O!exchange, O!ws
<1>2. /\ symbol' \in [Catches -> Symbols \cup {O!NoSymbol}] /\ filling' \in [Catches -> BOOLEAN]
      /\ waiting' \in [Catches -> {"no", "asleep", "woken"}] /\ last' \in [Catches -> 0 .. MaxOrders]
      /\ symbol'[c] = O!NoSymbol /\ ~filling'[c]
      /\ \A d \in Catches \ {c} : symbol'[d] = symbol[d] /\ filling'[d] = filling[d]
      /\ O!Made' = O!Made \ {c}
  BY <1>0, <1>1, StreamAssumption DEF O!TypeOK, O!Made
<1>3. StreamTypes'
  BY <1>0, <1>1 DEF StreamTypes
<1>4. ASSUME NEW d \in Catches PROVE Kept(d)'
  <2>1. Kept(d) /\ owed[d] \in Seq(Nat)
    BY OneCatch
  <2>2. CASE d = c
    <3>1. /\ queue'[c] = << >> /\ log'[c] = << >> /\ got'[c] = << >> /\ owed'[c] = << >>
          /\ last'[c] = 0 /\ waiting'[c] = "no"
      BY <1>0, <1>1 DEF StreamTypes, O!TypeOK
    <3>2. << >> \o << >> = << >> /\ SubSeq(<< >>, 1, 0) = << >> /\ Len(<< >>) = 0
      OBVIOUS
    <3>3. arrived' \in Nat /\ 0 =< arrived'
      BY <1>0, <1>1
    <3>4. last'[c] \in 0 .. Len(log'[c]) /\ got'[c] = SubSeq(log'[c], 1, last'[c])
      BY <3>1, <3>2
    <3>5. log'[c] \o queue'[c] = owed'[c] /\ Len(owed'[c]) =< arrived'
      BY <3>1, <3>2, <3>3
    <3>6. waiting'[c] # "asleep" /\ ~filling'[c]
      BY <1>2, <3>1
    <3>7. Kept(c)'
      BY <3>1, <3>4, <3>5, <3>6 DEF Kept
    <3> QED
      BY <2>2, <3>7
  <2>3. CASE d # c
    <3>1. /\ queue'[d] = queue[d] /\ log'[d] = log[d] /\ got'[d] = got[d] /\ owed'[d] = owed[d]
          /\ last'[d] = last[d] /\ waiting'[d] = waiting[d] /\ symbol'[d] = symbol[d] /\ filling'[d] = filling[d]
      BY <1>0, <1>1, <1>2, <2>3 DEF StreamTypes, O!TypeOK
    <3>2. arrived' \in Nat /\ arrived =< arrived'
      BY <1>0, <1>1
    <3> QED
      BY <1>0, <2>1, <3>1, <3>2, KeptOn
  <2> QED
    BY <2>2, <2>3
<1>5. CallsAreFirst' /\ AskedOnce'
  <2>1. \A d \in Catches : symbol[d] = O!NoSymbol => symbol'[d] = O!NoSymbol
    BY <1>2
  <2>2. CallsAreFirst'
    BY <1>0, <1>1, <2>1 DEF CallsAreFirst
  <2> QED
    BY <1>0, <1>1, <1>2, <2>2 DEF AskedOnce
<1>6. /\ panicked' \in BOOLEAN
      /\ DOMAIN opending' \subseteq Symbols
      /\ \A x \in DOMAIN opending' : opending'[x] \in Seq(O!Made') /\ O!IsInjective(opending'[x])
      /\ OfCatches' /\ AllConnected'
  <2>1. \A x \in DOMAIN opending : x # symbol[c] => \A n \in 1 .. Len(opending[x]) : opending[x][n] # c
    BY <1>0 DEF OfCatches
  <2>2. ASSUME NEW x \in DOMAIN opending, x # symbol[c]
        PROVE  opending[x] \in Seq(O!Made') /\ O!IsInjective(opending[x])
    <3>1. opending[x] \in Seq(O!Made) /\ O!IsInjective(opending[x])
      BY <1>0 DEF O!TypeOK
    <3>2. opending[x] \in [1 .. Len(opending[x]) -> O!Made \ {c}] /\ Len(opending[x]) \in Nat
      BY <2>1, <2>2, <3>1
    <3> QED
      BY <1>2, <3>1, <3>2, SeqDef
  <2>3. CASE symbol[c] \notin DOMAIN opending
    <3>1. panicked' = TRUE /\ opending' = opending
      BY <2>3 DEF O!Drop
    <3>2. DOMAIN opending \subseteq Symbols
      BY <1>0 DEF O!TypeOK
    <3>3. OfCatches'
      <4> SUFFICES ASSUME NEW x \in DOMAIN opending, NEW n \in 1 .. Len(opending[x])
                   PROVE  symbol'[opending[x][n]] = x /\ filling'[opending[x][n]]
        BY <3>1 DEF OfCatches
      <4>1. opending[x][n] \in O!Made'
        BY <2>2, <2>3
      <4> QED
        BY <1>0, <1>2, <4>1 DEF OfCatches, O!Made
    <3> QED
      BY <2>2, <2>3, <3>1, <3>2, <3>3 DEF AllConnected
  <2>4. CASE symbol[c] \in DOMAIN opending
    <3>1. panicked' = panicked /\ opending' = [opending EXCEPT ![symbol[c]] = O!RemoveFirst(opending[symbol[c]], c)]
      BY <2>4 DEF O!Drop
    <3>2. PICK w : w = O!RemoveFirst(opending[symbol[c]], c)
      OBVIOUS
    <3>3. /\ w \in Seq(O!Made') /\ O!IsInjective(w)
          /\ \A v : Occurs(v, w) <=> v # c /\ Occurs(v, opending[symbol[c]])
      <4>1. opending[symbol[c]] \in Seq(O!Made) /\ Once(opending[symbol[c]])
        BY <1>0, <2>4 DEF O!TypeOK, O!IsInjective, Once
      <4>2. PICK e \in Seq(O!Made) : e = opending[symbol[c]] /\ Once(e)
        BY <4>1
      <4>3. /\ O!RemoveFirst(e, c) \in Seq(O!Made \ {c}) /\ Once(O!RemoveFirst(e, c))
            /\ \A v : Occurs(v, O!RemoveFirst(e, c)) <=> v # c /\ Occurs(v, e)
        BY <4>2, RemovedFirst
      <4> QED
        BY <1>2, <3>2, <4>2, <4>3 DEF O!IsInjective, Once
    <3>4. /\ DOMAIN opending' = DOMAIN opending /\ DOMAIN opending \subseteq Symbols /\ opending'[symbol[c]] = w
          /\ \A x \in DOMAIN opending : x # symbol[c] => opending'[x] = opending[x]
      BY <1>0, <2>4, <3>1, <3>2 DEF O!TypeOK
    <3>5. ASSUME NEW x \in DOMAIN opending', NEW v
          PROVE  Occurs(v, opending'[x]) <=> v # c /\ Occurs(v, opending[x])
      <4>1. CASE x = symbol[c]
        BY <3>3, <3>4, <4>1
      <4>2. CASE x # symbol[c]
        <5>1. opending'[x] = opending[x] /\ ~Occurs(c, opending[x])
          BY <2>1, <3>4, <4>2 DEF Occurs
        <5> QED
          BY <5>1
      <4> QED
        BY <4>1, <4>2
    <3>6. \A x \in DOMAIN opending' : opending'[x] \in Seq(O!Made') /\ O!IsInjective(opending'[x])
      BY <2>2, <3>3, <3>4
    <3>7. OfCatches'
      <4> SUFFICES ASSUME NEW x \in DOMAIN opending', NEW n \in 1 .. Len(opending'[x])
                   PROVE  symbol'[opending'[x][n]] = x /\ filling'[opending'[x][n]]
        BY DEF OfCatches
      <4>1. PICK v : v = opending'[x][n]
        OBVIOUS
      <4>2. v # c /\ symbol[v] = x /\ filling[v]
        <5>1. v # c /\ Occurs(v, opending[x])
          BY <3>5, <4>1 DEF Occurs
        <5> QED
          BY <1>0, <3>4, <5>1 DEF OfCatches, Occurs
      <4>3. v \in Catches
        <5>1. opending'[x] \in Seq(O!Made')
          BY <3>6
        <5> QED
          BY <1>2, <4>1, <5>1 DEF O!Made
      <4> QED
        BY <1>2, <4>1, <4>2, <4>3
    <3>8. AllConnected'
      <4> SUFFICES ASSUME streaming', ~panicked', NEW d \in O!Made', filling'[d] PROVE O!Connected(d)'
        BY DEF AllConnected
      <4>1. d \in O!Made /\ d # c /\ filling[d] /\ symbol'[d] = symbol[d]
        BY <1>2 DEF O!Made
      <4>2. symbol[d] \in DOMAIN opending /\ Occurs(d, opending[symbol[d]])
        BY <1>0, <1>1, <3>1, <4>1 DEF AllConnected, O!Connected, O!Contains, Occurs
      <4>3. Occurs(d, opending'[symbol[d]])
        BY <3>4, <3>5, <4>1, <4>2
      <4> QED
        BY <3>4, <4>1, <4>2, <4>3 DEF O!Connected, O!Contains, Occurs
    <3> QED
      BY <1>0, <3>1, <3>4, <3>6, <3>7, <3>8 DEF O!TypeOK
  <2> QED
    BY <2>3, <2>4
<1>7. O!TypeOK'
  BY <1>0, <1>1, <1>2, <1>6 DEF O!TypeOK, O!IsInjective
<1> QED
  BY <1>3, <1>4, <1>5, <1>6, <1>7 DEF StreamInv

LEMMA NextStream == StreamInv /\ [PartsNext]_parts => StreamInv'
<1> SUFFICES ASSUME StreamInv, [O!Next]_stream PROVE StreamInv'
  BY StreamMoves
<1>1. CASE UNCHANGED stream
  <2>1. CallsAreFirst'
    BY <1>1 DEF stream, StreamInv, CallsAreFirst
  <2> QED
    BY <1>1, <2>1, StreamStays DEF stream, StreamInv, O!TypeOK, AskedOnce
<1>2. CASE O!Next
  BY <1>2, CallMoves, OrderMoves, CatchMoves, DropMoves DEF O!Next
<1> QED
  BY <1>1, <1>2

LEMMA StreamInvariant == PartsSpec => []StreamInv
<1>1. PartsInit => StreamInv
  BY InitStream DEF PartsInit
<1> QED
  BY <1>1, NextStream, PTL DEF PartsSpec

(* A caller of next() gets every order that came while its catch was       *)
(* registered, once and in order, however many catches share a symbol, and *)
(* never sleeps on one that was logged.                                    *)
THEOREM EveryOrderComesOnce == PartsSpec => []EveryOrderOnce
<1>1. StreamInv => EveryOrderOnce
  BY DEF StreamInv, EveryOrderOnce, O!EveryOrderOnce, Kept, O!Made
<1> QED
  BY <1>1, StreamInvariant, PTL

-----------------------------------------------------------------------------
(* MEXC's books.                                                           *)

InPool(c) == Occurs(c, mpool)
Subs(c)   == DOMAIN msubscribed[c]

Stages == {"connecting", "waiting", "answered", "failed"}

MexcTypes ==
  /\ mpool \in Seq(MexcClients) /\ Once(mpool) /\ up \in [MexcClients -> BOOLEAN]
  /\ DOMAIN msubscribed = MexcClients /\ DOMAIN pending = MexcClients /\ DOMAIN server = MexcClients
  /\ DOMAIN emptied = MexcClients /\ DOMAIN leftover = MexcClients
  /\ call = << >> \/ call \in [symbol : Symbols, client : MexcClients, stage : Stages]

(* The books of a client are those of its streams while its socket is up,  *)
(* and those whose subscription failed when it is not; a book is never     *)
(* ahead of its stream.                                                    *)
Sound(c) ==
  /\ pending[c] = Subs(c) /\ Subs(c) \subseteq Symbols
  /\ IsFiniteSet(Subs(c)) /\ Cardinality(Subs(c)) =< MaxSymbols
  /\ \A s \in Subs(c) : msubscribed[c][s] \in 0 .. MaxUpdates
  /\ up[c] => DOMAIN server[c] = Subs(c) /\ leftover[c] = {}
  /\ ~up[c] => DOMAIN server[c] = {} /\ leftover[c] = Subs(c)
  /\ \A s \in DOMAIN server[c] :
       /\ server[c][s] \in Nat /\ msubscribed[c][s] =< server[c][s]
       /\ s \notin emptied[c] => msubscribed[c][s] = server[c][s]

Apart == \A c, d \in MexcClients : InPool(c) /\ InPool(d) /\ c # d => Subs(c) \cap Subs(d) = {}

(* A call connects a client that is new, and waits for a symbol its client *)
(* has.  The client of a call that is not in the pool has no symbol but    *)
(* the call's, which nobody else has.                                      *)
CallHolds ==
  call # << >> =>
    /\ call.stage = "connecting" => ~InPool(call.client) /\ ~up[call.client] /\ Subs(call.client) = {}
    /\ call.stage = "waiting" => call.symbol \in Subs(call.client)
    /\ ~InPool(call.client) =>
         /\ Subs(call.client) \subseteq {call.symbol} /\ leftover[call.client] = {}
         /\ \A d \in MexcClients : InPool(d) => call.symbol \notin Subs(d)

Called(c) == call # << >> /\ call.client = c

(* All other clients out of the pool are as if they were new.              *)
OthersAreNew == \A c \in MexcClients : ~InPool(c) /\ ~Called(c) => ~up[c] /\ Subs(c) = {}

MexcInv == MexcTypes /\ (\A c \in MexcClients : Sound(c)) /\ Apart /\ CallHolds /\ OthersAreNew

LEMMA MexcMoves == [PartsNext]_parts => [X!Next]_mexc
  BY DEF PartsNext, parts, mexc

LEMMA InitMexc == X!Init => MexcInv
<1> SUFFICES ASSUME X!Init PROVE MexcInv
  OBVIOUS
<1>1. \A c : ~InPool(c)
  BY DEF X!Init, InPool, Occurs
<1>2. ASSUME NEW c \in MexcClients PROVE Sound(c) /\ Subs(c) = {} /\ ~up[c]
  <2>1. /\ msubscribed[c] = << >> /\ pending[c] = {} /\ server[c] = << >> /\ leftover[c] = {}
        /\ ~up[c] /\ DOMAIN << >> = {}
    BY DEF X!Init
  <2>2. IsFiniteSet({}) /\ Cardinality({}) = 0 /\ 0 =< MaxSymbols
    BY FS_EmptySet, MexcAssumption
  <2> QED
    BY <2>1, <2>2 DEF Sound, Subs
<1>3. MexcTypes
  BY DEF X!Init, MexcTypes, Once
<1>4. CallHolds /\ Apart
  BY <1>1 DEF X!Init, CallHolds, Apart
<1> QED
  BY <1>2, <1>3, <1>4 DEF MexcInv, OthersAreNew

(* What the pool is searched for.                                          *)
LEMMA HolderHas ==
  ASSUME MexcTypes, NEW s
  PROVE  /\ \A c \in X!Holder(s) : c \in MexcClients /\ InPool(c) /\ s \in Subs(c)
         /\ X!Holder(s) = {} => \A c \in MexcClients : InPool(c) => s \notin Subs(c)
<1> DEFINE able == {k \in DOMAIN mpool : X!Has(mpool[k], s)}
<1>1. X!Holder(s) = IF able = {} THEN {} ELSE {mpool[X!Min(able)]}
  BY DEF X!Holder, X!FirstOf
<1>2. /\ DOMAIN mpool = 1 .. Len(mpool) /\ Len(mpool) \in Nat
      /\ \A n \in 1 .. Len(mpool) : mpool[n] \in MexcClients
  BY DEF MexcTypes
<1>3. able # {} => X!Min(able) \in able
  <2>1. able \in SUBSET Nat
    BY <1>2
  <2> HIDE DEF able
  <2> QED
    BY <2>1, LeastNumber DEF X!Min
<1>4. \A c \in X!Holder(s) : c \in MexcClients /\ InPool(c) /\ s \in Subs(c)
  BY <1>1, <1>2, <1>3 DEF InPool, Occurs, Subs, X!Has
<1>5. ASSUME X!Holder(s) = {}, NEW c \in MexcClients, InPool(c)
      PROVE  s \notin Subs(c)
  <2>1. able = {}
    BY <1>1, <1>5
  <2> QED
    BY <1>2, <1>5, <2>1 DEF InPool, Occurs, Subs, X!Has
<1> QED
  BY <1>4, <1>5

LEMMA CardinalityAsCounted == \A S : X!Cardinality(S) = Cardinality(S)
  BY DEF X!Cardinality, Cardinality

LEMMA RoomyHas ==
  ASSUME MexcTypes
  PROVE  \A c \in X!Roomy : c \in MexcClients /\ InPool(c) /\ Cardinality(Subs(c)) < MaxSymbols
<1> DEFINE able == {k \in DOMAIN mpool : X!Count(mpool[k]) < MaxSymbols}
<1>1. X!Roomy = IF able = {} THEN {} ELSE {mpool[X!Min(able)]}
  BY DEF X!Roomy, X!FirstOf
<1>2. /\ DOMAIN mpool = 1 .. Len(mpool) /\ Len(mpool) \in Nat
      /\ \A n \in 1 .. Len(mpool) : mpool[n] \in MexcClients
  BY DEF MexcTypes
<1>3. able # {} => X!Min(able) \in able
  <2>1. able \in SUBSET Nat
    BY <1>2
  <2> HIDE DEF able
  <2> QED
    BY <2>1, LeastNumber DEF X!Min
<1>4. \A c : X!Count(c) = Cardinality(Subs(c))
  BY CardinalityAsCounted DEF X!Count, Subs
<1> QED
  BY <1>1, <1>2, <1>3, <1>4 DEF InPool, Occurs

(* Client d stays as it is.                                                *)
Alike(d) ==
  /\ up'[d] = up[d] /\ msubscribed'[d] = msubscribed[d] /\ pending'[d] = pending[d]
  /\ server'[d] = server[d] /\ emptied'[d] = emptied[d] /\ leftover'[d] = leftover[d]

LEMMA AlikeSound ==
  ASSUME NEW d, Sound(d), Alike(d)
  PROVE  Sound(d)' /\ Subs(d)' = Subs(d)
  BY DEF Sound, Alike, Subs

LEMMA OneClient ==
  ASSUME MexcInv, NEW c \in MexcClients, Sound(c)', \A d \in MexcClients \ {c} : Alike(d)
  PROVE  /\ (\A d \in MexcClients : Sound(d))'
         /\ \A d \in MexcClients \ {c} : Subs(d)' = Subs(d) /\ up'[d] = up[d] /\ leftover'[d] = leftover[d]
<1>1. ASSUME NEW d \in MexcClients, d # c
      PROVE  Sound(d)' /\ Subs(d)' = Subs(d)
  BY <1>1, AlikeSound DEF MexcInv
<1>2. (\A d \in MexcClients : Sound(d))'
  BY <1>1
<1>3. \A d \in MexcClients \ {c} : up'[d] = up[d] /\ leftover'[d] = leftover[d]
  BY DEF Alike
<1> QED
  BY <1>1, <1>2, <1>3

(* Registering a symbol, which a client that is down does without effect   *)
(* on the server.                                                          *)
LEMMA RegisterSound ==
  ASSUME MexcTypes, NEW c \in MexcClients, NEW s \in Symbols, NEW l \in BOOLEAN,
         Sound(c), s \notin Subs(c), Cardinality(Subs(c)) < MaxSymbols,
         X!Register(c, s, l), up' \in [MexcClients -> BOOLEAN],
         up'[c] = l, l /\ ~up[c] => Subs(c) = {}, up[c] => l
  PROVE  Sound(c)' /\ Subs(c)' = Subs(c) \cup {s} /\ (l => leftover'[c] = {})
<1>1. /\ msubscribed'[c] = X!Entered(msubscribed[c], s) /\ pending'[c] = pending[c] \cup {s}
      /\ server'[c] = (IF l THEN X!Entered(server[c], s) ELSE server[c])
      /\ leftover'[c] = (IF l THEN leftover[c] ELSE leftover[c] \cup {s})
      /\ emptied'[c] = emptied[c]
  BY DEF X!Register, MexcTypes
<1>2. /\ DOMAIN X!Entered(msubscribed[c], s) = Subs(c) \cup {s}
      /\ X!Entered(msubscribed[c], s)[s] = 0
      /\ \A x \in Subs(c) : X!Entered(msubscribed[c], s)[x] = msubscribed[c][x]
  BY DEF X!Entered, Subs
<1>3. /\ DOMAIN X!Entered(server[c], s) = DOMAIN server[c] \cup {s}
      /\ X!Entered(server[c], s)[s] = 0
      /\ \A x \in DOMAIN server[c] : s # x => X!Entered(server[c], s)[x] = server[c][x]
  BY DEF X!Entered
<1>4. Subs(c)' = Subs(c) \cup {s}
  BY <1>1, <1>2 DEF Subs
<1>5. IsFiniteSet(Subs(c) \cup {s}) /\ Cardinality(Subs(c) \cup {s}) =< MaxSymbols
  <2>1. IsFiniteSet(Subs(c)) /\ Cardinality(Subs(c)) \in Nat
    BY FS_CardinalityType DEF Sound
  <2>2. IsFiniteSet(Subs(c) \cup {s}) /\ Cardinality(Subs(c) \cup {s}) = Cardinality(Subs(c)) + 1
    BY <2>1, FS_AddElement
  <2> QED
    BY <2>1, <2>2, MexcAssumption
<1>6. \A x \in Subs(c) \cup {s} : msubscribed'[c][x] \in 0 .. MaxUpdates
  BY <1>1, <1>2, MexcAssumption DEF Sound
<1>7. CASE l
  <2>1. leftover[c] = {} /\ DOMAIN server[c] = Subs(c)
    BY <1>7 DEF Sound, MexcTypes
  <2>2. \A x \in DOMAIN server'[c] : server'[c][x] \in Nat /\ msubscribed'[c][x] =< server'[c][x]
    BY <1>1, <1>2, <1>3, <1>7, <2>1 DEF Sound
  <2>3. \A x \in DOMAIN server'[c] : x \notin emptied'[c] => msubscribed'[c][x] = server'[c][x]
    BY <1>1, <1>2, <1>3, <1>7, <2>1 DEF Sound
  <2> QED
    BY <1>1, <1>3, <1>4, <1>5, <1>6, <1>7, <2>1, <2>2, <2>3 DEF Sound
<1>8. CASE ~l
  <2>1. ~up[c] /\ DOMAIN server[c] = {} /\ leftover[c] = Subs(c)
    BY <1>8 DEF Sound, MexcTypes
  <2> QED
    BY <1>1, <1>4, <1>5, <1>6, <1>8, <2>1 DEF Sound
<1> QED
  BY <1>4, <1>1, <1>7, <1>8 DEF Sound

(* What Register and its like leave typed.                                 *)
LEMMA RegisterTypes ==
  ASSUME MexcTypes, NEW c \in MexcClients, NEW s, NEW l \in BOOLEAN, X!Register(c, s, l)
  PROVE  /\ DOMAIN msubscribed' = MexcClients /\ DOMAIN pending' = MexcClients
         /\ DOMAIN server' = MexcClients /\ DOMAIN emptied' = MexcClients
         /\ DOMAIN leftover' = MexcClients
         /\ \A d \in MexcClients \ {c} :
              /\ msubscribed'[d] = msubscribed[d] /\ pending'[d] = pending[d]
              /\ server'[d] = server[d] /\ emptied'[d] = emptied[d] /\ leftover'[d] = leftover[d]
  BY DEF MexcTypes, X!Register

(* watch_orderbook(): the call begins.                                     *)
LEMMA WatchMoves ==
  ASSUME MexcInv, NEW s \in Symbols, X!WatchAgain(s) \/ X!WatchAnew(s)
  PROVE  MexcInv'
<1>0. /\ MexcTypes /\ Apart /\ CallHolds /\ OthersAreNew /\ call = << >>
      /\ mpool' = mpool /\ UNCHANGED <<up, msubscribed, pending, server, emptied, leftover>>
  BY DEF MexcInv, X!WatchAgain, X!WatchAnew, X!client
<1>1. /\ \A c : InPool(c)' = InPool(c) /\ Subs(c)' = Subs(c) /\ Alike(c)
      /\ \A c \in MexcClients : Sound(c)'
  BY <1>0, AlikeSound DEF MexcInv, InPool, Subs, Alike
<1>2. Apart'
  BY <1>0, <1>1 DEF Apart
<1>3. CASE X!WatchAgain(s)
  <2>1. PICK c \in MexcClients : InPool(c) /\ s \in Subs(c) /\ call' = [symbol |-> s, client |-> c, stage |-> "waiting"]
    BY <1>0, <1>3, HolderHas DEF X!WatchAgain
  <2>2. MexcTypes'
    BY <1>0, <2>1 DEF MexcTypes, Stages
  <2>3. CallHolds'
    BY <1>1, <2>1 DEF CallHolds
  <2>4. OthersAreNew'
    BY <1>0, <1>1, <2>1 DEF OthersAreNew, Called
  <2> QED
    BY <1>1, <1>2, <2>2, <2>3, <2>4 DEF MexcInv
<1>4. CASE X!WatchAnew(s)
  <2>1. PICK c \in MexcClients : c \notin X!ToSet(mpool) /\ call' = [symbol |-> s, client |-> c, stage |-> "connecting"]
    BY <1>4 DEF X!WatchAnew
  <2>2. ~InPool(c)
    BY <1>0, <2>1 DEF InPool, Occurs, X!ToSet, MexcTypes
  <2>3. ~up[c] /\ Subs(c) = {} /\ leftover[c] = {}
    BY <1>0, <2>2 DEF OthersAreNew, Called, MexcInv, Sound
  <2>4. \A d \in MexcClients : InPool(d) => s \notin Subs(d)
    BY <1>0, <1>4, HolderHas DEF X!WatchAnew
  <2>5. MexcTypes'
    BY <1>0, <2>1 DEF MexcTypes, Stages
  <2>6. CallHolds'
    BY <1>0, <1>1, <2>1, <2>2, <2>3, <2>4 DEF CallHolds
  <2>7. OthersAreNew'
    BY <1>0, <1>1, <2>1 DEF OthersAreNew, Called
  <2> QED
    BY <1>1, <1>2, <2>5, <2>6, <2>7 DEF MexcInv
<1> QED
  BY <1>3, <1>4

(* A symbol goes to a client with room, and a new client takes its first.  *)
LEMMA SubscribeMoves ==
  ASSUME MexcInv, NEW s \in Symbols, X!WatchThere(s)
  PROVE  MexcInv'
<1>0. MexcTypes /\ Apart /\ CallHolds /\ OthersAreNew /\ call = << >> /\ X!Holder(s) = {}
  BY DEF MexcInv, X!WatchThere
<1>1. PICK c \in X!Roomy :
        /\ X!Register(c, s, up[c])
        /\ call' = IF up[c] THEN [symbol |-> s, client |-> c, stage |-> "waiting"] ELSE << >>
        /\ mpool' = mpool /\ up' = up
  BY DEF X!WatchThere
<1>2. c \in MexcClients /\ InPool(c) /\ Cardinality(Subs(c)) < MaxSymbols /\ Sound(c) /\ up[c] \in BOOLEAN
  BY <1>0, RoomyHas DEF MexcInv, MexcTypes
<1>3. \A d \in MexcClients : InPool(d) => s \notin Subs(d)
  BY <1>0, HolderHas
<1>4. Sound(c)' /\ Subs(c)' = Subs(c) \cup {s}
  BY <1>0, <1>1, <1>2, <1>3, RegisterSound DEF MexcTypes
<1>5. \A d \in MexcClients \ {c} : Alike(d)
  BY <1>0, <1>1, <1>2, RegisterTypes DEF Alike
<1>6. /\ (\A d \in MexcClients : Sound(d))'
      /\ \A d \in MexcClients \ {c} : Subs(d)' = Subs(d) /\ up'[d] = up[d] /\ leftover'[d] = leftover[d]
  BY <1>2, <1>4, <1>5, OneClient
<1>7. \A d : InPool(d)' = InPool(d)
  BY <1>1 DEF InPool
<1>8. MexcTypes'
  <2>1. call' = << >> \/ call' \in [symbol : Symbols, client : MexcClients, stage : Stages]
    BY <1>1, <1>2 DEF Stages
  <2> QED
    BY <1>0, <1>1, <1>2, <2>1, RegisterTypes DEF MexcTypes
<1>9. Apart'
  <2>1. ASSUME NEW d \in MexcClients \ {c}, InPool(d)
        PROVE  (Subs(c) \cup {s}) \cap Subs(d) = {}
    BY <1>0, <1>2, <1>3, <2>1 DEF Apart
  <2> QED
    BY <1>0, <1>4, <1>6, <1>7, <2>1 DEF Apart
<1>10. CallHolds'
  BY <1>1, <1>2, <1>4, <1>7 DEF CallHolds
<1>11. OthersAreNew'
  BY <1>0, <1>2, <1>6, <1>7 DEF OthersAreNew, Called
<1> QED
  BY <1>6, <1>8, <1>9, <1>10, <1>11 DEF MexcInv

LEMMA ConnectMoves ==
  ASSUME MexcInv, X!Connected
  PROVE  MexcInv'
<1>0. MexcTypes /\ Apart /\ CallHolds /\ OthersAreNew /\ call # << >> /\ call.stage = "connecting"
  BY DEF MexcInv, X!Connected
<1>1. PICK c \in MexcClients, s \in Symbols :
        call.client = c /\ call.symbol = s /\ call' = [call EXCEPT !.stage = "waiting"]
  BY <1>0 DEF MexcTypes, X!Connected
<1>2. /\ mpool' = mpool /\ up' = [up EXCEPT ![c] = TRUE] /\ X!Register(c, s, TRUE)
  BY <1>1 DEF X!Connected
<1>3. /\ ~InPool(c) /\ ~up[c] /\ Subs(c) = {} /\ Sound(c)
      /\ \A d \in MexcClients : InPool(d) => s \notin Subs(d)
  BY <1>0, <1>1 DEF CallHolds, MexcInv
<1>4. Sound(c)' /\ Subs(c)' = {s} /\ leftover'[c] = {}
  <2>1. up' \in [MexcClients -> BOOLEAN] /\ up'[c] = TRUE
    BY <1>0, <1>2 DEF MexcTypes
  <2>2. Cardinality(Subs(c)) < MaxSymbols
    BY <1>3, FS_EmptySet, MexcAssumption
  <2>3. Sound(c)' /\ Subs(c)' = Subs(c) \cup {s} /\ (TRUE => leftover'[c] = {})
    BY <1>0, <1>2, <1>3, <2>1, <2>2, RegisterSound
  <2> QED
    BY <1>3, <2>3
<1>5. \A d \in MexcClients \ {c} : Alike(d)
  BY <1>0, <1>2, RegisterTypes DEF Alike, MexcTypes
<1>6. /\ (\A d \in MexcClients : Sound(d))'
      /\ \A d \in MexcClients \ {c} : Subs(d)' = Subs(d) /\ up'[d] = up[d] /\ leftover'[d] = leftover[d]
  BY <1>4, <1>5, OneClient
<1>7. \A d : InPool(d)' = InPool(d)
  BY <1>2 DEF InPool
<1>8. /\ call' \in [symbol : Symbols, client : MexcClients, stage : Stages]
      /\ call'.client = c /\ call'.symbol = s /\ call'.stage = "waiting"
  BY <1>0, <1>1 DEF MexcTypes, Stages
<1>9. MexcTypes'
  BY <1>0, <1>2, <1>8, RegisterTypes DEF MexcTypes
<1>10. Apart'
  BY <1>0, <1>3, <1>6, <1>7 DEF Apart
<1>11. CallHolds'
  BY <1>3, <1>4, <1>6, <1>7, <1>8 DEF CallHolds
<1>12. call' # << >>
  BY <1>8
<1>13. OthersAreNew'
  BY <1>0, <1>1, <1>6, <1>7, <1>8, <1>12 DEF OthersAreNew, Called
<1> QED
  BY <1>6, <1>9, <1>10, <1>11, <1>13 DEF MexcInv

(* A client that is dropped is as if it were new.                          *)
LEMMA ForgetSound ==
  ASSUME MexcTypes, NEW c \in MexcClients, X!Forget(c)
  PROVE  /\ Sound(c)' /\ Subs(c)' = {} /\ ~up'[c] /\ leftover'[c] = {}
         /\ \A d \in MexcClients \ {c} : Alike(d)
         /\ up' \in [MexcClients -> BOOLEAN]
         /\ DOMAIN msubscribed' = MexcClients /\ DOMAIN pending' = MexcClients
         /\ DOMAIN server' = MexcClients /\ DOMAIN emptied' = MexcClients /\ DOMAIN leftover' = MexcClients
<1>1. /\ msubscribed'[c] = << >> /\ pending'[c] = {} /\ server'[c] = << >> /\ leftover'[c] = {}
      /\ ~up'[c] /\ DOMAIN << >> = {}
  BY DEF X!Forget, MexcTypes
<1>2. IsFiniteSet({}) /\ Cardinality({}) = 0 /\ 0 =< MaxSymbols
  BY FS_EmptySet, MexcAssumption
<1>3. Sound(c)' /\ Subs(c)' = {}
  BY <1>1, <1>2 DEF Sound, Subs
<1> QED
  BY <1>1, <1>3 DEF X!Forget, MexcTypes, Alike

(* The end of a call: a client that was made for it joins the pool, or is  *)
(* dropped.                                                                *)
LEMMA EndMoves ==
  ASSUME MexcInv, X!ConnectFails \/ X!Return
  PROVE  MexcInv'
<1>0. MexcTypes /\ Apart /\ CallHolds /\ OthersAreNew /\ call # << >> /\ call' = << >>
  BY DEF MexcInv, X!ConnectFails, X!Return
<1>1. PICK c \in MexcClients : call.client = c
  BY <1>0 DEF MexcTypes
<1>2. CallHolds'
  BY <1>0 DEF CallHolds
<1>3. InPool(c) <=> c \in X!ToSet(mpool)
  BY <1>0 DEF InPool, Occurs, X!ToSet, MexcTypes
<1>4. \A d \in MexcClients : ~InPool(d) /\ d # c => ~up[d] /\ Subs(d) = {}
  BY <1>0, <1>1 DEF OthersAreNew, Called
<1>5. CASE mpool' = mpool /\ UNCHANGED X!client /\ (InPool(c) \/ (~up[c] /\ Subs(c) = {}))
  <2>1. /\ \A d : InPool(d)' = InPool(d) /\ Subs(d)' = Subs(d) /\ Alike(d)
        /\ \A d \in MexcClients : Sound(d)'
    BY <1>5, AlikeSound DEF MexcInv, InPool, Subs, Alike, X!client
  <2>2. MexcTypes'
    BY <1>0, <1>5 DEF MexcTypes, X!client
  <2>3. Apart'
    BY <1>0, <2>1 DEF Apart
  <2>4. OthersAreNew'
    BY <1>4, <1>5, <2>1 DEF OthersAreNew, X!client
  <2> QED
    BY <1>2, <2>1, <2>2, <2>3, <2>4 DEF MexcInv
<1>6. CASE ~InPool(c) /\ mpool' = Append(mpool, c) /\ UNCHANGED X!client
  <2>1. /\ \A d : Subs(d)' = Subs(d) /\ Alike(d)
        /\ \A d \in MexcClients : Sound(d)'
    BY <1>6, AlikeSound DEF MexcInv, Subs, Alike, X!client
  <2>2. \A d : InPool(d)' <=> InPool(d) \/ d = c
    <3>1. PICK r \in Seq(MexcClients), q \in Seq(MexcClients) : r = mpool /\ q = mpool'
      BY <1>0, <1>6 DEF MexcTypes
    <3>2. Len(q) = Len(r) + 1 /\ (\A n \in 1 .. Len(r) : q[n] = r[n]) /\ q[Len(r) + 1] = c
      BY <1>6, <3>1
    <3>3. \A d : Occurs(d, q) <=> Occurs(d, r) \/ d = c
      <4>1. \A n \in 1 .. Len(q) : n \in 1 .. Len(r) \/ n = Len(r) + 1
        BY <3>2
      <4>2. 1 .. Len(r) \subseteq 1 .. Len(q) /\ Len(r) + 1 \in 1 .. Len(q)
        BY <3>2
      <4> QED
        BY <3>2, <4>1, <4>2 DEF Occurs
    <3> QED
      BY <3>1, <3>3 DEF InPool
  <2>3. MexcTypes'
    <3>1. Once(mpool') /\ mpool' \in Seq(MexcClients)
      BY <1>0, <1>6, AppendedOnce DEF MexcTypes, InPool
    <3> QED
      BY <1>0, <1>6, <3>1 DEF MexcTypes, X!client
  <2>4. \A d \in MexcClients : InPool(d) => Subs(c) \cap Subs(d) = {}
    BY <1>0, <1>1, <1>6 DEF CallHolds
  <2>5. Apart'
    BY <1>0, <2>1, <2>2, <2>4 DEF Apart
  <2>6. OthersAreNew'
    BY <1>4, <1>6, <2>1, <2>2 DEF OthersAreNew, X!client
  <2> QED
    BY <1>2, <2>1, <2>3, <2>5, <2>6 DEF MexcInv
<1>7. CASE ~InPool(c) /\ mpool' = mpool /\ X!Forget(c)
  <2>1. /\ Sound(c)' /\ Subs(c)' = {} /\ ~up'[c]
        /\ \A d \in MexcClients \ {c} : Alike(d)
    BY <1>0, <1>7, ForgetSound
  <2>2. /\ (\A d \in MexcClients : Sound(d))'
        /\ \A d \in MexcClients \ {c} : Subs(d)' = Subs(d) /\ up'[d] = up[d] /\ leftover'[d] = leftover[d]
    BY <2>1, OneClient
  <2>3. \A d : InPool(d)' = InPool(d)
    BY <1>7 DEF InPool
  <2>4. MexcTypes'
    BY <1>0, <1>7, ForgetSound DEF MexcTypes
  <2>5. Apart'
    BY <1>0, <2>1, <2>2, <2>3 DEF Apart
  <2>6. OthersAreNew'
    BY <1>4, <2>1, <2>2, <2>3 DEF OthersAreNew
  <2> QED
    BY <1>2, <2>2, <2>4, <2>5, <2>6 DEF MexcInv
<1>8. CASE X!ConnectFails
  <2>1. ~up[c] /\ Subs(c) = {}
    BY <1>0, <1>1, <1>8 DEF CallHolds, X!ConnectFails
  <2> QED
    BY <1>5, <1>8, <2>1 DEF X!ConnectFails
<1>9. CASE X!Return
  <2>1. \/ InPool(c) /\ mpool' = mpool /\ UNCHANGED X!client
        \/ ~InPool(c) /\ mpool' = Append(mpool, c) /\ UNCHANGED X!client
        \/ ~InPool(c) /\ mpool' = mpool /\ X!Forget(c)
    BY <1>1, <1>3, <1>9 DEF X!Return
  <2> QED
    BY <1>5, <1>6, <1>7, <2>1
<1> QED
  BY <1>8, <1>9

(* Both books take sequences apart alike.                                  *)
LEMMA TakenOutAlike == \A q, e : X!RemoveFirst(q, e) = O!RemoveFirst(q, e)
  BY DEF X!RemoveFirst, X!RemoveAt, X!SelectInSeq, O!RemoveFirst, O!RemoveAt, O!SelectInSeq, X!Min, O!Min

(* A symbol leaves its client.                                             *)
LEMMA LeaveSound ==
  ASSUME MexcTypes, NEW c \in MexcClients, NEW s, Sound(c), X!Leave(c, s)
  PROVE  /\ Sound(c)' /\ Subs(c)' = Subs(c) \ {s}
         /\ \A d \in MexcClients \ {c} : Alike(d)
         /\ DOMAIN msubscribed' = MexcClients /\ DOMAIN pending' = MexcClients
         /\ DOMAIN server' = MexcClients /\ DOMAIN emptied' = MexcClients /\ DOMAIN leftover' = MexcClients
<1>1. /\ msubscribed'[c] = [x \in Subs(c) \ {s} |-> msubscribed[c][x]] /\ pending'[c] = pending[c] \ {s}
      /\ server'[c] = [x \in DOMAIN server[c] \ {s} |-> server[c][x]]
      /\ emptied'[c] = emptied[c] \ {s} /\ leftover'[c] = leftover[c] \ {s} /\ up'[c] = up[c]
  BY DEF X!Leave, X!Restrict, MexcTypes, Subs
<1>2. Subs(c)' = Subs(c) \ {s}
  BY <1>1 DEF Subs
<1>3. IsFiniteSet(Subs(c) \ {s}) /\ Cardinality(Subs(c) \ {s}) =< MaxSymbols
  <2>1. IsFiniteSet(Subs(c)) /\ Cardinality(Subs(c)) =< MaxSymbols /\ Cardinality(Subs(c)) \in Nat
    BY FS_CardinalityType DEF Sound
  <2>2. IsFiniteSet(Subs(c) \ {s}) /\ Cardinality(Subs(c) \ {s}) =< Cardinality(Subs(c))
    BY <2>1, FS_Subset
  <2>3. Cardinality(Subs(c) \ {s}) \in Nat
    BY <2>2, FS_CardinalityType
  <2> QED
    BY <2>1, <2>2, <2>3, MexcAssumption
<1>4. Sound(c)'
  <2>1. \A x \in Subs(c) \ {s} : msubscribed'[c][x] \in 0 .. MaxUpdates
    BY <1>1 DEF Sound
  <2>2. \A x \in DOMAIN server'[c] :
          /\ server'[c][x] \in Nat /\ msubscribed'[c][x] =< server'[c][x]
          /\ x \notin emptied'[c] => msubscribed'[c][x] = server'[c][x]
    <3>1. DOMAIN server[c] \subseteq Subs(c)
      BY DEF Sound, MexcTypes
    <3> QED
      BY <1>1, <3>1 DEF Sound
  <2> QED
    BY <1>1, <1>2, <1>3, <2>1, <2>2 DEF Sound
<1> QED
  BY <1>2, <1>4 DEF X!Leave, MexcTypes, Alike

(* unwatch_orderbook(): the symbol leaves its client, which leaves the     *)
(* pool when it has no other.                                              *)
LEMMA UnwatchMoves ==
  ASSUME MexcInv, NEW s \in Symbols, X!Unwatch(s)
  PROVE  MexcInv'
<1>0. MexcTypes /\ Apart /\ OthersAreNew /\ call = << >> /\ call' = << >>
  BY DEF MexcInv, X!Unwatch
<1>1. PICK c \in X!Holder(s) :
        IF up[c] /\ X!Count(c) = 1 THEN mpool' = X!RemoveFirst(mpool, c) /\ X!Forget(c)
        ELSE X!Leave(c, s) /\ mpool' = mpool
  BY DEF X!Unwatch
<1>2. c \in MexcClients /\ InPool(c) /\ Sound(c)
  BY <1>0, HolderHas DEF MexcInv
<1>3. CallHolds'
  BY <1>0 DEF CallHolds
<1>4. CASE mpool' = X!RemoveFirst(mpool, c) /\ X!Forget(c)
  <2>1. /\ Sound(c)' /\ Subs(c)' = {} /\ ~up'[c]
        /\ \A d \in MexcClients \ {c} : Alike(d)
    BY <1>0, <1>2, <1>4, ForgetSound
  <2>2. /\ (\A d \in MexcClients : Sound(d))'
        /\ \A d \in MexcClients \ {c} : Subs(d)' = Subs(d) /\ up'[d] = up[d] /\ leftover'[d] = leftover[d]
    BY <1>2, <2>1, OneClient
  <2>3. /\ mpool' \in Seq(MexcClients \ {c}) /\ Once(mpool')
        /\ \A d : InPool(d)' <=> d # c /\ InPool(d)
    <3>1. mpool' = O!RemoveFirst(mpool, c)
      BY <1>4, TakenOutAlike
    <3> QED
      BY <1>0, <3>1, RemovedFirst DEF MexcTypes, InPool
  <2>4. mpool' \in Seq(MexcClients)
    <3>1. MexcClients \ {c} \subseteq MexcClients
      OBVIOUS
    <3> QED
      BY <2>3, <3>1
  <2>5. MexcTypes'
    BY <1>0, <1>2, <1>4, <2>3, <2>4, ForgetSound DEF MexcTypes
  <2>6. Apart'
    BY <1>0, <2>1, <2>2, <2>3 DEF Apart
  <2>7. OthersAreNew'
    BY <1>0, <2>1, <2>2, <2>3 DEF OthersAreNew, Called
  <2> QED
    BY <1>3, <2>2, <2>5, <2>6, <2>7 DEF MexcInv
<1>5. CASE X!Leave(c, s) /\ mpool' = mpool
  <2>1. /\ Sound(c)' /\ Subs(c)' = Subs(c) \ {s} /\ up' = up
        /\ \A d \in MexcClients \ {c} : Alike(d)
    BY <1>0, <1>2, <1>5, LeaveSound DEF X!Leave
  <2>2. /\ (\A d \in MexcClients : Sound(d))'
        /\ \A d \in MexcClients \ {c} : Subs(d)' = Subs(d) /\ up'[d] = up[d] /\ leftover'[d] = leftover[d]
    BY <1>2, <2>1, OneClient
  <2>3. \A d : InPool(d)' = InPool(d)
    BY <1>5 DEF InPool
  <2>4. MexcTypes'
    BY <1>0, <1>2, <1>5, <2>1, LeaveSound DEF MexcTypes
  <2>5. Apart'
    BY <1>0, <2>1, <2>2, <2>3 DEF Apart
  <2>6. OthersAreNew'
    BY <1>0, <1>2, <2>1, <2>2, <2>3 DEF OthersAreNew, Called
  <2> QED
    BY <1>3, <2>2, <2>4, <2>5, <2>6 DEF MexcInv
<1> QED
  BY <1>1, <1>4, <1>5

(* A callback changes the books of its client, and the call that waits for *)
(* one of them ends.                                                       *)
LEMMA CallbackMoves ==
  ASSUME MexcInv, NEW c \in MexcClients, MexcTypes', Sound(c)', mpool' = mpool,
         \A d \in MexcClients \ {c} : Alike(d),
         \/ Subs(c)' = Subs(c) /\ up'[c] = up[c] /\ leftover'[c] = leftover[c]
         \/ Subs(c)' = {} /\ up[c] /\ ~up'[c] /\ leftover'[c] = leftover[c] /\ ~(call' # << >> /\ call'.client = c /\ call'.stage = "waiting"),
         call # << >> => /\ call' # << >> /\ call'.client = call.client /\ call'.symbol = call.symbol
                         /\ call'.stage = call.stage \/ call'.stage \in {"answered", "failed"},
         call = << >> => call' = << >>
  PROVE  MexcInv'
<1>0. Apart /\ CallHolds /\ OthersAreNew
  BY DEF MexcInv
<1>1. /\ (\A d \in MexcClients : Sound(d))'
      /\ \A d \in MexcClients \ {c} : Subs(d)' = Subs(d) /\ up'[d] = up[d] /\ leftover'[d] = leftover[d]
  BY OneClient
<1>2. \A d : InPool(d)' = InPool(d)
  BY DEF InPool
<1>3. \A d \in MexcClients : Subs(d)' \subseteq Subs(d) /\ leftover'[d] = leftover[d] /\ (up'[d] => up[d])
  BY <1>1
<1>4. Apart'
  BY <1>0, <1>2, <1>3 DEF Apart
<1>5. OthersAreNew'
  <2>1. ASSUME NEW d \in MexcClients, ~InPool(d), ~Called(d)'
        PROVE  ~Called(d)
    BY <2>1 DEF Called
  <2> QED
    BY <1>0, <1>2, <1>3, <2>1 DEF OthersAreNew
<1>6. CallHolds'
  <2>1. SUFFICES ASSUME call # << >>, call' # << >> PROVE CallHolds'
    BY DEF CallHolds
  <2>2. PICK d \in MexcClients, s \in Symbols : call.client = d /\ call.symbol = s
    BY <2>1 DEF MexcInv, MexcTypes
  <2>3. call'.client = d /\ call'.symbol = s
    BY <2>1, <2>2
  <2>4. call'.stage = "connecting" => call.stage = "connecting"
    BY <2>1
  <2>5. call'.stage = "waiting" => call.stage = "waiting" /\ Subs(d)' = Subs(d)
    BY <1>1, <2>1, <2>3
  <2>6. \A e \in MexcClients : InPool(e) /\ s \notin Subs(e) => s \notin Subs(e)'
    BY <1>3
  <2>7. /\ call.stage = "connecting" => ~InPool(d) /\ ~up[d] /\ Subs(d) = {}
        /\ call.stage = "waiting" => s \in Subs(d)
        /\ ~InPool(d) => /\ Subs(d) \subseteq {s} /\ leftover[d] = {}
                         /\ \A e \in MexcClients : InPool(e) => s \notin Subs(e)
    BY <1>0, <2>1, <2>2 DEF CallHolds
  <2>8. /\ call'.stage = "connecting" => ~InPool(d) /\ ~up'[d] /\ Subs(d)' = {}
        /\ call'.stage = "waiting" => s \in Subs(d)'
        /\ ~InPool(d) => /\ Subs(d)' \subseteq {s} /\ leftover'[d] = {}
                         /\ \A e \in MexcClients : InPool(e) => s \notin Subs(e)'
    BY <1>3, <2>2, <2>4, <2>5, <2>6, <2>7
  <2> QED
    BY <1>2, <2>3, <2>8 DEF CallHolds
<1> QED
  BY <1>1, <1>4, <1>5, <1>6 DEF MexcInv

LEMMA UpdateMoves ==
  ASSUME MexcInv, NEW c \in MexcClients, NEW s \in Symbols, NEW n \in 0 .. 2, X!Update(c, s, n)
  PROVE  MexcInv'
<1>0. MexcTypes /\ Sound(c) /\ up[c] /\ s \in DOMAIN server[c] /\ server[c][s] + n =< MaxUpdates
  BY DEF MexcInv, X!Update
<1>1. /\ server' = [server EXCEPT ![c][s] = @ + n] /\ msubscribed' = [msubscribed EXCEPT ![c][s] = @ + n]
      /\ call' = IF X!Waiting(c, s) /\ n > 0 THEN [call EXCEPT !.stage = "answered"] ELSE call
      /\ UNCHANGED <<mpool, up, pending, emptied, leftover>>
  BY DEF X!Update
<1>2. s \in Subs(c) /\ DOMAIN server[c] = Subs(c)
  BY <1>0 DEF Sound
<1>3. /\ DOMAIN server'[c] = Subs(c) /\ Subs(c)' = Subs(c)
      /\ server'[c][s] = server[c][s] + n /\ msubscribed'[c][s] = msubscribed[c][s] + n
      /\ \A x \in Subs(c) \ {s} : server'[c][x] = server[c][x] /\ msubscribed'[c][x] = msubscribed[c][x]
  BY <1>0, <1>1, <1>2 DEF MexcTypes, Subs
<1>4. Sound(c)'
  <2>1. /\ server[c][s] \in Nat /\ msubscribed[c][s] =< server[c][s] /\ msubscribed[c][s] \in 0 .. MaxUpdates
        /\ s \notin emptied[c] => msubscribed[c][s] = server[c][s]
    BY <1>0, <1>2 DEF Sound
  <2>2. /\ server'[c][s] \in Nat /\ msubscribed'[c][s] =< server'[c][s] /\ msubscribed'[c][s] \in 0 .. MaxUpdates
        /\ s \notin emptied'[c] => msubscribed'[c][s] = server'[c][s]
    BY <1>0, <1>1, <1>3, <2>1, MexcAssumption
  <2> QED
    BY <1>0, <1>1, <1>2, <1>3, <2>2 DEF Sound
<1>5. \A d \in MexcClients \ {c} : Alike(d)
  BY <1>0, <1>1 DEF Alike, MexcTypes
<1>6. /\ call # << >> => /\ call' # << >> /\ call'.client = call.client /\ call'.symbol = call.symbol
                         /\ call'.stage = call.stage \/ call'.stage \in {"answered", "failed"}
      /\ call = << >> => call' = << >>
      /\ call' = << >> \/ call' \in [symbol : Symbols, client : MexcClients, stage : Stages]
  BY <1>0, <1>1 DEF X!Waiting, MexcTypes, Stages
<1>7. MexcTypes'
  BY <1>0, <1>1, <1>6 DEF MexcTypes
<1> QED
  BY <1>1, <1>3, <1>4, <1>5, <1>6, <1>7, CallbackMoves

LEMMA BodylessMoves ==
  ASSUME MexcInv, NEW c \in MexcClients, NEW s \in Symbols, X!Bodyless(c, s)
  PROVE  MexcInv'
<1>0. MexcTypes /\ Sound(c) /\ up[c] /\ s \in DOMAIN server[c]
  BY DEF MexcInv, X!Bodyless
<1>1. /\ msubscribed' = [msubscribed EXCEPT ![c][s] = 0] /\ emptied' = [emptied EXCEPT ![c] = @ \cup {s}]
      /\ UNCHANGED <<mpool, up, pending, server, leftover, call>>
  BY DEF X!Bodyless
<1>2. s \in Subs(c) /\ DOMAIN server[c] = Subs(c)
  BY <1>0 DEF Sound
<1>3. /\ Subs(c)' = Subs(c) /\ msubscribed'[c][s] = 0 /\ emptied'[c] = emptied[c] \cup {s}
      /\ \A x \in Subs(c) \ {s} : msubscribed'[c][x] = msubscribed[c][x]
  BY <1>0, <1>1, <1>2 DEF MexcTypes, Subs
<1>4. Sound(c)'
  <2>1. \A x \in Subs(c) : server[c][x] \in Nat
    BY <1>0, <1>2 DEF Sound
  <2>2. \A x \in Subs(c) : msubscribed'[c][x] \in 0 .. MaxUpdates /\ msubscribed'[c][x] =< server'[c][x]
    BY <1>0, <1>1, <1>2, <1>3, <2>1, MexcAssumption DEF Sound
  <2> QED
    BY <1>0, <1>1, <1>2, <1>3, <2>1, <2>2 DEF Sound
<1>5. \A d \in MexcClients \ {c} : Alike(d)
  BY <1>0, <1>1 DEF Alike, MexcTypes
<1>6. MexcTypes'
  BY <1>0, <1>1 DEF MexcTypes
<1> QED
  BY <1>1, <1>3, <1>4, <1>5, <1>6, CallbackMoves

LEMMA FailMoves ==
  ASSUME MexcInv, NEW c \in MexcClients, X!Fail(c)
  PROVE  MexcInv'
<1>0. MexcTypes /\ Sound(c) /\ up[c]
  BY DEF MexcInv, X!Fail
<1>1. /\ up' = [up EXCEPT ![c] = FALSE] /\ server' = [server EXCEPT ![c] = << >>]
      /\ msubscribed' = [msubscribed EXCEPT ![c] = << >>] /\ pending' = [pending EXCEPT ![c] = {}]
      /\ emptied' = [emptied EXCEPT ![c] = {}]
      /\ call' = IF call # << >> /\ call.client = c /\ call.stage = "waiting"
                 THEN [call EXCEPT !.stage = "failed"] ELSE call
      /\ mpool' = mpool /\ leftover' = leftover
  BY DEF X!Fail
<1>2. /\ ~up'[c] /\ server'[c] = << >> /\ msubscribed'[c] = << >> /\ pending'[c] = {}
      /\ leftover'[c] = {} /\ leftover[c] = {} /\ DOMAIN << >> = {}
  BY <1>0, <1>1 DEF MexcTypes, Sound
<1>3. Sound(c)' /\ Subs(c)' = {}
  <2>1. IsFiniteSet({}) /\ Cardinality({}) = 0 /\ 0 =< MaxSymbols
    BY FS_EmptySet, MexcAssumption
  <2> QED
    BY <1>2, <2>1 DEF Sound, Subs
<1>4. \A d \in MexcClients \ {c} : Alike(d)
  BY <1>0, <1>1 DEF Alike, MexcTypes
<1>5. /\ call # << >> => /\ call' # << >> /\ call'.client = call.client /\ call'.symbol = call.symbol
                         /\ call'.stage = call.stage \/ call'.stage \in {"answered", "failed"}
      /\ call = << >> => call' = << >>
      /\ call' = << >> \/ call' \in [symbol : Symbols, client : MexcClients, stage : Stages]
      /\ ~(call' # << >> /\ call'.client = c /\ call'.stage = "waiting")
  BY <1>0, <1>1 DEF MexcTypes, Stages
<1>6. MexcTypes'
  BY <1>0, <1>1, <1>5 DEF MexcTypes
<1> QED
  BY <1>0, <1>1, <1>2, <1>3, <1>4, <1>5, <1>6, CallbackMoves

LEMMA NextMexc == MexcInv /\ [PartsNext]_parts => MexcInv'
<1> SUFFICES ASSUME MexcInv, [X!Next]_mexc PROVE MexcInv'
  BY MexcMoves
<1>1. CASE UNCHANGED mexc
  <2>1. /\ mpool' = mpool /\ call' = call
        /\ UNCHANGED <<up, msubscribed, pending, server, emptied, leftover>>
    BY <1>1 DEF mexc
  <2>2. \A c : InPool(c)' = InPool(c) /\ Subs(c)' = Subs(c) /\ Called(c)' = Called(c) /\ Alike(c)
    BY <2>1 DEF InPool, Subs, Called, Alike
  <2>3. \A c \in MexcClients : Sound(c)'
    BY <2>2, AlikeSound DEF MexcInv
  <2>4. MexcTypes'
    BY <2>1 DEF MexcInv, MexcTypes
  <2>5. Apart'
    BY <2>2 DEF MexcInv, Apart
  <2>6. CallHolds'
    BY <2>1, <2>2 DEF MexcInv, CallHolds
  <2>7. OthersAreNew'
    BY <2>1, <2>2 DEF MexcInv, OthersAreNew
  <2> QED
    BY <2>3, <2>4, <2>5, <2>6, <2>7 DEF MexcInv
<1>2. CASE X!Next
  BY <1>2, WatchMoves, SubscribeMoves, ConnectMoves, EndMoves, UnwatchMoves, UpdateMoves, BodylessMoves,
     FailMoves DEF X!Next
<1> QED
  BY <1>1, <1>2

LEMMA MexcInvariant == PartsSpec => []MexcInv
<1>1. PartsInit => MexcInv
  BY InitMexc DEF PartsInit
<1> QED
  BY <1>1, NextMexc, PTL DEF PartsSpec

(* Every registered symbol is with one client, which streams it while its  *)
(* socket is up, and whose book lacks no update of the stream unless a     *)
(* message without a body emptied it; a call waits in vain only for a      *)
(* symbol whose subscription failed.                                       *)
THEOREM RegisteredSymbolsAreStreamed == PartsSpec => []StreamsAreHeld
<1>1. ASSUME MexcInv PROVE X!StreamsAreHeld
  <2>1. \A c \in X!ToSet(mpool) : c \in MexcClients /\ InPool(c)
    BY <1>1 DEF MexcInv, MexcTypes, X!ToSet, InPool, Occurs
  <2>2. \A c, d \in X!ToSet(mpool) : c # d => Subs(c) \cap Subs(d) = {}
    BY <1>1, <2>1 DEF MexcInv, Apart
  <2>3. ASSUME NEW c \in MexcClients
        PROVE  /\ up[c] => DOMAIN server[c] = Subs(c) \ leftover[c] /\ leftover[c] = {}
               /\ ~up[c] => Subs(c) = leftover[c]
               /\ \A s \in DOMAIN server[c] \ emptied[c] : msubscribed[c][s] = server[c][s]
    BY <1>1, <2>3 DEF MexcInv, Sound
  <2>4. ASSUME call # << >>, call.stage = "waiting"
        PROVE  \/ up[call.client] /\ call.symbol \in DOMAIN server[call.client]
               \/ call.symbol \in leftover[call.client]
    <3>1. call.client \in MexcClients /\ call.symbol \in Subs(call.client)
      BY <1>1, <2>4 DEF MexcInv, MexcTypes, CallHolds
    <3> QED
      BY <1>1, <3>1 DEF MexcInv, MexcTypes, Sound
  <2> QED
    BY <2>2, <2>3, <2>4 DEF X!StreamsAreHeld, Subs
<1>2. MexcInv => StreamsAreHeld
  BY <1>1 DEF StreamsAreHeld
<1> QED
  BY <1>2, MexcInvariant, PTL
=============================================================================
