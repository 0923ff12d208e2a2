---------------------------- MODULE ExchangeProofs ----------------------------
(***************************************************************************)
(* Proofs about Exchange: the handlers of run() always know the orders     *)
(* they left on the book, no order of ours trades with another, one leg of *)
(* a Quote at most trades as it arrives, and the events of the feed        *)
(* describe the book, each legal on the one before it;                     *)
(* for any prices, quantities, number of levels and number of orders.      *)
(***************************************************************************)
EXTENDS Exchange, OrderBookProofs

-----------------------------------------------------------------------------
(* A trail of events *)

\* The books and the ids of the latest Add along a sequence of events, from
\* book b and id n to book c and id m; every event is legal where it happens.
IsTrail(books, lasts, b, n, es, c, m) ==
  /\ books[1] = b /\ lasts[1] = n
  /\ books[Len(es) + 1] = c /\ lasts[Len(es) + 1] = m
  /\ \A i \in 1 .. Len(es) :
       /\ Legal(books[i], lasts[i], es[i])
       /\ books[i + 1] = Replay(books[i], es[i])
       /\ lasts[i + 1] = LatestAdd(lasts[i], es[i])
  /\ \A i \in 1 .. Len(es) + 1 : IsBook(books[i], Prices) /\ lasts[i] \in Nat

Leads(b, n, es, c, m) ==
  es \in Seq(Events) /\ \E books, lasts : IsTrail(books, lasts, b, n, es, c, m)

LEMMA NoEvents ==
  ASSUME NEW b, IsBook(b, Prices), NEW n \in Nat
  PROVE  Leads(b, n, <<>>, b, n)
<1> DEFINE books == [i \in {1} |-> b]
           lasts == [i \in {1} |-> n]
<1>1. /\ books[1] = b /\ lasts[1] = n
      /\ Len(<<>>) = 0 /\ 1 .. 0 = {} /\ 1 .. 0 + 1 = {1} /\ <<>> \in Seq(Events)
  OBVIOUS
<1> HIDE DEF books, lasts
<1>2. IsTrail(books, lasts, b, n, <<>>, b, n)
  BY <1>1 DEF IsTrail
<1>3. QED
  BY <1>1, <1>2 DEF Leads

LEMMA NothingHappened ==
  ASSUME NEW b, NEW n, NEW c, NEW m, Leads(b, n, <<>>, c, m)
  PROVE  c = b /\ m = n
BY DEF Leads, IsTrail

LEMMA TrailEnds ==
  ASSUME NEW b, NEW n, NEW es, NEW c, NEW m, Leads(b, n, es, c, m)
  PROVE  IsBook(b, Prices) /\ n \in Nat /\ IsBook(c, Prices) /\ m \in Nat
<1>1. PICK books, lasts : IsTrail(books, lasts, b, n, es, c, m)
  BY DEF Leads
<1>2. Len(es) \in Nat
  BY DEF Leads
<1>3. 1 \in 1 .. Len(es) + 1 /\ Len(es) + 1 \in 1 .. Len(es) + 1
  BY <1>2
<1>4. QED
  BY <1>1, <1>3 DEF IsTrail

(* One more event, legal on the book reached. *)
LEMMA OneMoreEvent ==
  ASSUME NEW b, NEW n, NEW es, NEW c, NEW m, Leads(b, n, es, c, m),
         NEW e \in Events, Legal(c, m, e),
         IsBook(Replay(c, e), Prices), LatestAdd(m, e) \in Nat
  PROVE  Leads(b, n, Append(es, e), Replay(c, e), LatestAdd(m, e))
<1>1. PICK books, lasts : IsTrail(books, lasts, b, n, es, c, m)
  BY DEF Leads
<1> DEFINE len == Len(es)
           books2 == [i \in 1 .. len + 2 |-> IF i = len + 2 THEN Replay(c, e) ELSE books[i]]
           lasts2 == [i \in 1 .. len + 2 |-> IF i = len + 2 THEN LatestAdd(m, e) ELSE lasts[i]]
           es2 == Append(es, e)
<1>2. /\ len \in Nat /\ es2 \in Seq(Events) /\ Len(es2) = len + 1
      /\ es2[len + 1] = e /\ \A i \in 1 .. len : es2[i] = es[i]
  BY DEF Leads
<1>3. /\ \A i \in 1 .. len + 1 : books2[i] = books[i] /\ lasts2[i] = lasts[i]
      /\ books2[len + 2] = Replay(c, e) /\ lasts2[len + 2] = LatestAdd(m, e)
  BY <1>2
<1> HIDE DEF books2, lasts2, es2
<1>4. /\ books[1] = b /\ lasts[1] = n /\ books[len + 1] = c /\ lasts[len + 1] = m
      /\ \A i \in 1 .. len :
           /\ Legal(books[i], lasts[i], es[i])
           /\ books[i + 1] = Replay(books[i], es[i])
           /\ lasts[i + 1] = LatestAdd(lasts[i], es[i])
      /\ \A i \in 1 .. len + 1 : IsBook(books[i], Prices) /\ lasts[i] \in Nat
  BY <1>1 DEF IsTrail
<1> HIDE DEF len
<1>5. /\ books2[1] = b /\ lasts2[1] = n
      /\ books2[len + 2] = Replay(c, e) /\ lasts2[len + 2] = LatestAdd(m, e)
  BY <1>2, <1>3, <1>4
<1>6. ASSUME NEW i \in 1 .. len + 1
      PROVE  /\ Legal(books2[i], lasts2[i], es2[i])
             /\ books2[i + 1] = Replay(books2[i], es2[i])
             /\ lasts2[i + 1] = LatestAdd(lasts2[i], es2[i])
  <2>1. CASE i = len + 1
    <3>1. books2[i] = c /\ lasts2[i] = m /\ es2[i] = e /\ i + 1 = len + 2
      BY <1>2, <1>3, <1>4, <2>1
    <3>2. QED
      BY <1>5, <3>1
  <2>2. CASE i # len + 1
    <3>1. i \in 1 .. len /\ i + 1 \in 1 .. len + 1
      BY <1>2, <2>2
    <3>2. QED
      BY <1>2, <1>3, <1>4, <3>1
  <2>3. QED
    BY <2>1, <2>2
<1>7. ASSUME NEW i \in 1 .. len + 2 PROVE IsBook(books2[i], Prices) /\ lasts2[i] \in Nat
  <2>1. CASE i = len + 2
    BY <1>3, <2>1
  <2>2. CASE i # len + 2
    <3>1. i \in 1 .. len + 1
      BY <1>2, <2>2
    <3>2. QED
      BY <1>3, <1>4, <3>1
  <2>3. QED
    BY <2>1, <2>2
<1>8. Len(es2) + 1 = len + 2
  BY <1>2
<1>9. IsTrail(books2, lasts2, b, n, es2, Replay(c, e), LatestAdd(m, e))
  BY <1>2, <1>5, <1>6, <1>7, <1>8 DEF IsTrail
<1>10. QED
  BY <1>2, <1>9 DEF Leads, es2

(* The first event happens, and the rest of the trail is still ahead. *)
LEMMA FirstEvent ==
  ASSUME NEW b, NEW n, NEW es, NEW c, NEW m, Leads(b, n, es, c, m), es # <<>>
  PROVE  /\ Head(es) \in Events /\ Legal(b, n, Head(es))
         /\ Leads(Replay(b, Head(es)), LatestAdd(n, Head(es)), Tail(es), c, m)
<1>1. PICK books, lasts : IsTrail(books, lasts, b, n, es, c, m)
  BY DEF Leads
<1> DEFINE len == Len(es)
           books2 == [i \in 1 .. len |-> books[i + 1]]
           lasts2 == [i \in 1 .. len |-> lasts[i + 1]]
           rest == Tail(es)
<1>2. /\ len \in Nat \ {0} /\ rest \in Seq(Events) /\ Len(rest) = len - 1
      /\ \A i \in 1 .. len - 1 : rest[i] = es[i + 1]
      /\ Head(es) \in Events /\ Head(es) = es[1]
  BY DEF Leads
<1>3. /\ books[1] = b /\ lasts[1] = n /\ books[len + 1] = c /\ lasts[len + 1] = m
      /\ \A i \in 1 .. len :
           /\ Legal(books[i], lasts[i], es[i])
           /\ books[i + 1] = Replay(books[i], es[i])
           /\ lasts[i + 1] = LatestAdd(lasts[i], es[i])
      /\ \A i \in 1 .. len + 1 : IsBook(books[i], Prices) /\ lasts[i] \in Nat
  BY <1>1 DEF IsTrail
<1>4. \A i \in 1 .. len : books2[i] = books[i + 1] /\ lasts2[i] = lasts[i + 1]
  OBVIOUS
<1> HIDE DEF books2, lasts2, rest, len
<1>5. /\ Legal(b, n, Head(es))
      /\ books2[1] = Replay(b, Head(es)) /\ lasts2[1] = LatestAdd(n, Head(es))
      /\ books2[len] = c /\ lasts2[len] = m
  <2>1. 1 \in 1 .. len /\ len \in 1 .. len
    BY <1>2
  <2>2. QED
    BY <1>2, <1>3, <1>4, <2>1
<1>6. ASSUME NEW i \in 1 .. len - 1
      PROVE  /\ Legal(books2[i], lasts2[i], rest[i])
             /\ books2[i + 1] = Replay(books2[i], rest[i])
             /\ lasts2[i + 1] = LatestAdd(lasts2[i], rest[i])
  <2>1. i \in 1 .. len /\ i + 1 \in 1 .. len
    BY <1>2
  <2>2. QED
    BY <1>2, <1>3, <1>4, <2>1
<1>7. ASSUME NEW i \in 1 .. len PROVE IsBook(books2[i], Prices) /\ lasts2[i] \in Nat
  <2>1. i + 1 \in 1 .. len + 1
    BY <1>2
  <2>2. QED
    BY <1>3, <1>4, <2>1
<1>8. Len(rest) + 1 = len
  BY <1>2
<1>9. IsTrail(books2, lasts2, Replay(b, Head(es)), LatestAdd(n, Head(es)), rest, c, m)
  BY <1>2, <1>5, <1>6, <1>7, <1>8 DEF IsTrail
<1>10. QED
  BY <1>2, <1>5, <1>9 DEF Leads, rest

-----------------------------------------------------------------------------
(* What each event does to a trail *)

LEMMA AddOnTrail ==
  ASSUME NEW b, NEW n, NEW es, NEW c, NEW m, Leads(b, n, es, c, m),
         NEW s \in Side, NEW p \in Prices, NEW o \in Order,
         o.id \in 1 .. MaxId, o.qty \in Qtys, o.id > m,
         \A x \in DOMAIN c[Opposite(s)] : ~ Crosses(s, p, x),
         o.ours => ~ OwnOrderOn(c, s),
         IsBook(RestOrder(c, s, p, o), Prices)
  PROVE  Leads(b, n, Append(es, AddOf(s, p, o)), RestOrder(c, s, p, o), o.id)
<1> DEFINE e == AddOf(s, p, o)
<1>1. /\ e.kind = "Add" /\ e.side = s /\ e.price = p /\ e.id = o.id
      /\ e.qty = o.qty /\ e.ours = o.ours
  BY DEF AddOf
<1>2. e \in Events
  <2> DEFINE u == [id |-> o.id, qty |-> o.qty, ours |-> o.ours]
  <2>1. e = AddOf(s, p, u)
    BY DEF AddOf
  <2>2. o.id \in 1 .. MaxId /\ o.qty \in Qtys /\ o.ours \in BOOLEAN
    BY DEF Order
  <2>3. QED
    BY <2>1, <2>2 DEF Events
<1> HIDE DEF e
<1>3. [id |-> e.id, qty |-> e.qty, ours |-> e.ours] = o
  BY <1>1 DEF Order
<1>4. Legal(c, m, e)
  BY <1>1 DEF Legal, CanAdd
<1>5. Replay(c, e) = RestOrder(c, s, p, o) /\ LatestAdd(m, e) = o.id
  BY <1>1, <1>3 DEF Replay, LatestAdd
<1>6. o.id \in Nat
  BY DEF Order
<1>7. QED
  BY <1>2, <1>4, <1>5, <1>6, OneMoreEvent DEF e

LEMMA CancelOnTrail ==
  ASSUME NEW b, NEW n, NEW es, NEW c, NEW m, Leads(b, n, es, c, m),
         NEW s \in Side, NEW p \in Prices, NEW id \in 1 .. MaxId,
         HasOrder(c, s, p, id), IsBook(CancelOrder(c, s, p, id), Prices)
  PROVE  Leads(b, n, Append(es, CancelOf(s, p, id)), CancelOrder(c, s, p, id), m)
<1> DEFINE e == CancelOf(s, p, id)
<1>1. e.kind = "Cancel" /\ e.side = s /\ e.price = p /\ e.id = id
  BY DEF CancelOf
<1>2. e \in Events
  BY DEF Events
<1> HIDE DEF e
<1>3. Legal(c, m, e)
  BY <1>1 DEF Legal, CanCancel
<1>4. Replay(c, e) = CancelOrder(c, s, p, id) /\ LatestAdd(m, e) = m
  BY <1>1 DEF Replay, LatestAdd
<1>5. m \in Nat
  BY TrailEnds
<1>6. QED
  BY <1>2, <1>3, <1>4, <1>5, OneMoreEvent DEF e

LEMMA TradeOnTrail ==
  ASSUME NEW b, NEW n, NEW es, NEW c, NEW m, Leads(b, n, es, c, m),
         Sound(c, Prices), IdsUpTo(c, MaxId),
         NEW s \in Side, NEW p, IsBest(c, s, p),
         NEW qty \in Qtys, qty <= c[s][p][1].qty
  PROVE  Leads(b, n, Append(es, TradeOf(s, p, c[s][p][1].id, qty, c[s][p][1].ours)),
               FillFront(c, s, p, qty), m)
<1> DEFINE front == c[s][p][1]
           e == TradeOf(s, p, front.id, qty, front.ours)
<1>1. /\ e.kind = "Trade" /\ e.side = s /\ e.price = p /\ e.id = front.id
      /\ e.qty = qty /\ e.ours = front.ours
  BY DEF TradeOf
<1>2. /\ p \in DOMAIN c[s] /\ p \in Prices
      /\ 1 \in DOMAIN c[s][p] /\ front \in Order
  <2>1. p \in DOMAIN c[s]
    BY DEF IsBest
  <2>2. p \in Prices /\ c[s][p] \in Seq(Order) /\ c[s][p] # <<>>
    BY <2>1 DEF Sound, IsBook, LiveBook
  <2>3. QED
    BY <2>1, <2>2
<1>3. front.id \in 1 .. MaxId /\ front.ours \in BOOLEAN
  BY <1>2 DEF IdsUpTo, Order
<1>4. e \in Events
  BY <1>2, <1>3 DEF Events
<1>5. qty \in Nat
  BY FeedAssumption
<1>6. ApplyTrade(c, s, p, front.id, qty) = FillFront(c, s, p, qty)
  BY <1>2, <1>5, FrontTrade
<1>7. IsBook(FillFront(c, s, p, qty), Prices)
  BY <1>2, <1>5, FillSound DEF Sound
<1> HIDE DEF e
<1>8. Legal(c, m, e)
  BY <1>1 DEF Legal, CanTrade
<1>9. Replay(c, e) = FillFront(c, s, p, qty) /\ LatestAdd(m, e) = m
  BY <1>1, <1>6 DEF Replay, LatestAdd
<1>10. m \in Nat
  BY TrailEnds
<1>11. QED
  BY <1>4, <1>7, <1>8, <1>9, <1>10, OneMoreEvent DEF e

-----------------------------------------------------------------------------
(* The operations of Matching, on the book of this module *)

LEMMA EngineBook ==
  /\ \A b, s, p, q : Engine!FillFront(b, s, p, q) = FillFront(b, s, p, q)
  /\ \A b, s, p, o : Engine!RestOrder(b, s, p, o) = RestOrder(b, s, p, o)
  /\ \A b, s, p : Engine!IsBest(b, s, p) <=> IsBest(b, s, p)
  /\ \A s, p, q : Engine!Crosses(s, p, q) <=> Crosses(s, p, q)
  /\ \A s : Engine!Opposite(s) = Opposite(s)
  /\ Engine!Side = Side
  /\ Engine!Order = Order
  /\ \A b, P : Engine!IsBook(b, P) <=> IsBook(b, P)
BY DEF Engine!FillFront, FillFront, Engine!RestOrder, RestOrder, Engine!IsBest, IsBest,
  Engine!Crosses, Crosses, Engine!Opposite, Opposite, Engine!Side, Side, Engine!Order, Order,
  Engine!IsBook, IsBook, Engine!SetQueue, SetQueue, Engine!QueueAt, QueueAt,
  Engine!Reduced, Reduced, Engine!Improves, Improves

-----------------------------------------------------------------------------
(* The inductive invariant *)

Calling == taker # Engine!NoTaker
Limit == taker.kind = "limit"

TypesHold ==
  /\ taker \in {Engine!NoTaker} \cup Engine!LimitTaker \cup Engine!MarketTaker
  /\ lastId \in 0 .. MaxId
  /\ phase \in {"populate", "evolve", "refresh", "commands", "noise"}
  /\ cursor \in Slots /\ mid \in Mids
  /\ slots \in [Slots -> OrderRef] /\ own \in [Side -> OrderRef]
  /\ askLeg \in {NoLeg} \cup [bid : QuotePrices, ask : QuotePrices]

\* The id of a limit order in progress is the latest, and not on the book yet.
BookHolds ==
  /\ Sound(book, Prices) /\ QtysKnown(book, Qtys)
  /\ IdsUpTo(book, IF Limit THEN lastId - 1 ELSE lastId)
  /\ Limit => taker.id = lastId /\ lastId > 0
  /\ Calling => taker.left = 0 \/ taker.left \in Qtys

\* A call trades nothing before the events ahead of it are out, and the caller
\* waits for it: a slot while its order is replaced, or the Quote command,
\* which holds no order of ours on a side where one is to be placed.
CallerHolds ==
  /\ Calling /\ outbox # <<>> => taker.fills = <<>>
  /\ Limit /\ ~ taker.ours =>
       /\ phase \in {"populate", "refresh"}
       /\ taker.side = SlotSide(cursor) /\ slots[cursor] = None
  /\ Limit /\ taker.ours =>
       /\ phase = "commands" /\ own[taker.side] = None
       /\ taker.side = "Bid" => askLeg # NoLeg /\ taker.price = askLeg.bid
       /\ taker.side = "Ask" =>
            askLeg = NoLeg /\ (own["Bid"] = None \/ own["Bid"].price < taker.price)
  /\ askLeg # NoLeg =>
       /\ phase = "commands" /\ lastId < MaxId /\ own["Ask"] = None
       /\ own["Bid"] = None \/ own["Bid"].price = askLeg.bid

Inv == TypesHold /\ BookHolds /\ CallerHolds

LEMMA PricesAreIntegers == Prices \subseteq Int /\ Qtys \subseteq Nat \ {0} /\ MaxId \in Nat
BY FeedAssumption

LEMMA CallFacts ==
  ASSUME TypesHold, BookHolds, Calling
  PROVE  /\ taker \in Engine!LimitTaker \cup Engine!MarketTaker
         /\ taker.side \in Side /\ taker.left \in Nat /\ taker.fills \in Seq(Engine!Fill)
         /\ Opposite(taker.side) \in Side /\ Opposite(taker.side) # taker.side
         /\ Limit => taker.price \in Prices /\ taker.ours \in BOOLEAN /\ taker.id \in Nat
         /\ taker.kind \in {"limit", "market"}
<1>1. taker \in Engine!LimitTaker \cup Engine!MarketTaker
  BY DEF TypesHold, Calling
<1>2. taker.side \in Side /\ taker.left \in Nat /\ taker.fills \in Seq(Engine!Fill)
      /\ taker.kind \in {"limit", "market"}
  BY <1>1, EngineBook DEF Engine!LimitTaker, Engine!MarketTaker
<1>3. Limit => taker.price \in Prices /\ taker.ours \in BOOLEAN /\ taker.id \in Nat
  BY <1>1 DEF Limit, Engine!LimitTaker, Engine!MarketTaker
<1>4. QED
  BY <1>1, <1>2, <1>3, OpposingIsSide

LEMMA NotCalling == ~ Calling => taker = Engine!NoTaker /\ ~ Limit
BY DEF Calling, Limit, Engine!NoTaker

(* The ids on the book are ids that were handed out. *)
LEMMA IdsOnBook ==
  ASSUME TypesHold, BookHolds
  PROVE  IdsUpTo(book, lastId) /\ IdsUpTo(book, MaxId)
<1>1. lastId \in 0 .. MaxId /\ MaxId \in Nat
  BY PricesAreIntegers DEF TypesHold
<1>2. IdsUpTo(book, lastId)
  BY <1>1 DEF BookHolds, IdsUpTo
<1>3. QED
  BY <1>1, <1>2 DEF IdsUpTo

LEMMA LimitOrderFacts ==
  ASSUME NEW id \in Nat, NEW s \in Side, NEW p \in Prices, NEW q \in Qtys, NEW ours \in BOOLEAN
  PROVE  LET t == Engine!LimitOrder(id, s, p, q, ours)
         IN  /\ t \in Engine!LimitTaker /\ t # Engine!NoTaker
             /\ t.kind = "limit" /\ t.id = id /\ t.side = s /\ t.price = p
             /\ t.ours = ours /\ t.left = q /\ t.fills = <<>>
<1>1. q \in Nat
  BY PricesAreIntegers
<1>2. QED
  BY <1>1, EngineBook DEF Engine!LimitOrder, Engine!LimitTaker, Engine!NoTaker

LEMMA MarketOrderFacts ==
  ASSUME NEW s \in Side, NEW q \in Qtys
  PROVE  LET t == Engine!MarketOrder(s, q)
         IN  /\ t \in Engine!MarketTaker /\ t # Engine!NoTaker
             /\ t.kind = "market" /\ t.side = s /\ t.left = q /\ t.fills = <<>>
<1>1. q \in Nat
  BY PricesAreIntegers
<1>2. QED
  BY <1>1, EngineBook DEF Engine!MarketOrder, Engine!MarketTaker, Engine!NoTaker

LEMMA SlotFacts ==
  ASSUME TypesHold
  PROVE  SlotSide(cursor) \in Side /\ SlotPrice(cursor) \in Prices
<1> DEFINE depth == (cursor + 1) \div 2
<1>1. NumLevels \in Nat \ {0} /\ cursor \in 1 .. 2 * NumLevels
  BY ExchangeAssumption DEF TypesHold, Slots
<1>2. depth \in 1 .. NumLevels
  BY <1>1
<1>3. mid \in Int /\ (mid - NumLevels)..(mid + NumLevels) \subseteq Prices
  BY ExchangeAssumption DEF TypesHold
<1>4. mid - depth \in Prices /\ mid + depth \in Prices
  <2> HIDE DEF depth
  <2>1. /\ mid - depth \in (mid - NumLevels)..(mid + NumLevels)
        /\ mid + depth \in (mid - NumLevels)..(mid + NumLevels)
    BY <1>1, <1>2, <1>3
  <2>2. QED
    BY <1>3, <2>1
<1>5. QED
  BY <1>4 DEF SlotPrice, SlotSide, Side

-----------------------------------------------------------------------------
(* What the actions do *)

\* One turn of the walk, with the oldest order of the best opposing level.
LEMMA WalkFacts ==
  ASSUME Inv, Walk
  PROVE  \E p \in Prices, qty \in Qtys :
           LET s == Opposite(taker.side)
               front == book[s][p][1]
               fill == [id |-> front.id, ours |-> front.ours, price |-> p, qty |-> qty]
           IN  /\ Calling /\ outbox = <<>> /\ IsBest(book, s, p)
               /\ Limit => Crosses(taker.side, taker.price, p)
               /\ qty <= front.qty /\ book' = FillFront(book, s, p, qty)
               /\ taker' \in Engine!LimitTaker \cup Engine!MarketTaker
               /\ taker'.kind = taker.kind /\ taker'.side = taker.side
               /\ taker'.left = 0 \/ taker'.left \in Qtys
               /\ taker'.fills = Append(taker.fills, fill)
               /\ Limit => /\ taker'.id = taker.id /\ taker'.price = taker.price
                           /\ taker'.ours = taker.ours
               /\ lastId' = lastId
<1> USE DEF Inv
<1>1. /\ Calling /\ outbox = <<>> /\ taker.left > 0
  BY DEF Walk, Engine!FillBest, Calling
<1> DEFINE s == Opposite(taker.side)
<1>2. PICK p \in DOMAIN book[s] :
        /\ IsBest(book, s, p)
        /\ Limit => Crosses(taker.side, taker.price, p)
        /\ Engine!TradeAt(p)
  BY EngineBook DEF Walk, Engine!FillBest, Engine!Opposing, Engine!Marketable, Limit
<1>3. s \in Side /\ taker.left \in Nat /\ taker.fills \in Seq(Engine!Fill)
      /\ taker \in Engine!LimitTaker \cup Engine!MarketTaker
  BY <1>1, CallFacts
<1> DEFINE front == book[s][p][1]
           qty == Engine!Traded(front)
           left == taker.left - qty
           fill == [id |-> front.id, ours |-> front.ours, price |-> p, qty |-> qty]
           fills == Append(taker.fills, fill)
<1>4. /\ book' = FillFront(book, s, p, qty)
      /\ taker' = [taker EXCEPT !.left = left, !.fills = fills]
      /\ lastId' = lastId
  BY <1>2, EngineBook DEF Engine!TradeAt, Engine!Opposing
<1>5. p \in Prices /\ front \in Order /\ front.qty > 0 /\ front.qty \in Qtys
  <2>1. /\ p \in Prices /\ book[s][p] \in Seq(Order) /\ book[s][p] # <<>>
        /\ AllLive(book[s][p])
    BY <1>2, <1>3 DEF BookHolds, Sound, IsBook, LiveBook
  <2>2. 1 \in DOMAIN book[s][p]
    BY <2>1
  <2>3. QED
    BY <1>2, <1>3, <2>1, <2>2 DEF AllLive, BookHolds, QtysKnown
<1>6. taker.left \in Qtys
  BY <1>1, <1>3 DEF BookHolds
<1> HIDE DEF s, front
<1>7. front.qty \in Nat /\ front.id \in Nat /\ front.ours \in BOOLEAN
  BY <1>5 DEF Order
<1>8. /\ qty \in Qtys /\ qty <= front.qty /\ qty <= taker.left /\ qty > 0
  BY <1>1, <1>3, <1>5, <1>6, <1>7 DEF Engine!Traded
<1>9. qty \in Nat
  BY <1>8, PricesAreIntegers
<1> HIDE DEF qty
<1>10. left \in Nat /\ (left = 0 \/ left \in Qtys)
  <2>1. left \in Nat /\ (left = 0 \/ left \in 1 .. taker.left)
    BY <1>3, <1>8, <1>9
  <2>2. QED
    BY <1>6, <2>1, ExchangeAssumption
<1>11. fills \in Seq(Engine!Fill)
  <2>1. fill \in Engine!Fill
    BY <1>5, <1>7, <1>9 DEF Engine!Fill
  <2> HIDE DEF fill
  <2>2. QED
    BY <1>3, <2>1
<1> HIDE DEF left, fills
<1>12. /\ taker' \in Engine!LimitTaker \cup Engine!MarketTaker
       /\ taker'.kind = taker.kind /\ taker'.side = taker.side
       /\ taker'.left = left /\ taker'.fills = fills
       /\ Limit => taker'.id = taker.id /\ taker'.price = taker.price /\ taker'.ours = taker.ours
  <2>1. CASE taker \in Engine!LimitTaker
    BY <1>4, <1>10, <1>11, <2>1 DEF Engine!LimitTaker, Limit
  <2>2. CASE taker \in Engine!MarketTaker
    BY <1>4, <1>10, <1>11, <2>2 DEF Engine!MarketTaker, Limit
  <2>3. QED
    BY <1>3, <2>1, <2>2
<1>13. QED
  BY <1>1, <1>2, <1>4, <1>5, <1>8, <1>10, <1>12 DEF s, front, fills

\* The call returns, and what is left of a limit order rests.
LEMMA ReturnedFacts ==
  ASSUME Inv, Returned
  PROVE  LET rests == Limit /\ taker.left > 0
             o == [id |-> taker.id, qty |-> taker.left, ours |-> taker.ours]
             p == taker.price
             s == taker.side
         IN  /\ Calling /\ outbox = <<>> /\ ~ Calling' /\ ~ Limit'
             /\ taker' = Engine!NoTaker /\ lastId' = lastId
             /\ ~ rests => book' = book
             /\ rests => /\ o \in Order /\ o.id = lastId /\ o.qty \in Qtys /\ p \in Prices
                         /\ \A x \in DOMAIN book[Opposite(s)] : ~ Crosses(s, p, x)
                         /\ book' = RestOrder(book, s, p, o)
                         /\ Sound(book', Prices) /\ IdsUpTo(book', lastId)
                         /\ Extended(book, book', s, p, o)
<1> USE DEF Inv
<1> DEFINE o == [id |-> taker.id, qty |-> taker.left, ours |-> taker.ours]
           p == taker.price
           s == taker.side
<1>1. /\ Calling /\ outbox = <<>> /\ taker' = Engine!NoTaker /\ lastId' = lastId
  BY DEF Returned, Engine!Return, Calling
<1>2. ~ Calling' /\ ~ Limit'
  BY <1>1 DEF Calling, Limit, Engine!NoTaker
<1>3. ~ (Limit /\ taker.left > 0) => book' = book
  BY DEF Returned, Engine!Return, Engine!Rests, Limit
<1>4. ASSUME Limit, taker.left > 0
      PROVE  /\ o \in Order /\ o.id = lastId /\ o.qty \in Qtys /\ p \in Prices
             /\ \A x \in DOMAIN book[Opposite(s)] : ~ Crosses(s, p, x)
             /\ book' = RestOrder(book, s, p, o)
             /\ Sound(book', Prices) /\ IdsUpTo(book', lastId)
             /\ Extended(book, book', s, p, o)
  <2>1. /\ s \in Side /\ p \in Prices /\ taker.left \in Nat /\ taker.id \in Nat
        /\ taker.ours \in BOOLEAN
    BY <1>1, <1>4, CallFacts
  <2>2. o \in Order /\ o.id = lastId /\ o.qty \in Qtys /\ o.qty > 0
    BY <1>1, <1>4, <2>1 DEF Order, BookHolds
  <2>3. book' = RestOrder(book, s, p, o)
    BY <1>4, EngineBook DEF Returned, Engine!Return, Engine!Rests, Limit
  <2>4. \A x \in DOMAIN book[Opposite(s)] : ~ Crosses(s, p, x)
    BY <1>4, <2>1, EngineBook
       DEF Returned, Engine!Return, Engine!WalkIsOver, Engine!Opposing, Engine!Marketable, Limit
  <2>5. lastId - 1 \in Nat /\ lastId > lastId - 1 /\ IdsUpTo(book, lastId - 1) /\ Sound(book, Prices)
    BY <1>4, PricesAreIntegers DEF BookHolds, TypesHold
  <2> HIDE DEF o, p, s
  <2>6. Sound(book', Prices) /\ IdsUpTo(book', o.id) /\ Extended(book, book', s, p, o)
    BY <2>1, <2>2, <2>3, <2>5, RestSound
  <2>7. QED
    BY <2>1, <2>2, <2>3, <2>4, <2>6
<1>5. QED
  BY <1>1, <1>2, <1>3, <1>4

\* Events es take any trail that has reached b on to c.
Announced(b, es, c) ==
  \A x, k, ds, m : Leads(x, k, ds, b, m) => Leads(x, k, ds \o es, c, m)

\* A cancel on the way to something else, of an order that may be gone, and
\* the event that announces it.
LEMMA WithdrawFacts ==
  ASSUME NEW b, Sound(b, Prices), QtysKnown(b, Qtys), IdsUpTo(b, MaxId), NEW n, IdsUpTo(b, n),
         NEW s \in Side, NEW ref \in OrderRef
  PROVE  LET c == Withdraw(b, s, ref)
         IN  /\ Sound(c, Prices) /\ QtysKnown(c, Qtys) /\ IdsUpTo(c, n) /\ Thinned(b, c)
             /\ \A t \in Side : t # s => c[t] = b[t]
             /\ ref # None /\ ref.price \in DOMAIN c[s] =>
                  \A i \in DOMAIN c[s][ref.price] : c[s][ref.price][i].id # ref.id
             /\ Withdrawn(b, s, ref) \in Seq(Events)
             /\ Announced(b, Withdrawn(b, s, ref), c)
<1> USE DEF Announced
<1>1. CASE ref = None
  <2>1. Withdraw(b, s, ref) = b /\ Withdrawn(b, s, ref) = <<>>
    BY <1>1 DEF Withdraw, Withdrawn
  <2>2. Thinned(b, b)
    BY DEF Thinned, Same
  <2>3. \A es \in Seq(Events) : es \o <<>> = es
    OBVIOUS
  <2>4. QED
    BY <1>1, <2>1, <2>2, <2>3 DEF Leads
<1>2. CASE ref # None
  <2> DEFINE c == CancelOrder(b, s, ref.price, ref.id)
             e == CancelOf(s, ref.price, ref.id)
  <2>1. ref.price \in Prices
    BY <1>2 DEF OrderRef
  <2>2. Withdraw(b, s, ref) = c
    BY <1>2 DEF Withdraw
  <2>3. /\ Sound(c, Prices) /\ Thinned(b, c)
        /\ \A t \in Side : t # s => c[t] = b[t]
        /\ ref.price \in DOMAIN c[s] =>
             \A i \in DOMAIN c[s][ref.price] : c[s][ref.price][i].id # ref.id
    BY <2>1, CancelSound
  <2>4. IdsUpTo(c, n) /\ QtysKnown(c, Qtys)
    <3>1. \A q \in Qtys : 1 .. q \subseteq Qtys
      BY ExchangeAssumption
    <3>2. Qtys \subseteq Nat
      BY PricesAreIntegers
    <3> HIDE DEF c
    <3>3. QED
      BY <2>3, <3>1, <3>2, ThinnedIds, ThinnedQtys
  <2>5. CASE ~ HasOrder(b, s, ref.price, ref.id)
    <3>1. c = b /\ Withdrawn(b, s, ref) = <<>>
      BY <2>5 DEF CancelOrder, Withdrawn
    <3>2. \A es \in Seq(Events) : es \o <<>> = es
      OBVIOUS
    <3> HIDE DEF c
    <3>3. QED
      BY <2>2, <2>3, <2>4, <3>1, <3>2 DEF Leads
  <2>6. CASE HasOrder(b, s, ref.price, ref.id)
    <3>1. Withdrawn(b, s, ref) = <<e>>
      BY <1>2, <2>6 DEF Withdrawn
    <3>2. PICK i \in DOMAIN QueueAt(b, s, ref.price) : QueueAt(b, s, ref.price)[i].id = ref.id
      BY <2>6 DEF HasOrder, Places
    <3>3. ref.id \in 1 .. MaxId
      BY <3>2 DEF QueueAt, IdsUpTo
    <3>4. e \in Events
      BY <2>1, <3>3 DEF Events
    <3>5. ASSUME NEW x, NEW k, NEW es, NEW m, Leads(x, k, es, b, m)
          PROVE  Leads(x, k, es \o <<e>>, c, m)
      <4>1. Leads(x, k, Append(es, e), c, m)
        BY <2>1, <2>3, <2>6, <3>3, <3>5, CancelOnTrail DEF Sound
      <4>2. Append(es, e) = es \o <<e>>
        <5>1. es \in Seq(Events)
          BY <3>5 DEF Leads
        <5> HIDE DEF e
        <5>2. QED
          BY <3>4, <5>1
      <4>3. QED
        BY <4>1, <4>2
    <3> HIDE DEF c, e
    <3>6. <<e>> \in Seq(Events)
      BY <3>4
    <3>7. QED
      BY <2>2, <2>3, <2>4, <3>1, <3>5, <3>6
  <2>7. QED
    BY <2>5, <2>6
<1>3. QED
  BY <1>1, <1>2

\* A slot's order is withdrawn, if it is still there, and a new one submitted.
LEMMA PlaceBackgroundFacts ==
  ASSUME Inv, PlaceBackground
  PROVE  LET s == SlotSide(cursor)
             ref == slots[cursor]
         IN  /\ ~ Calling /\ ~ Limit /\ outbox = <<>> /\ phase \in {"populate", "refresh"}
             /\ s \in Side /\ ref \in OrderRef
             /\ Sound(book', Prices) /\ QtysKnown(book', Qtys)
             /\ IdsUpTo(book', lastId) /\ Thinned(book, book')
             /\ ref # None /\ ref.price \in DOMAIN book'[s] =>
                  \A i \in DOMAIN book'[s][ref.price] : book'[s][ref.price][i].id # ref.id
             /\ outbox' \in Seq(Events)
             /\ Announced(book, outbox', book')
             /\ lastId' \in 0 .. MaxId /\ lastId' > 0 /\ lastId' - 1 = lastId
             /\ taker' \in Engine!LimitTaker /\ Calling' /\ Limit' /\ taker'.id = lastId'
             /\ taker'.side = s /\ taker'.ours = FALSE
             /\ taker'.left \in Qtys /\ taker'.fills = <<>>
<1> USE DEF Inv
<1> DEFINE s == SlotSide(cursor)
           p == SlotPrice(cursor)
           ref == slots[cursor]
<1>1. ~ Calling /\ ~ Limit /\ outbox = <<>> /\ phase \in {"populate", "refresh"}
  BY NotCalling DEF PlaceBackground, Idle, Calling
<1>2. s \in Side /\ p \in Prices /\ ref \in OrderRef
  BY SlotFacts DEF TypesHold
<1>3. /\ book' = Withdraw(book, s, ref) /\ outbox' = Withdrawn(book, s, ref)
      /\ lastId' = lastId + 1 /\ lastId < MaxId
      /\ taker' = Engine!LimitOrder(lastId + 1, s, p, BackgroundQty, FALSE)
  BY DEF PlaceBackground
<1>4. /\ lastId + 1 \in Nat
      /\ lastId' \in 0 .. MaxId /\ lastId' > 0 /\ lastId' - 1 = lastId
  BY <1>3, PricesAreIntegers DEF TypesHold
<1>5. /\ Sound(book, Prices) /\ QtysKnown(book, Qtys)
      /\ IdsUpTo(book, lastId) /\ IdsUpTo(book, MaxId)
  BY IdsOnBook DEF BookHolds
<1>6. BackgroundQty \in Qtys /\ FALSE \in BOOLEAN
  BY ExchangeAssumption
<1> HIDE DEF s, p, ref
<1>7. /\ taker' \in Engine!LimitTaker /\ taker' # Engine!NoTaker
      /\ taker'.kind = "limit" /\ taker'.id = lastId + 1 /\ taker'.side = s
      /\ taker'.ours = FALSE /\ taker'.left = BackgroundQty /\ taker'.fills = <<>>
  <2> DEFINE id == lastId + 1
             ours == FALSE
             t == Engine!LimitOrder(id, s, p, BackgroundQty, ours)
  <2>1. id \in Nat /\ s \in Side /\ p \in Prices /\ BackgroundQty \in Qtys /\ ours \in BOOLEAN
    BY <1>2, <1>4, <1>6
  <2> HIDE DEF id, ours
  <2>2. /\ t \in Engine!LimitTaker /\ t # Engine!NoTaker
        /\ t.kind = "limit" /\ t.id = id /\ t.side = s
        /\ t.ours = ours /\ t.left = BackgroundQty /\ t.fills = <<>>
    BY <2>1, LimitOrderFacts
  <2>3. taker' = t
    BY <1>3 DEF id, ours
  <2> HIDE DEF t
  <2>4. QED
    BY <2>2, <2>3 DEF id, ours
<1>8. /\ Sound(book', Prices) /\ QtysKnown(book', Qtys)
      /\ IdsUpTo(book', lastId) /\ Thinned(book, book')
      /\ ref # None /\ ref.price \in DOMAIN book'[s] =>
           \A i \in DOMAIN book'[s][ref.price] : book'[s][ref.price][i].id # ref.id
      /\ outbox' \in Seq(Events)
      /\ Announced(book, outbox', book')
  <2> DEFINE c == Withdraw(book, s, ref)
  <2>1. /\ Sound(c, Prices) /\ QtysKnown(c, Qtys)
        /\ IdsUpTo(c, lastId) /\ Thinned(book, c)
        /\ ref # None /\ ref.price \in DOMAIN c[s] =>
             \A i \in DOMAIN c[s][ref.price] : c[s][ref.price][i].id # ref.id
        /\ Withdrawn(book, s, ref) \in Seq(Events)
        /\ Announced(book, Withdrawn(book, s, ref), c)
    BY <1>2, <1>5, WithdrawFacts
  <2> HIDE DEF c
  <2>2. book' = c
    BY <1>3 DEF c
  <2>3. QED
    BY <1>3, <2>1, <2>2
<1>9. QED
  BY <1>1, <1>2, <1>3, <1>4, <1>6, <1>7, <1>8 DEF Calling, Limit, s, ref

\* Both orders of ours are withdrawn, if they are still there.
LEMMA WithdrawOwnFacts ==
  ASSUME Inv, ~ Limit, WithdrawOwn
  PROVE  /\ own'["Bid"] = None /\ own'["Ask"] = None /\ own' \in [Side -> OrderRef]
         /\ Sound(book', Prices) /\ QtysKnown(book', Qtys)
         /\ IdsUpTo(book', lastId) /\ Thinned(book, book')
         /\ \A s \in Side : own[s] # None /\ own[s].price \in DOMAIN book'[s] =>
              \A i \in DOMAIN book'[s][own[s].price] : book'[s][own[s].price][i].id # own[s].id
         /\ outbox' \in Seq(Events)
         /\ Announced(book, outbox', book')
<1> USE DEF Inv
<1> DEFINE c == Withdraw(book, "Bid", own["Bid"])
           bids == Withdrawn(book, "Bid", own["Bid"])
           asks == Withdrawn(c, "Ask", own["Ask"])
<1>1. "Bid" \in Side /\ "Ask" \in Side /\ Side = {"Bid", "Ask"}
  BY DEF Side
<1>2. own["Bid"] \in OrderRef /\ own["Ask"] \in OrderRef
  BY <1>1 DEF TypesHold
<1>3. /\ Sound(book, Prices) /\ QtysKnown(book, Qtys)
      /\ IdsUpTo(book, lastId) /\ IdsUpTo(book, MaxId)
  BY IdsOnBook DEF BookHolds
<1>4. /\ Sound(c, Prices) /\ QtysKnown(c, Qtys) /\ IdsUpTo(c, lastId) /\ Thinned(book, c)
      /\ c["Ask"] = book["Ask"]
      /\ own["Bid"] # None /\ own["Bid"].price \in DOMAIN c["Bid"] =>
           \A i \in DOMAIN c["Bid"][own["Bid"].price] :
             c["Bid"][own["Bid"].price][i].id # own["Bid"].id
      /\ bids \in Seq(Events)
      /\ Announced(book, bids, c)
  <2> DEFINE s == "Bid"
             ref == own["Bid"]
  <2>1. s \in Side /\ ref \in OrderRef
    BY <1>1, <1>2
  <2> HIDE DEF s, ref
  <2>2. LET d == Withdraw(book, s, ref)
        IN  /\ Sound(d, Prices) /\ QtysKnown(d, Qtys) /\ IdsUpTo(d, lastId) /\ Thinned(book, d)
            /\ \A t \in Side : t # s => d[t] = book[t]
            /\ ref # None /\ ref.price \in DOMAIN d[s] =>
                 \A i \in DOMAIN d[s][ref.price] : d[s][ref.price][i].id # ref.id
            /\ Withdrawn(book, s, ref) \in Seq(Events)
            /\ Announced(book, Withdrawn(book, s, ref), d)
    BY <1>3, <2>1, WithdrawFacts
  <2>3. "Ask" # "Bid"
    OBVIOUS
  <2>4. QED
    BY <1>1, <2>2, <2>3 DEF s, ref
<1>. IdsUpTo(c, MaxId)
  BY <1>3, <1>4, ThinnedIds
<1>5. book' = Withdraw(c, "Ask", own["Ask"]) /\ own' = [s \in Side |-> None]
  BY DEF WithdrawOwn
<1>6. outbox' = bids \o asks
  BY <1>4 DEF WithdrawOwn, Withdrawn, HasOrder, QueueAt
<1> HIDE DEF c, bids
<1>7. /\ Sound(book', Prices) /\ QtysKnown(book', Qtys)
      /\ IdsUpTo(book', lastId) /\ Thinned(c, book')
      /\ book'["Bid"] = c["Bid"]
      /\ own["Ask"] # None /\ own["Ask"].price \in DOMAIN book'["Ask"] =>
           \A i \in DOMAIN book'["Ask"][own["Ask"].price] :
             book'["Ask"][own["Ask"].price][i].id # own["Ask"].id
      /\ asks \in Seq(Events)
      /\ Announced(c, asks, book')
  <2> DEFINE s == "Ask"
             ref == own["Ask"]
  <2>1. s \in Side /\ ref \in OrderRef
    BY <1>1, <1>2
  <2> HIDE DEF s, ref
  <2>2. LET d == Withdraw(c, s, ref)
        IN  /\ Sound(d, Prices) /\ QtysKnown(d, Qtys) /\ IdsUpTo(d, lastId) /\ Thinned(c, d)
            /\ \A t \in Side : t # s => d[t] = c[t]
            /\ ref # None /\ ref.price \in DOMAIN d[s] =>
                 \A i \in DOMAIN d[s][ref.price] : d[s][ref.price][i].id # ref.id
            /\ Withdrawn(c, s, ref) \in Seq(Events)
            /\ Announced(c, Withdrawn(c, s, ref), d)
    BY <1>4, <2>1, WithdrawFacts
  <2>3. "Ask" # "Bid" /\ book' = Withdraw(c, s, ref)
    BY <1>5 DEF s, ref
  <2>4. QED
    BY <1>1, <2>2, <2>3 DEF s, ref
<1> HIDE DEF asks
<1>8. Thinned(book, book')
  BY <1>3, <1>4, <1>7, ThinnedTwice
<1>9. own'["Bid"] = None /\ own'["Ask"] = None /\ own' \in [Side -> OrderRef]
  BY <1>1, <1>5 DEF OrderRef
<1>10. \A s \in Side : own[s] # None /\ own[s].price \in DOMAIN book'[s] =>
         \A i \in DOMAIN book'[s][own[s].price] : book'[s][own[s].price][i].id # own[s].id
  BY <1>1, <1>4, <1>7
<1>11. outbox' \in Seq(Events)
  BY <1>4, <1>6, <1>7
<1>12. Announced(book, outbox', book')
  <2>1. \A ds \in Seq(Events) : (ds \o bids) \o asks = ds \o (bids \o asks)
    BY <1>4, <1>7
  <2>2. QED
    BY <1>4, <1>6, <1>7, <2>1 DEF Announced, Leads
<1>13. QED
  BY <1>7, <1>8, <1>9, <1>10, <1>11, <1>12

\* Each half of the Quote command submits an order of ours.
LEMMA OwnOrderFacts ==
  ASSUME Inv, NEW s \in Side, NEW p \in Prices, lastId < MaxId, lastId' = lastId + 1,
         taker' = Engine!LimitOrder(lastId + 1, s, p, LotSize, TRUE)
  PROVE  /\ lastId' \in 0 .. MaxId /\ lastId' > 0 /\ lastId' - 1 = lastId
         /\ taker' \in Engine!LimitTaker /\ Calling' /\ Limit' /\ taker'.id = lastId'
         /\ taker'.side = s /\ taker'.price = p /\ taker'.ours = TRUE
         /\ taker'.left \in Qtys /\ taker'.fills = <<>>
<1> DEFINE id == lastId + 1
           ours == TRUE
           t == Engine!LimitOrder(id, s, p, LotSize, ours)
<1>1. /\ id \in Nat
      /\ lastId' \in 0 .. MaxId /\ lastId' > 0 /\ lastId' - 1 = lastId
  BY PricesAreIntegers DEF Inv, TypesHold
<1>2. LotSize \in Qtys /\ ours \in BOOLEAN
  BY ExchangeAssumption
<1>3. taker' = t /\ lastId' = id
  OBVIOUS
<1> HIDE DEF id
<1>4. taker'.ours = TRUE <=> taker'.ours = ours
  OBVIOUS
<1> HIDE DEF ours
<1>5. /\ t \in Engine!LimitTaker /\ t # Engine!NoTaker
      /\ t.kind = "limit" /\ t.id = id /\ t.side = s /\ t.price = p
      /\ t.ours = ours /\ t.left = LotSize /\ t.fills = <<>>
  BY <1>1, <1>2, LimitOrderFacts
<1> HIDE DEF t
<1>6. QED
  BY <1>1, <1>2, <1>3, <1>4, <1>5 DEF Calling, Limit

LEMMA QuoteFacts ==
  ASSUME Inv, NEW bid \in QuotePrices, NEW ask \in QuotePrices, Quote(bid, ask)
  PROVE  /\ ~ Calling /\ ~ Limit /\ outbox = <<>> /\ askLeg = NoLeg /\ phase = "commands"
         /\ WithdrawOwn /\ askLeg' = [bid |-> bid, ask |-> ask] /\ askLeg' # NoLeg
         /\ lastId' \in 0 .. MaxId /\ lastId' > 0 /\ lastId' - 1 = lastId /\ lastId' < MaxId
         /\ taker' \in Engine!LimitTaker /\ Calling' /\ Limit' /\ taker'.id = lastId'
         /\ taker'.side = "Bid" /\ taker'.price = bid /\ taker'.ours = TRUE
         /\ taker'.left \in Qtys /\ taker'.fills = <<>>
<1>1. /\ ~ Calling /\ ~ Limit /\ outbox = <<>> /\ askLeg = NoLeg /\ phase = "commands"
      /\ WithdrawOwn /\ askLeg' = [bid |-> bid, ask |-> ask]
  BY NotCalling DEF Quote, Idle, Calling
<1>2. askLeg' # NoLeg
  BY <1>1 DEF NoLeg
<1>3. lastId < MaxId /\ lastId + 1 < MaxId /\ lastId \in Nat
  BY PricesAreIntegers DEF Quote, Inv, TypesHold
<1>4. /\ "Bid" \in Side /\ bid \in Prices /\ lastId' = lastId + 1
      /\ taker' = Engine!LimitOrder(lastId + 1, "Bid", bid, LotSize, TRUE)
  BY ExchangeAssumption DEF Quote, Side
<1>5. QED
  BY <1>1, <1>2, <1>3, <1>4, OwnOrderFacts

LEMMA QuoteAskFacts ==
  ASSUME Inv, QuoteAsk
  PROVE  /\ ~ Calling /\ ~ Limit /\ outbox = <<>> /\ phase = "commands"
         /\ own["Ask"] = None /\ askLeg' = NoLeg /\ book' = book
         /\ lastId' \in 0 .. MaxId /\ lastId' > 0 /\ lastId' - 1 = lastId
         /\ taker' \in Engine!LimitTaker /\ Calling' /\ Limit' /\ taker'.id = lastId'
         /\ taker'.side = "Ask" /\ taker'.price \in Prices /\ taker'.ours = TRUE
         /\ taker'.left \in Qtys /\ taker'.fills = <<>>
         /\ own["Bid"] = None \/ own["Bid"].price < taker'.price
<1>1. /\ ~ Calling /\ ~ Limit /\ outbox = <<>> /\ phase = "commands"
      /\ askLeg # NoLeg /\ askLeg' = NoLeg /\ book' = book
  BY NotCalling DEF QuoteAsk, Idle, Calling
<1>2. /\ lastId < MaxId /\ own["Ask"] = None
      /\ own["Bid"] = None \/ own["Bid"].price = askLeg.bid
      /\ askLeg.bid \in QuotePrices /\ askLeg.ask \in QuotePrices
  BY <1>1 DEF Inv, CallerHolds, TypesHold
<1> DEFINE p == SafeAsk(askLeg)
<1>3. p \in Prices /\ askLeg.bid < p
  <2>1. /\ askLeg.bid \in Int /\ askLeg.ask \in Int
        /\ askLeg.bid + 1 \in Prices /\ askLeg.ask \in Prices
    BY <1>2, PricesAreIntegers, ExchangeAssumption
  <2>2. QED
    BY <2>1 DEF SafeAsk
<1> HIDE DEF p
<1>4. /\ "Ask" \in Side /\ lastId' = lastId + 1
      /\ taker' = Engine!LimitOrder(lastId + 1, "Ask", p, LotSize, TRUE)
  BY DEF QuoteAsk, Side, p
<1>5. QED
  BY <1>1, <1>2, <1>3, <1>4, OwnOrderFacts

-----------------------------------------------------------------------------
(* The invariant is inductive *)

LEMMA InvInit == Init => Inv
<1> SUFFICES ASSUME Init PROVE Inv
  OBVIOUS
<1>1. taker = Engine!NoTaker /\ ~ Calling /\ ~ Limit
  BY DEF Init, Engine!Init, Calling, Limit, Engine!NoTaker
<1>2. book = EmptyBook /\ lastId = 0
  BY DEF Init, Engine!Init, Engine!EmptyBook, EmptyBook, Engine!Side, Side
<1>3. TypesHold
  BY <1>1, <1>2, ExchangeAssumption, PricesAreIntegers DEF Init, TypesHold, Slots, OrderRef
<1>4. BookHolds
  <2>1. /\ Sound(book, Prices) /\ IdsUpTo(book, lastId)
        /\ \A s \in Side : DOMAIN book[s] = {}
    BY <1>2, EmptyIsSound
  <2>2. QED
    BY <1>1, <2>1 DEF BookHolds, QtysKnown
<1>5. CallerHolds
  BY <1>1 DEF Init, CallerHolds
<1>6. QED
  BY <1>3, <1>4, <1>5 DEF Inv

LEMMA NextSlotFacts ==
  ASSUME TypesHold, NextSlot
  PROVE  cursor' \in Slots /\ phase' \in {phase, "evolve", "commands"}
<1>1. NumLevels \in Nat \ {0} /\ cursor \in 1 .. 2 * NumLevels
  BY ExchangeAssumption DEF TypesHold, Slots
<1>2. CASE cursor \in Slots \ {2 * NumLevels}
  BY <1>1, <1>2 DEF NextSlot, Slots
<1>3. CASE cursor \notin Slots \ {2 * NumLevels}
  BY <1>1, <1>3 DEF NextSlot, Slots
<1>4. QED
  BY <1>2, <1>3

(* Steps of the loop that call nothing. *)
LEMMA LoopKeepsInv ==
  ASSUME Inv, Evolve \/ SkipSlot \/ CommandsDone \/ NoNoise \/ Emit \/ UNCHANGED vars
  PROVE  Inv'
<1>1. /\ book' = book /\ taker' = taker /\ lastId' = lastId
      /\ slots' = slots /\ own' = own /\ askLeg' = askLeg
  BY DEF Evolve, SkipSlot, CommandsDone, NoNoise, Emit, engineVars, loopVars, vars
<1>2. BookHolds'
  BY <1>1 DEF Inv, BookHolds, Calling, Limit
<1>3. TypesHold'
  <2>1. cursor' \in Slots /\ mid' \in Mids
        /\ phase' \in {"populate", "evolve", "refresh", "commands", "noise"}
    <3>1. CASE SkipSlot
      BY <3>1, NextSlotFacts DEF Inv, SkipSlot, TypesHold
    <3>2. CASE ~ SkipSlot
      BY <3>2 DEF Inv, TypesHold, Evolve, CommandsDone, NoNoise, Emit, loopVars, vars
    <3>3. QED
      BY <3>1, <3>2
  <2>2. QED
    BY <1>1, <2>1 DEF Inv, TypesHold
<1>4. CallerHolds'
  <2>1. CASE Emit \/ UNCHANGED vars
    BY <1>1, <2>1 DEF Inv, CallerHolds, Emit, vars, loopVars, Calling, Limit, SlotSide
  <2>2. CASE Evolve \/ SkipSlot \/ CommandsDone \/ NoNoise
    <3>1. ~ Calling /\ ~ Limit /\ outbox' = outbox
      BY <2>2, NotCalling DEF Evolve, SkipSlot, CommandsDone, NoNoise, Idle, Calling
    <3>2. askLeg = NoLeg
      BY <2>2 DEF Evolve, SkipSlot, CommandsDone, NoNoise, Inv, CallerHolds
    <3>3. ~ Calling' /\ ~ Limit'
      BY <1>1, <3>1 DEF Calling, Limit
    <3>4. QED
      BY <1>1, <3>2, <3>3 DEF CallerHolds
  <2>3. QED
    BY <2>1, <2>2
<1>5. QED
  BY <1>2, <1>3, <1>4 DEF Inv

LEMMA PlaceBackgroundKeepsInv == ASSUME Inv, PlaceBackground PROVE Inv'
<1>1. /\ phase' = phase /\ cursor' = cursor /\ mid' = mid /\ own' = own /\ askLeg' = askLeg
      /\ slots' = [slots EXCEPT ![cursor] = None]
  BY DEF PlaceBackground
<1>2. TypesHold'
  <2>1. slots' \in [Slots -> OrderRef]
    BY <1>1 DEF Inv, TypesHold, OrderRef
  <2>2. taker' \in Engine!LimitTaker /\ lastId' \in 0 .. MaxId
    BY PlaceBackgroundFacts
  <2>3. QED
    BY <1>1, <2>1, <2>2 DEF Inv, TypesHold
<1>3. BookHolds'
  <2>1. lastId' - 1 = lastId
    BY PlaceBackgroundFacts
  <2>2. QED
    BY <2>1, PlaceBackgroundFacts DEF BookHolds
<1>4. CallerHolds'
  <2>1. slots'[cursor] = None
    BY <1>1 DEF Inv, TypesHold
  <2>2. askLeg = NoLeg
    BY PlaceBackgroundFacts DEF Inv, CallerHolds
  <2>3. taker'.fills = <<>> /\ taker'.ours = FALSE /\ taker'.side = SlotSide(cursor)
        /\ phase \in {"populate", "refresh"}
    BY PlaceBackgroundFacts
  <2>4. QED
    BY <1>1, <2>1, <2>2, <2>3 DEF CallerHolds, SlotSide
<1>5. QED
  BY <1>2, <1>3, <1>4 DEF Inv

LEMMA QuoteKeepsInv ==
  ASSUME Inv, NEW bid \in QuotePrices, NEW ask \in QuotePrices, Quote(bid, ask)
  PROVE  Inv'
<1>1. /\ phase' = phase /\ cursor' = cursor /\ mid' = mid /\ slots' = slots
      /\ phase = "commands" /\ ~ Limit /\ WithdrawOwn
  BY QuoteFacts DEF Quote
<1>2. askLeg' = [bid |-> bid, ask |-> ask] /\ askLeg' # NoLeg
  BY QuoteFacts
<1>3. TypesHold'
  <2>1. own' \in [Side -> OrderRef]
    BY <1>1, WithdrawOwnFacts
  <2>2. taker' \in Engine!LimitTaker /\ lastId' \in 0 .. MaxId
    BY QuoteFacts
  <2>3. askLeg' \in [bid : QuotePrices, ask : QuotePrices]
    BY <1>2
  <2>4. QED
    BY <1>1, <2>1, <2>2, <2>3 DEF Inv, TypesHold
<1>4. BookHolds'
  <2>1. lastId' - 1 = lastId /\ lastId' > 0
    BY QuoteFacts
  <2>2. /\ Sound(book', Prices) /\ QtysKnown(book', Qtys) /\ IdsUpTo(book', lastId)
    BY <1>1, WithdrawOwnFacts
  <2>3. QED
    BY <2>1, <2>2, QuoteFacts DEF BookHolds
<1>5. CallerHolds'
  <2>1. own'["Bid"] = None /\ own'["Ask"] = None
    BY <1>1, WithdrawOwnFacts
  <2>2. taker'.fills = <<>> /\ taker'.ours = TRUE /\ taker'.side = "Bid" /\ taker'.price = bid
        /\ lastId' < MaxId
    BY QuoteFacts
  <2>3. askLeg'.bid = bid
    BY <1>2
  <2>4. QED
    BY <1>1, <1>2, <2>1, <2>2, <2>3 DEF CallerHolds
<1>6. QED
  BY <1>3, <1>4, <1>5 DEF Inv

LEMMA QuoteAskKeepsInv == ASSUME Inv, QuoteAsk PROVE Inv'
<1>1. /\ phase' = phase /\ cursor' = cursor /\ mid' = mid /\ slots' = slots /\ own' = own
      /\ phase = "commands" /\ askLeg' = NoLeg /\ book' = book
  BY QuoteAskFacts DEF QuoteAsk
<1>2. TypesHold'
  <2>1. taker' \in Engine!LimitTaker /\ lastId' \in 0 .. MaxId
    BY QuoteAskFacts
  <2>2. QED
    BY <1>1, <2>1 DEF Inv, TypesHold
<1>3. BookHolds'
  <2>1. lastId' - 1 = lastId /\ lastId' > 0
    BY QuoteAskFacts
  <2>2. Sound(book', Prices) /\ QtysKnown(book', Qtys) /\ IdsUpTo(book', lastId)
    BY <1>1, QuoteAskFacts DEF Inv, BookHolds
  <2>3. QED
    BY <2>1, <2>2, QuoteAskFacts DEF BookHolds
<1>4. CallerHolds'
  <2>1. taker'.fills = <<>> /\ taker'.ours = TRUE /\ taker'.side = "Ask" /\ own["Ask"] = None
        /\ (own["Bid"] = None \/ own["Bid"].price < taker'.price)
    BY QuoteAskFacts
  <2>2. QED
    BY <1>1, <2>1 DEF CallerHolds
<1>5. QED
  BY <1>2, <1>3, <1>4 DEF Inv

LEMMA CancelAllKeepsInv == ASSUME Inv, CancelAll PROVE Inv'
<1>1. /\ ~ Calling /\ ~ Limit /\ WithdrawOwn /\ askLeg = NoLeg
      /\ taker' = taker /\ lastId' = lastId /\ phase' = phase /\ cursor' = cursor
      /\ mid' = mid /\ slots' = slots /\ askLeg' = askLeg
  BY NotCalling DEF CancelAll, Idle, Calling
<1>2. ~ Calling' /\ ~ Limit'
  BY <1>1 DEF Calling, Limit
<1>3. TypesHold'
  BY <1>1, WithdrawOwnFacts DEF Inv, TypesHold
<1>4. BookHolds'
  BY <1>1, <1>2, WithdrawOwnFacts DEF BookHolds
<1>5. CallerHolds'
  BY <1>1, <1>2 DEF CallerHolds
<1>6. QED
  BY <1>3, <1>4, <1>5 DEF Inv

LEMMA NoiseOrderKeepsInv == ASSUME Inv, NEW s \in Side, NoiseOrder(s) PROVE Inv'
<1> DEFINE t == Engine!MarketOrder(s, NoiseQty)
<1>1. /\ book' = book /\ lastId' = lastId /\ taker' = t /\ phase' = "evolve" /\ cursor' = cursor
      /\ mid' = mid /\ slots' = slots /\ own' = own /\ askLeg' = askLeg /\ phase = "noise"
      /\ ~ Limit
  BY NotCalling DEF NoiseOrder, Idle, Calling
<1>2. NoiseQty \in Qtys
  BY ExchangeAssumption
<1>3. /\ t \in Engine!MarketTaker /\ t # Engine!NoTaker
      /\ t.kind = "market" /\ t.left = NoiseQty /\ t.fills = <<>>
  BY <1>2, MarketOrderFacts
<1> HIDE DEF t
<1>4. Calling' /\ ~ Limit' /\ taker'.fills = <<>> /\ taker'.left \in Qtys
  BY <1>1, <1>2, <1>3 DEF Calling, Limit
<1>5. askLeg = NoLeg
  BY <1>1 DEF Inv, CallerHolds
<1>6. TypesHold'
  BY <1>1, <1>3 DEF Inv, TypesHold
<1>7. BookHolds'
  BY <1>1, <1>4 DEF Inv, BookHolds
<1>8. CallerHolds'
  BY <1>1, <1>4, <1>5 DEF CallerHolds
<1>9. QED
  BY <1>6, <1>7, <1>8 DEF Inv

(* A fill of the best level thins the book. *)
LEMMA WalkThins ==
  ASSUME Inv, Walk
  PROVE  /\ Sound(book', Prices) /\ QtysKnown(book', Qtys) /\ Thinned(book, book')
         /\ \A n : IdsUpTo(book, n) => IdsUpTo(book', n)
<1> DEFINE s == Opposite(taker.side)
<1>1. PICK p \in Prices, qty \in Qtys :
        /\ Calling /\ IsBest(book, s, p) /\ qty <= book[s][p][1].qty
        /\ book' = FillFront(book, s, p, qty)
  BY WalkFacts
<1>2. s \in Side /\ p \in DOMAIN book[s] /\ qty \in Nat
  BY <1>1, CallFacts, PricesAreIntegers DEF Inv, IsBest
<1>3. Sound(book, Prices) /\ QtysKnown(book, Qtys)
  BY DEF Inv, BookHolds
<1> HIDE DEF s
<1>4. Sound(book', Prices) /\ Thinned(book, book')
  BY <1>1, <1>2, <1>3, FillSound
<1>5. Qtys \subseteq Nat /\ \A q \in Qtys : 1 .. q \subseteq Qtys
  BY PricesAreIntegers, ExchangeAssumption
<1>6. QED
  BY <1>3, <1>4, <1>5, ThinnedIds, ThinnedQtys

LEMMA WalkKeepsInv == ASSUME Inv, Walk PROVE Inv'
<1>1. /\ Calling /\ outbox = <<>> /\ outbox' = outbox
      /\ phase' = phase /\ cursor' = cursor /\ mid' = mid /\ slots' = slots
      /\ own' = own /\ askLeg' = askLeg
  BY WalkFacts DEF Walk, loopVars
<1>2. /\ taker' \in Engine!LimitTaker \cup Engine!MarketTaker
      /\ taker'.kind = taker.kind /\ taker'.side = taker.side
      /\ taker'.left = 0 \/ taker'.left \in Qtys
      /\ Limit => /\ taker'.id = taker.id /\ taker'.price = taker.price
                  /\ taker'.ours = taker.ours
      /\ lastId' = lastId
  BY WalkFacts
<1>3. Limit' <=> Limit
  BY <1>2 DEF Limit
<1>4. TypesHold'
  BY <1>1, <1>2 DEF Inv, TypesHold
<1>5. BookHolds'
  <2>1. IdsUpTo(book', IF Limit THEN lastId - 1 ELSE lastId)
    BY WalkThins DEF Inv, BookHolds
  <2>2. QED
    BY <1>2, <1>3, <2>1, WalkThins DEF Inv, BookHolds
<1>6. CallerHolds'
  BY <1>1, <1>2, <1>3 DEF Inv, CallerHolds, SlotSide
<1>7. QED
  BY <1>4, <1>5, <1>6 DEF Inv

(* What the caller remembers of the order it submitted. *)
LEMMA RememberedFacts ==
  ASSUME Inv, Calling, Limit
  PROVE  /\ Remembered(taker) \in OrderRef
         /\ taker.left > 0 => Remembered(taker) = [id |-> lastId, price |-> taker.price]
         /\ ~ (taker.left > 0) => Remembered(taker) = None
<1>1. taker.price \in Prices /\ taker.id \in Nat /\ taker.id = lastId
  BY CallFacts DEF Inv, BookHolds
<1>2. QED
  BY <1>1 DEF Remembered, OrderRef

(* Where the loop goes on when the call returns. *)
LEMMA ReturnedLoop ==
  ASSUME Inv, Returned
  PROVE  /\ mid' = mid /\ askLeg' = askLeg /\ outbox' = Report(taker)
         /\ Limit /\ ~ taker.ours =>
              /\ slots' = [slots EXCEPT ![cursor] = Remembered(taker)] /\ own' = own
              /\ cursor' \in Slots /\ phase' \in {phase, "evolve", "commands"}
         /\ Limit /\ taker.ours =>
              /\ own' = [own EXCEPT ![taker.side] = Remembered(taker)]
              /\ slots' = slots /\ cursor' = cursor /\ phase' = phase
         /\ ~ Limit => own' = own /\ slots' = slots /\ cursor' = cursor /\ phase' = phase
BY NextSlotFacts DEF Inv, Returned, Limit

LEMMA ReturnedKeepsInv == ASSUME Inv, Returned PROVE Inv'
<1>1. Calling /\ ~ Calling' /\ ~ Limit' /\ taker' = Engine!NoTaker /\ lastId' = lastId
  BY ReturnedFacts
<1>2. taker.side \in Side /\ (Limit => taker.ours \in BOOLEAN)
  BY <1>1, CallFacts DEF Inv
<1>3. cursor \in Slots /\ slots \in [Slots -> OrderRef] /\ own \in [Side -> OrderRef]
  BY DEF Inv, TypesHold
<1>4. TypesHold'
  <2>1. CASE Limit /\ ~ taker.ours
    <3>1. slots' \in [Slots -> OrderRef]
      BY <1>1, <1>3, <2>1, RememberedFacts, ReturnedLoop
    <3>2. QED
      BY <1>1, <2>1, <3>1, ReturnedLoop DEF Inv, TypesHold
  <2>2. CASE Limit /\ taker.ours
    <3>1. own' \in [Side -> OrderRef]
      BY <1>1, <1>2, <1>3, <2>2, RememberedFacts, ReturnedLoop
    <3>2. QED
      BY <1>1, <2>2, <3>1, ReturnedLoop DEF Inv, TypesHold
  <2>3. CASE ~ Limit
    BY <1>1, <2>3, ReturnedLoop DEF Inv, TypesHold
  <2>4. QED
    BY <2>1, <2>2, <2>3
<1>5. BookHolds'
  <2>1. CASE Limit /\ taker.left > 0
    <3> DEFINE o == [id |-> taker.id, qty |-> taker.left, ours |-> taker.ours]
    <3>1. /\ Sound(book', Prices) /\ IdsUpTo(book', lastId) /\ o.qty \in Qtys
          /\ Extended(book, book', taker.side, taker.price, o)
      BY <2>1, ReturnedFacts
    <3> HIDE DEF o
    <3>2. QtysKnown(book', Qtys)
      BY <3>1 DEF Inv, BookHolds, QtysKnown, Extended
    <3>3. QED
      BY <1>1, <3>1, <3>2 DEF BookHolds
  <2>2. CASE ~ (Limit /\ taker.left > 0)
    <3>1. book' = book
      BY <2>2, ReturnedFacts
    <3>2. QED
      BY <1>1, <3>1, IdsOnBook DEF Inv, BookHolds
  <2>3. QED
    BY <2>1, <2>2
<1>6. CallerHolds'
  <2>1. CASE askLeg = NoLeg
    BY <1>1, <2>1, ReturnedLoop DEF CallerHolds
  <2>2. CASE askLeg # NoLeg
    <3>1. /\ phase = "commands" /\ lastId < MaxId /\ own["Ask"] = None
          /\ own["Bid"] = None \/ own["Bid"].price = askLeg.bid
      BY <2>2 DEF Inv, CallerHolds
    <3>2. Limit => taker.ours /\ taker.side = "Bid" /\ taker.price = askLeg.bid
      BY <1>2, <2>2, <3>1 DEF Inv, CallerHolds, Side
    <3>3. phase' = phase /\ askLeg' = askLeg
      BY <1>2, <3>2, ReturnedLoop
    <3>4. own'["Ask"] = None /\ (own'["Bid"] = None \/ own'["Bid"].price = askLeg.bid)
      <4>1. CASE Limit
        <5>1. own' = [own EXCEPT !["Bid"] = Remembered(taker)]
          BY <3>2, <4>1, ReturnedLoop
        <5>2. Remembered(taker) = None \/ Remembered(taker).price = askLeg.bid
          BY <1>1, <3>2, <4>1, RememberedFacts
        <5>3. "Bid" \in Side /\ "Ask" # "Bid"
          BY DEF Side
        <5>4. QED
          BY <1>3, <3>1, <5>1, <5>2, <5>3
      <4>2. CASE ~ Limit
        BY <3>1, <4>2, ReturnedLoop
      <4>3. QED
        BY <4>1, <4>2
    <3>5. QED
      BY <1>1, <3>1, <3>3, <3>4 DEF CallerHolds
  <2>3. QED
    BY <2>1, <2>2
<1>7. QED
  BY <1>4, <1>5, <1>6 DEF Inv

LEMMA InvStep == Inv /\ [Next]_vars => Inv'
<1> SUFFICES ASSUME Inv, [Next]_vars PROVE Inv'
  OBVIOUS
<1>1. CASE Evolve \/ SkipSlot \/ CommandsDone \/ NoNoise \/ Emit \/ UNCHANGED vars
  BY <1>1, LoopKeepsInv
<1>2. CASE PlaceBackground
  BY <1>2, PlaceBackgroundKeepsInv
<1>3. ASSUME NEW bid \in QuotePrices, NEW ask \in QuotePrices, Quote(bid, ask) PROVE Inv'
  BY <1>3, QuoteKeepsInv
<1>4. CASE QuoteAsk
  BY <1>4, QuoteAskKeepsInv
<1>5. CASE CancelAll
  BY <1>5, CancelAllKeepsInv
<1>6. ASSUME NEW s \in Side, NoiseOrder(s) PROVE Inv'
  BY <1>6, NoiseOrderKeepsInv
<1>7. CASE Walk
  BY <1>7, WalkKeepsInv
<1>8. CASE Returned
  BY <1>8, ReturnedKeepsInv
<1>9. QED
  BY <1>1, <1>2, <1>3, <1>4, <1>5, <1>6, <1>7, <1>8 DEF Next

(* The book of the engine is sound at every step of every call: its levels    *)
(* hold orders with a quantity, its queues are in order of arrival, no id     *)
(* rests twice, and each id is one that was handed out.                       *)
THEOREM BookIsSound == Spec => [](Sound(book, Prices) /\ IdsUpTo(book, lastId))
<1>1. Inv => Sound(book, Prices) /\ IdsUpTo(book, lastId)
  BY IdsOnBook DEF Inv, BookHolds
<1>2. QED
  BY <1>1, InvInit, InvStep, PTL DEF Spec

(* A snapshot made at any step of the loop, the middle of a call included,    *)
(* rebuilds the engine's book exactly, queue order and all, whatever book the *)
(* strategy had: export_resync and rebuild_from_resync are inverse.           *)
THEOREM RoundTrips == Spec => []ResyncRoundTrip
<1>1. Inv => ResyncRoundTrip
  <2> SUFFICES ASSUME Inv PROVE ResyncRoundTrip
    OBVIOUS
  <2>1. IsBook(book, Prices) /\ LiveBook(book) /\ Finite(book)
    BY DEF Inv, BookHolds, Sound
  <2>2. QED
    BY <2>1, PricesAreIntegers, RoundTrip DEF ResyncRoundTrip
<1>2. QED
  BY <1>1, InvInit, InvStep, PTL DEF Spec

-----------------------------------------------------------------------------
(* The handlers know their orders *)

\* Order o, resting at (s, p), is the one its handler has a reference to.
Known(s, p, o, refs, slotRefs) ==
  LET ref == [id |-> o.id, price |-> p]
  IN  IF o.ours THEN refs[s] = ref
      ELSE \E k \in Slots : SlotSide(k) = s /\ slotRefs[k] = ref

LEMMA TrackedOrders ==
  OrdersAreTracked <=>
    \A s \in Side : \A p \in DOMAIN book[s] : \A i \in DOMAIN book[s][p] :
      Known(s, p, book[s][p][i], own, slots)
BY DEF OrdersAreTracked, Known

(* An order on the book has an id, so that no empty reference names it. *)
LEMMA OrderHasId ==
  ASSUME Inv, NEW s \in Side, NEW p \in DOMAIN book[s], NEW i \in DOMAIN book[s][p]
  PROVE  [id |-> book[s][p][i].id, price |-> p] # None
<1>1. book[s][p][i].id \in 1 .. lastId
  BY IdsOnBook DEF Inv, IdsUpTo
<1>2. QED
  BY <1>1 DEF None

LEMMA TrackedWhenThinned ==
  ASSUME OrdersAreTracked, Thinned(book, book'), own' = own, slots' = slots
  PROVE  OrdersAreTracked'
<1> SUFFICES ASSUME NEW s \in Side, NEW p \in DOMAIN book'[s], NEW i \in DOMAIN book'[s][p]
             PROVE  Known(s, p, book'[s][p][i], own', slots')
  BY DEF OrdersAreTracked, Known, SlotSide, Slots
<1>1. PICK j \in DOMAIN book[s][p] : Same(book'[s][p][i], book[s][p][j])
  BY DEF Thinned
<1>2. Known(s, p, book[s][p][j], own, slots)
  BY <1>1, TrackedOrders DEF Thinned
<1>3. QED
  BY <1>1, <1>2 DEF Same, Known

LEMMA TrackedByPlaceBackground ==
  ASSUME Inv, OrdersAreTracked, PlaceBackground
  PROVE  OrdersAreTracked'
<1>1. slots' = [slots EXCEPT ![cursor] = None] /\ own' = own
  BY DEF PlaceBackground
<1> SUFFICES ASSUME NEW s \in Side, NEW p \in DOMAIN book'[s], NEW i \in DOMAIN book'[s][p]
             PROVE  Known(s, p, book'[s][p][i], own', slots')
  BY DEF OrdersAreTracked, Known, SlotSide, Slots
<1>2. PICK j \in DOMAIN book[s][p] : Same(book'[s][p][i], book[s][p][j])
  BY PlaceBackgroundFacts DEF Thinned
<1> DEFINE ref == [id |-> book[s][p][j].id, price |-> p]
<1>3. p \in DOMAIN book[s] /\ Known(s, p, book[s][p][j], own, slots) /\ ref # None
  <2>1. p \in DOMAIN book[s]
    BY PlaceBackgroundFacts DEF Thinned
  <2>2. QED
    BY <1>2, <2>1, TrackedOrders, OrderHasId
<1>4. CASE book[s][p][j].ours
  BY <1>1, <1>2, <1>3, <1>4 DEF Same, Known
<1>5. CASE ~ book[s][p][j].ours
  <2>1. PICK k \in Slots : SlotSide(k) = s /\ slots[k] = ref
    BY <1>3, <1>5 DEF Known
  <2>2. k # cursor
    <3> SUFFICES ASSUME k = cursor PROVE FALSE
      OBVIOUS
    <3>1. \A n \in DOMAIN book'[s][p] : book'[s][p][n].id # ref.id
      <4>1. ref = slots[cursor] /\ ref.price = p /\ s = SlotSide(cursor)
        BY <2>1
      <4> HIDE DEF ref
      <4>2. QED
        BY <1>3, <4>1, PlaceBackgroundFacts
    <3>2. QED
      BY <1>2, <3>1 DEF Same
  <2>3. slots'[k] = ref
    BY <1>1, <2>1, <2>2 DEF Inv, TypesHold
  <2>4. QED
    BY <1>2, <1>5, <2>1, <2>3 DEF Same, Known
<1>6. QED
  BY <1>4, <1>5

LEMMA TrackedByWithdrawOwn ==
  ASSUME Inv, OrdersAreTracked, ~ Limit, WithdrawOwn, slots' = slots
  PROVE  OrdersAreTracked'
<1> SUFFICES ASSUME NEW s \in Side, NEW p \in DOMAIN book'[s], NEW i \in DOMAIN book'[s][p]
             PROVE  Known(s, p, book'[s][p][i], own', slots')
  BY DEF OrdersAreTracked, Known, SlotSide, Slots
<1>1. PICK j \in DOMAIN book[s][p] : Same(book'[s][p][i], book[s][p][j])
  BY WithdrawOwnFacts DEF Thinned
<1> DEFINE ref == [id |-> book[s][p][j].id, price |-> p]
<1>2. Known(s, p, book[s][p][j], own, slots) /\ ref # None
  <2>1. p \in DOMAIN book[s]
    BY WithdrawOwnFacts DEF Thinned
  <2>2. QED
    BY <1>1, <2>1, TrackedOrders, OrderHasId
<1>3. ~ book[s][p][j].ours
  <2> SUFFICES ASSUME book[s][p][j].ours PROVE FALSE
    OBVIOUS
  <2>1. own[s] = ref /\ own[s] # None /\ own[s].price = p /\ own[s].id = ref.id
    BY <1>2 DEF Known
  <2> HIDE DEF ref
  <2>2. \A n \in DOMAIN book'[s][p] : book'[s][p][n].id # ref.id
    BY <2>1, WithdrawOwnFacts
  <2>3. QED
    BY <1>1, <2>2 DEF Same, ref
<1>4. QED
  BY <1>1, <1>2, <1>3 DEF Same, Known

LEMMA TrackedByReturned ==
  ASSUME Inv, OrdersAreTracked, Returned
  PROVE  OrdersAreTracked'
<1> DEFINE s == taker.side
           p == taker.price
           o == [id |-> taker.id, qty |-> taker.left, ours |-> taker.ours]
           rests == Limit /\ taker.left > 0
           ref == [id |-> lastId, price |-> p]
<1>1. Calling /\ s \in Side /\ (Limit => taker.ours \in BOOLEAN)
      /\ cursor \in Slots /\ slots \in [Slots -> OrderRef] /\ own \in [Side -> OrderRef]
  BY ReturnedFacts, CallFacts DEF Inv, TypesHold
\* Nothing remembered so far is forgotten: the reference overwritten was empty.
<1>2. /\ \A t \in Side : own'[t] = own[t] \/ own[t] = None
      /\ \A k \in Slots : slots'[k] = slots[k] \/ slots[k] = None
  <2>1. CASE Limit /\ ~ taker.ours
    BY <1>1, <2>1, ReturnedLoop DEF Inv, CallerHolds
  <2>2. CASE Limit /\ taker.ours
    BY <1>1, <2>2, ReturnedLoop DEF Inv, CallerHolds
  <2>3. CASE ~ Limit
    BY <2>3, ReturnedLoop
  <2>4. QED
    BY <1>1, <2>1, <2>2, <2>3
<1>3. ASSUME NEW t \in Side, NEW x \in DOMAIN book[t], NEW i \in DOMAIN book[t][x]
      PROVE  Known(t, x, book[t][x][i], own', slots')
  <2>1. Known(t, x, book[t][x][i], own, slots) /\ [id |-> book[t][x][i].id, price |-> x] # None
    BY TrackedOrders, OrderHasId
  <2>2. QED
    BY <1>2, <2>1 DEF Known
<1>4. ASSUME rests PROVE Known(s, p, o, own', slots')
  <2>1. Remembered(taker) = ref /\ taker.id = lastId
    BY <1>1, <1>4, RememberedFacts DEF Inv, BookHolds
  <2>2. CASE taker.ours
    BY <1>1, <1>4, <2>1, <2>2, ReturnedLoop DEF Known
  <2>3. CASE ~ taker.ours
    <3>1. slots'[cursor] = ref /\ SlotSide(cursor) = s
      BY <1>1, <1>4, <2>1, <2>3, ReturnedLoop DEF Inv, CallerHolds
    <3>2. QED
      BY <1>1, <2>1, <2>3, <3>1 DEF Known
  <2>4. QED
    BY <2>2, <2>3
<1>5. ASSUME NEW t \in Side, NEW x \in DOMAIN book'[t], NEW i \in DOMAIN book'[t][x]
      PROVE  Known(t, x, book'[t][x][i], own', slots')
  <2>1. CASE rests
    <3>1. Extended(book, book', s, p, o)
      BY <2>1, ReturnedFacts
    <3> HIDE DEF s, p, o
    <3>2. \/ t = s /\ x = p /\ book'[t][x][i] = o
          \/ x \in DOMAIN book[t] /\ i \in DOMAIN book[t][x] /\ book'[t][x][i] = book[t][x][i]
      BY <3>1 DEF Extended
    <3>3. QED
      BY <1>3, <1>4, <2>1, <3>2
  <2>2. CASE ~ rests
    <3>1. book' = book
      BY <2>2, ReturnedFacts
    <3>2. QED
      BY <1>3, <3>1
  <2>3. QED
    BY <2>1, <2>2
<1>6. QED
  BY <1>5 DEF OrdersAreTracked, Known, SlotSide, Slots

LEMMA TrackedStep == Inv /\ OrdersAreTracked /\ [Next]_vars => OrdersAreTracked'
<1> SUFFICES ASSUME Inv, OrdersAreTracked, [Next]_vars PROVE OrdersAreTracked'
  OBVIOUS
<1>1. ASSUME book' = book, own' = own, slots' = slots PROVE OrdersAreTracked'
  BY <1>1 DEF OrdersAreTracked, SlotSide, Slots
<1>2. CASE Evolve \/ SkipSlot \/ CommandsDone \/ NoNoise \/ Emit \/ UNCHANGED vars
  BY <1>1, <1>2 DEF Evolve, SkipSlot, CommandsDone, NoNoise, Emit, engineVars, loopVars, vars
<1>3. CASE PlaceBackground
  BY <1>3, TrackedByPlaceBackground
<1>4. ASSUME NEW bid \in QuotePrices, NEW ask \in QuotePrices, Quote(bid, ask)
      PROVE  OrdersAreTracked'
  BY <1>4, QuoteFacts, TrackedByWithdrawOwn DEF Quote
<1>5. CASE QuoteAsk
  BY <1>1, <1>5 DEF QuoteAsk
<1>6. CASE CancelAll
  <2>1. ~ Limit
    BY <1>6, NotCalling DEF CancelAll, Idle, Calling
  <2>2. QED
    BY <1>6, <2>1, TrackedByWithdrawOwn DEF CancelAll
<1>7. ASSUME NEW s \in Side, NoiseOrder(s) PROVE OrdersAreTracked'
  BY <1>1, <1>7 DEF NoiseOrder
<1>8. CASE Walk
  BY <1>8, WalkThins, TrackedWhenThinned DEF Walk, loopVars
<1>9. CASE Returned
  BY <1>9, TrackedByReturned
<1>10. QED
  BY <1>2, <1>3, <1>4, <1>5, <1>6, <1>7, <1>8, <1>9 DEF Next

(* The handlers of run() always know the orders they left on the book: a      *)
(* Quote or a CancelAll withdraws every order of ours, and the refresh of a   *)
(* slot its order, however these were partly filled or the slot was reused.   *)
THEOREM Tracked == Spec => []OrdersAreTracked
<1>1. Init => Inv /\ OrdersAreTracked
  <2> SUFFICES ASSUME Init PROVE OrdersAreTracked
    BY InvInit
  <2>1. \A s \in Side : DOMAIN book[s] = {}
    BY DEF Init, Engine!Init, Engine!EmptyBook, Engine!Side, Side
  <2>2. QED
    BY <2>1 DEF OrdersAreTracked
<1>2. QED
  BY <1>1, InvStep, TrackedStep, PTL DEF Spec

-----------------------------------------------------------------------------
(* No order of ours trades with another *)

LEMMA WalkTradesWithOthers ==
  ASSUME Inv, OrdersAreTracked, NoSelfTrade, Walk
  PROVE  NoSelfTrade'
<1> DEFINE s == Opposite(taker.side)
<1>1. PICK p \in Prices, qty \in Qtys :
        LET front == book[s][p][1]
            fill == [id |-> front.id, ours |-> front.ours, price |-> p, qty |-> qty]
        IN  /\ Calling /\ IsBest(book, s, p)
            /\ Limit => Crosses(taker.side, taker.price, p)
            /\ taker'.kind = taker.kind /\ taker'.fills = Append(taker.fills, fill)
            /\ Limit => taker'.ours = taker.ours
  BY WalkFacts
<1> DEFINE front == book[s][p][1]
           fill == [id |-> front.id, ours |-> front.ours, price |-> p, qty |-> qty]
<1>2. /\ s \in Side /\ p \in DOMAIN book[s] /\ taker.side \in Side /\ p \in Int
      /\ taker.fills \in Seq(Engine!Fill) /\ taker'.fills = Append(taker.fills, fill)
      /\ Limit => taker.price \in Int
  BY <1>1, CallFacts, PricesAreIntegers DEF Inv, IsBest
<1>3. 1 \in DOMAIN book[s][p] /\ front \in Order
  <2>1. book[s][p] \in Seq(Order) /\ book[s][p] # <<>>
    BY <1>2 DEF Inv, BookHolds, Sound, IsBook, LiveBook
  <2>2. QED
    BY <2>1
<1>4. ASSUME Limit, taker.ours PROVE ~ front.ours
  <2> SUFFICES ASSUME front.ours PROVE FALSE
    OBVIOUS
  <2> DEFINE ref == [id |-> front.id, price |-> p]
  <2>1. own[s] = ref /\ ref # None
    <3>1. Known(s, p, book[s][p][1], own, slots)
      BY <1>2, <1>3, TrackedOrders
    <3>2. QED
      BY <1>2, <1>3, <3>1, OrderHasId DEF Known
  <2>2. own[s].price = p
    BY <2>1
  <2> HIDE DEF ref
  <2>3. CASE taker.side = "Bid"
    <3>1. s = "Ask" /\ own["Ask"] = None
      BY <1>4, <2>3 DEF Inv, CallerHolds, Opposite
    <3>2. QED
      BY <2>1, <3>1
  <2>4. CASE taker.side = "Ask"
    <3>1. s = "Bid" /\ (own["Bid"] = None \/ own["Bid"].price < taker.price)
      BY <1>4, <2>4 DEF Inv, CallerHolds, Opposite
    <3>2. p < taker.price
      BY <2>1, <2>2, <3>1
    <3>3. taker.price <= p
      BY <1>1, <1>4, <2>4 DEF Crosses
    <3>4. QED
      BY <1>2, <1>4, <3>2, <3>3
  <2>5. QED
    BY <1>2, <2>3, <2>4 DEF Side
<1>5. fill.ours = front.ours
  OBVIOUS
<1> HIDE DEF front, fill
<1> SUFFICES ASSUME Limit, taker.ours, NEW n \in DOMAIN taker'.fills
             PROVE  ~ taker'.fills[n].ours
  BY <1>1 DEF NoSelfTrade, Limit
<1>6. CASE n \in DOMAIN taker.fills
  <2>1. taker'.fills[n] = taker.fills[n]
    BY <1>2, <1>6
  <2>2. QED
    BY <1>6, <2>1 DEF NoSelfTrade, Limit
<1>7. CASE n \notin DOMAIN taker.fills
  <2>1. taker'.fills[n] = fill
    BY <1>2, <1>7
  <2>2. QED
    BY <1>4, <1>5, <2>1
<1>8. QED
  BY <1>6, <1>7

LEMMA NoSelfTradeStep ==
  Inv /\ OrdersAreTracked /\ NoSelfTrade /\ [Next]_vars => NoSelfTrade'
<1> SUFFICES ASSUME Inv, OrdersAreTracked, NoSelfTrade, [Next]_vars PROVE NoSelfTrade'
  OBVIOUS
<1>1. ASSUME taker' = taker PROVE NoSelfTrade'
  BY <1>1 DEF NoSelfTrade
<1>2. ASSUME taker'.fills = <<>> PROVE NoSelfTrade'
  BY <1>2 DEF NoSelfTrade
<1>3. CASE Evolve \/ SkipSlot \/ CancelAll \/ CommandsDone \/ NoNoise \/ Emit \/ UNCHANGED vars
  BY <1>1, <1>3
     DEF Evolve, SkipSlot, CancelAll, CommandsDone, NoNoise, Emit, engineVars, vars
<1>4. CASE PlaceBackground
  BY <1>2, <1>4, PlaceBackgroundFacts
<1>5. ASSUME NEW bid \in QuotePrices, NEW ask \in QuotePrices, Quote(bid, ask)
      PROVE  NoSelfTrade'
  BY <1>2, <1>5, QuoteFacts
<1>6. CASE QuoteAsk
  BY <1>2, <1>6, QuoteAskFacts
<1>7. ASSUME NEW s \in Side, NoiseOrder(s) PROVE NoSelfTrade'
  <2>1. taker'.fills = <<>>
    BY <1>7 DEF NoiseOrder, Engine!MarketOrder
  <2>2. QED
    BY <1>2, <2>1
<1>8. CASE Walk
  BY <1>8, WalkTradesWithOthers
<1>9. CASE Returned
  BY <1>9, ReturnedFacts DEF NoSelfTrade, Limit
<1>10. QED
  BY <1>3, <1>4, <1>5, <1>6, <1>7, <1>8, <1>9 DEF Next

(* No order of ours ever trades with another order of ours: a Quote withdraws *)
(* both before it places the bid, and safe_ask_price keeps the ask above it.  *)
THEOREM OursNeverMeet == Spec => []NoSelfTrade
<1>1. Init => Inv /\ OrdersAreTracked /\ NoSelfTrade
  <2> SUFFICES ASSUME Init PROVE OrdersAreTracked /\ NoSelfTrade
    BY InvInit
  <2>1. \A s \in Side : DOMAIN book[s] = {}
    BY DEF Init, Engine!Init, Engine!EmptyBook, Engine!Side, Side
  <2>2. ~ Limit
    BY DEF Init, Engine!Init, Limit, Engine!NoTaker
  <2>3. QED
    BY <2>1, <2>2 DEF OrdersAreTracked, NoSelfTrade, Limit
<1>2. QED
  BY <1>1, InvStep, TrackedStep, NoSelfTradeStep, PTL DEF Spec

-----------------------------------------------------------------------------
(* At most one leg of a Quote trades on arrival *)

\* The bid just placed rests, and nothing of it was traded.
BidIsWhole(b) ==
  \E p \in DOMAIN b["Bid"] : \E i \in DOMAIN b["Bid"][p] :
    b["Bid"][p][i].ours /\ b["Bid"][p][i].qty = LotSize

\* A bid that has traded met the best ask, and the book is not crossed: every
\* other bid is below it, and none is left for the ask leg, which is above it.
BidLegHolds ==
  Limit /\ taker.ours /\ taker.side = "Bid" =>
    taker.left = LotSize \/ \A p \in DOMAIN book["Bid"] : p < taker.price

BetweenLegsHolds ==
  askLeg # NoLeg =>
    IF Calling THEN Limit
    ELSE BidIsWhole(book) \/ \A p \in DOMAIN book["Bid"] : p <= askLeg.bid

AskLegHolds ==
  Limit /\ taker.ours /\ taker.side = "Ask" =>
    BidIsWhole(book) \/ (taker.fills = <<>> /\ \A p \in DOMAIN book["Bid"] : p < taker.price)

LegsHold == Apart(book) /\ BidLegHolds /\ BetweenLegsHolds /\ AskLegHolds

(* Neither leg is on its way, so that there is nothing to keep. *)
LEMMA NoLegHolds ==
  ASSUME Apart(book)', askLeg' = NoLeg, ~ (Limit /\ taker.ours)'
  PROVE  LegsHold'
BY DEF LegsHold, BidLegHolds, BetweenLegsHolds, AskLegHolds

LEMMA QuoteKeepsLegs ==
  ASSUME Inv, LegsHold, NEW bid \in QuotePrices, NEW ask \in QuotePrices, Quote(bid, ask)
  PROVE  LegsHold'
<1>1. ~ Limit /\ WithdrawOwn /\ Calling' /\ Limit' /\ taker'.side = "Bid"
  BY QuoteFacts
<1>2. taker'.left = LotSize
  BY DEF Quote, Engine!LimitOrder
<1>3. Apart(book')
  BY <1>1, WithdrawOwnFacts, ThinnedApart DEF LegsHold
<1>4. QED
  BY <1>1, <1>2, <1>3 DEF LegsHold, BidLegHolds, BetweenLegsHolds, AskLegHolds, Apart

LEMMA QuoteAskKeepsLegs ==
  ASSUME Inv, LegsHold, QuoteAsk
  PROVE  LegsHold'
<1>1. /\ ~ Calling /\ Calling' /\ askLeg' = NoLeg /\ book' = book
      /\ taker'.side = "Ask" /\ taker'.fills = <<>>
  BY QuoteAskFacts
<1>2. askLeg # NoLeg /\ askLeg \in [bid : QuotePrices, ask : QuotePrices]
  BY DEF QuoteAsk, Inv, TypesHold
<1>3. taker'.price = SafeAsk(askLeg)
  BY DEF QuoteAsk, Engine!LimitOrder
<1>4. askLeg.bid < SafeAsk(askLeg) /\ askLeg.bid \in Int /\ SafeAsk(askLeg) \in Int
  <2>1. askLeg.bid \in Int /\ askLeg.ask \in Int
    BY <1>2, PricesAreIntegers, ExchangeAssumption
  <2>2. QED
    BY <2>1 DEF SafeAsk
<1>5. BidIsWhole(book) \/ \A p \in DOMAIN book["Bid"] : p < taker'.price
  <2>1. \A p \in DOMAIN book["Bid"] : p \in Int
    BY PricesAreIntegers DEF Inv, BookHolds, Sound, IsBook, Side
  <2>2. QED
    BY <1>1, <1>2, <1>3, <1>4, <2>1 DEF LegsHold, BetweenLegsHolds
<1>6. QED
  BY <1>1, <1>5 DEF LegsHold, BidLegHolds, BetweenLegsHolds, AskLegHolds, Apart, BidIsWhole

(* A fill of the bid leg is one of its whole price range; a fill of the ask  *)
(* leg is with somebody else's bid, so that ours stays as it is.             *)
LEMMA WalkKeepsLegs ==
  ASSUME Inv, OrdersAreTracked, NoSelfTrade, LegsHold, Walk
  PROVE  LegsHold'
<1> DEFINE s == Opposite(taker.side)
<1>1. PICK p \in Prices, qty \in Qtys :
        LET front == book[s][p][1]
            fill == [id |-> front.id, ours |-> front.ours, price |-> p, qty |-> qty]
        IN  /\ Calling /\ IsBest(book, s, p)
            /\ Limit => Crosses(taker.side, taker.price, p)
            /\ qty <= front.qty /\ book' = FillFront(book, s, p, qty)
            /\ taker'.kind = taker.kind /\ taker'.side = taker.side
            /\ taker' \in Engine!LimitTaker \cup Engine!MarketTaker
            /\ taker'.fills = Append(taker.fills, fill)
            /\ Limit => taker'.price = taker.price /\ taker'.ours = taker.ours
  BY WalkFacts
<1> DEFINE front == book[s][p][1]
           fill == [id |-> front.id, ours |-> front.ours, price |-> p, qty |-> qty]
<1>2. /\ s \in Side /\ p \in DOMAIN book[s] /\ p \in Int /\ qty \in Nat
      /\ taker.side \in Side /\ (Limit => taker.price \in Int) /\ taker.fills \in Seq(Engine!Fill)
  BY <1>1, CallFacts, PricesAreIntegers DEF Inv, IsBest
<1>3. Sound(book, Prices) /\ \A x \in DOMAIN book["Bid"] : x \in Int
  BY PricesAreIntegers DEF Inv, BookHolds, Sound, IsBook, Side
<1>4. Calling' /\ askLeg' = askLeg /\ (Limit' <=> Limit)
  BY <1>1 DEF Walk, loopVars, Calling, Limit, Engine!LimitTaker, Engine!MarketTaker, Engine!NoTaker
<1>5. /\ \A t \in Side : t # s => book'[t] = book[t]
      /\ \A x \in DOMAIN book[s] : \A i \in DOMAIN book[s][x] :
           x # p \/ i # 1 =>
             x \in DOMAIN book'[s] /\ \E j \in DOMAIN book'[s][x] : book'[s][x][j] = book[s][x][i]
  BY <1>1, <1>2, <1>3, OthersStay
<1>6. Apart(book')
  BY WalkThins, ThinnedApart DEF LegsHold
<1> HIDE DEF s
<1>7. ASSUME Limit, taker.side = "Bid"
      PROVE  \A x \in DOMAIN book'["Bid"] : x < taker.price
  <2>1. s = "Ask" /\ book'["Bid"] = book["Bid"] /\ p <= taker.price
    BY <1>1, <1>5, <1>7 DEF s, Opposite, Crosses, Side
  <2>2. \A x \in DOMAIN book["Bid"] : x < p
    BY <1>2, <2>1 DEF LegsHold, Apart
  <2>3. QED
    BY <1>2, <1>3, <1>7, <2>1, <2>2
<1>8. ASSUME Limit, taker.ours, taker.side = "Ask"
      PROVE  BidIsWhole(book')
  <2>1. s = "Bid" /\ taker.price <= p
    BY <1>1, <1>8 DEF s, Opposite, Crosses
  <2>2. BidIsWhole(book)
    <3>1. ~ (p < taker.price)
      BY <1>2, <1>8, <2>1
    <3>2. QED
      BY <1>2, <1>8, <2>1, <3>1 DEF LegsHold, AskLegHolds
  <2>3. PICK x \in DOMAIN book["Bid"] : \E i \in DOMAIN book["Bid"][x] :
          book["Bid"][x][i].ours /\ book["Bid"][x][i].qty = LotSize
    BY <2>2 DEF BidIsWhole
  <2>4. PICK i \in DOMAIN book["Bid"][x] : book["Bid"][x][i].ours /\ book["Bid"][x][i].qty = LotSize
    BY <2>3
  <2>5. ~ front.ours
    <3>1. fill.ours = front.ours
      OBVIOUS
    <3> HIDE DEF fill, front
    <3>2. taker'.fills = Append(taker.fills, fill)
      BY <1>1 DEF fill, front, s
    <3>3. Len(taker.fills) + 1 \in DOMAIN taker'.fills /\ taker'.fills[Len(taker.fills) + 1] = fill
      BY <1>2, <3>2
    <3>4. taker'.kind = "limit" /\ taker'.ours
      BY <1>1, <1>8 DEF Limit
    <3>5. NoSelfTrade'
      BY WalkTradesWithOthers
    <3>6. QED
      BY <3>1, <3>3, <3>4, <3>5 DEF NoSelfTrade
  <2>6. x # p \/ i # 1
    BY <2>1, <2>4, <2>5
  <2>7. PICK j \in DOMAIN book'["Bid"][x] : book'["Bid"][x][j] = book["Bid"][x][i]
    BY <1>5, <2>1, <2>6
  <2>8. x \in DOMAIN book'["Bid"]
    BY <1>5, <2>1, <2>6
  <2>9. QED
    BY <2>4, <2>7, <2>8 DEF BidIsWhole
<1>9. BidLegHolds'
  BY <1>1, <1>4, <1>7 DEF BidLegHolds, Limit
<1>10. AskLegHolds'
  BY <1>1, <1>4, <1>8 DEF AskLegHolds, Limit
<1>11. BetweenLegsHolds'
  BY <1>1, <1>4 DEF LegsHold, BetweenLegsHolds
<1>12. QED
  BY <1>6, <1>9, <1>10, <1>11 DEF LegsHold, Apart

LEMMA ReturnedKeepsLegs ==
  ASSUME Inv, LegsHold, Returned
  PROVE  LegsHold'
<1> DEFINE o == [id |-> taker.id, qty |-> taker.left, ours |-> taker.ours]
           p == taker.price
           s == taker.side
           rests == Limit /\ taker.left > 0
<1>1. Calling /\ ~ Calling' /\ ~ Limit' /\ askLeg' = askLeg /\ (~ rests => book' = book)
  BY ReturnedFacts DEF Returned
<1>2. ASSUME rests
      PROVE  /\ o \in Order /\ p \in Prices
             /\ \A x \in DOMAIN book[Opposite(s)] : ~ Crosses(s, p, x)
             /\ book' = RestOrder(book, s, p, o)
             /\ Extended(book, book', s, p, o)
  BY <1>2, ReturnedFacts
<1>3. s \in Side /\ IsBook(book, Prices) /\ taker.left \in Nat /\ Prices \in SUBSET Int
  BY <1>1, CallFacts, PricesAreIntegers DEF Inv, BookHolds, Sound
<1>4. LotSize > 0 /\ LotSize \in Nat
  <2>1. LotSize \in Qtys
    BY ExchangeAssumption
  <2>2. QED
    BY <2>1, PricesAreIntegers
<1>5. o.ours = taker.ours /\ o.qty = taker.left
  OBVIOUS
<1> HIDE DEF o, p, s
<1>6. Apart(book')
  <2>1. CASE rests
    BY <1>2, <1>3, <2>1, RestApart DEF LegsHold
  <2>2. CASE ~ rests
    BY <1>1, <2>2 DEF LegsHold
  <2>3. QED
    BY <2>1, <2>2
<1>7. BetweenLegsHolds'
  <2> SUFFICES ASSUME askLeg # NoLeg
               PROVE  BidIsWhole(book') \/ \A x \in DOMAIN book'["Bid"] : x <= askLeg.bid
    BY <1>1 DEF BetweenLegsHolds
  <2>1. Limit => taker.ours /\ s = "Bid" /\ p = askLeg.bid
    <3>1. phase = "commands" /\ (Limit => taker.ours \in BOOLEAN)
      BY <1>1, CallFacts DEF Inv, CallerHolds
    <3>2. QED
      BY <1>3, <3>1 DEF Inv, CallerHolds, Side, s, p
  <2>2. Limit
    BY <1>1 DEF LegsHold, BetweenLegsHolds
  <2>3. CASE taker.left = LotSize
    <3>1. rests
      BY <1>4, <2>2, <2>3
    <3>2. p \in DOMAIN book'[s] /\ \E i \in DOMAIN book'[s][p] : book'[s][p][i] = o
      BY <1>2, <1>3, <3>1, RestedThere
    <3>3. QED
      BY <1>5, <2>1, <2>2, <2>3, <3>2 DEF BidIsWhole
  <2>4. CASE taker.left # LotSize
    <3>1. \A x \in DOMAIN book["Bid"] : x < p /\ x \in Int
      BY <1>3, <2>1, <2>2, <2>4 DEF LegsHold, BidLegHolds, IsBook, Side, p, s
    <3>2. CASE rests
      <4>1. DOMAIN book'["Bid"] = DOMAIN book["Bid"] \cup {p} /\ p \in Int
        BY <1>2, <1>3, <2>1, <2>2, <3>2 DEF Extended
      <4>2. QED
        BY <2>1, <2>2, <3>1, <4>1
    <3>3. CASE ~ rests
      <4>1. p \in Int
        BY <1>1, <1>3, <2>2, CallFacts DEF Inv, p
      <4>2. QED
        BY <1>1, <2>1, <2>2, <3>1, <3>3, <4>1
    <3>4. QED
      BY <3>2, <3>3
  <2>5. QED
    BY <2>3, <2>4
<1>8. QED
  BY <1>1, <1>6, <1>7 DEF LegsHold, BidLegHolds, AskLegHolds, Apart

LEMMA LegsStep ==
  Inv /\ OrdersAreTracked /\ NoSelfTrade /\ LegsHold /\ [Next]_vars => LegsHold'
<1> SUFFICES ASSUME Inv, OrdersAreTracked, NoSelfTrade, LegsHold, [Next]_vars PROVE LegsHold'
  OBVIOUS
<1>1. ASSUME book' = book, taker' = taker, askLeg' = askLeg PROVE LegsHold'
  BY <1>1 DEF LegsHold, BidLegHolds, BetweenLegsHolds, AskLegHolds, Apart, BidIsWhole, Limit, Calling
<1>2. CASE Evolve \/ SkipSlot \/ CommandsDone \/ NoNoise \/ Emit \/ UNCHANGED vars
  BY <1>1, <1>2 DEF Evolve, SkipSlot, CommandsDone, NoNoise, Emit, engineVars, loopVars, vars
<1>3. CASE PlaceBackground
  <2>1. askLeg' = NoLeg
    BY <1>3, PlaceBackgroundFacts DEF PlaceBackground, Inv, CallerHolds
  <2>2. Thinned(book, book') /\ ~ taker'.ours
    BY <1>3, PlaceBackgroundFacts
  <2>3. Apart(book')
    BY <2>2, ThinnedApart DEF LegsHold
  <2>4. QED
    BY <2>1, <2>2, <2>3, NoLegHolds DEF Apart
<1>4. ASSUME NEW bid \in QuotePrices, NEW ask \in QuotePrices, Quote(bid, ask)
      PROVE  LegsHold'
  BY <1>4, QuoteKeepsLegs
<1>5. CASE QuoteAsk
  BY <1>5, QuoteAskKeepsLegs
<1>6. CASE CancelAll
  <2>1. ~ Limit /\ WithdrawOwn /\ askLeg' = NoLeg /\ taker' = taker
    BY <1>6, NotCalling DEF CancelAll, Idle, Calling
  <2>2. Apart(book') /\ ~ Limit'
    BY <2>1, WithdrawOwnFacts, ThinnedApart DEF LegsHold, Limit
  <2>3. QED
    BY <2>1, <2>2, NoLegHolds DEF Apart
<1>7. ASSUME NEW t \in Side, NoiseOrder(t) PROVE LegsHold'
  <2>1. book' = book /\ askLeg' = askLeg /\ askLeg = NoLeg /\ ~ Limit'
    BY <1>7 DEF NoiseOrder, Inv, CallerHolds, Limit, Engine!MarketOrder
  <2>2. Apart(book')
    BY <2>1 DEF LegsHold
  <2>3. QED
    BY <2>1, <2>2, NoLegHolds DEF Apart
<1>8. CASE Walk
  BY <1>8, WalkKeepsLegs
<1>9. CASE Returned
  BY <1>9, ReturnedKeepsLegs
<1>10. QED
  BY <1>2, <1>3, <1>4, <1>5, <1>6, <1>7, <1>8, <1>9 DEF Next

(* Of the two orders of a Quote at most one trades on arrival: if the bid has *)
(* traded, nothing at or above its price is left for the ask, which run()     *)
(* places above it; so once the ask has traded, the bid rests untouched.      *)
THEOREM OneLegAtMost == Spec => []OneLegTrades
<1>1. Init => LegsHold
  <2> SUFFICES ASSUME Init PROVE LegsHold
    OBVIOUS
  <2>1. \A s \in Side : DOMAIN book[s] = {}
    BY DEF Init, Engine!Init, Engine!EmptyBook, Engine!Side, Side
  <2>2. ~ Limit /\ askLeg = NoLeg
    BY DEF Init, Engine!Init, Limit, Engine!NoTaker
  <2>3. QED
    BY <2>1, <2>2 DEF LegsHold, BidLegHolds, BetweenLegsHolds, AskLegHolds, Apart, Side
<1>2. LegsHold => OneLegTrades
  BY DEF LegsHold, AskLegHolds, OneLegTrades, AskLegTraded, Limit, BidIsWhole
<1>3. Init => Inv /\ OrdersAreTracked /\ NoSelfTrade
  <2> SUFFICES ASSUME Init PROVE OrdersAreTracked /\ NoSelfTrade
    BY InvInit
  <2>1. \A s \in Side : DOMAIN book[s] = {}
    BY DEF Init, Engine!Init, Engine!EmptyBook, Engine!Side, Side
  <2>2. ~ Limit
    BY DEF Init, Engine!Init, Limit, Engine!NoTaker
  <2>3. QED
    BY <2>1, <2>2 DEF OrdersAreTracked, NoSelfTrade, Limit
<1>4. QED
  BY <1>1, <1>2, <1>3, InvStep, TrackedStep, NoSelfTradeStep, LegsStep, PTL DEF Spec

-----------------------------------------------------------------------------
(* The events describe the book *)

\* The events that are not out yet: those of the last call, or the Trades of
\* the call in progress.
Pending == IF Calling /\ outbox = <<>> THEN TradesOf(taker) ELSE outbox

\* The events not out yet lead from the book of a reader who missed none to
\* the book of the engine, and leave the id of the order in progress unused.
Explained ==
  \E m \in Nat : /\ Leads(truth, lastAdded, Pending, book, m)
                 /\ m <= lastId /\ (Limit => m < lastId)

LEMMA NoTrades == ASSUME NEW t, t.fills = <<>> PROVE TradesOf(t) = <<>>
BY DEF TradesOf

LEMMA OneMoreTrade ==
  ASSUME NEW t, t.fills \in Seq(Engine!Fill), TradesOf(t) \in Seq(Events),
         NEW u, NEW fill, u.side = t.side, u.fills = Append(t.fills, fill)
  PROVE  TradesOf(u) =
           Append(TradesOf(t),
                  TradeOf(Opposite(t.side), fill.price, fill.id, fill.qty, fill.ours))
<1> DEFINE e(f) == TradeOf(Opposite(t.side), f.price, f.id, f.qty, f.ours)
           len == Len(t.fills)
<1>1. len \in Nat /\ DOMAIN t.fills = 1 .. len
  OBVIOUS
<1>2. /\ DOMAIN u.fills = 1 .. len + 1 /\ u.fills[len + 1] = fill
      /\ \A n \in 1 .. len : u.fills[n] = t.fills[n]
  BY <1>1
<1>3. TradesOf(t) = [n \in 1 .. len |-> e(t.fills[n])]
  BY <1>1 DEF TradesOf
<1>4. TradesOf(u) = [n \in 1 .. len + 1 |-> e(u.fills[n])]
  BY <1>2 DEF TradesOf
<1> HIDE DEF e, len
<1>5. Len(TradesOf(t)) = len
  BY <1>1, <1>3
<1> DEFINE last == e(fill)
           longer == Append(TradesOf(t), last)
<1>6. /\ DOMAIN longer = 1 .. len + 1 /\ longer[len + 1] = last
      /\ \A n \in 1 .. len : longer[n] = TradesOf(t)[n]
      /\ longer = [n \in 1 .. len + 1 |-> longer[n]]
  <2> DEFINE S == Events \cup {last}
             q == TradesOf(t)
  <2>1. last \in S /\ q \in Seq(S) /\ Len(q) = len
    BY <1>5
  <2> HIDE DEF S, q, last
  <2>2. /\ Append(q, last) \in Seq(S) /\ Len(Append(q, last)) = len + 1
        /\ Append(q, last)[len + 1] = last
        /\ \A n \in 1 .. len : Append(q, last)[n] = q[n]
    BY <1>1, <2>1
  <2>3. longer = Append(q, last)
    BY DEF q
  <2> HIDE DEF longer
  <2>4. longer \in Seq(S) /\ Len(longer) = len + 1
    BY <2>2, <2>3
  <2>5. DOMAIN longer = 1 .. len + 1 /\ longer = [n \in 1 .. len + 1 |-> longer[n]]
    BY <2>4
  <2>6. QED
    BY <2>2, <2>3, <2>5 DEF q
<1>7. \A n \in 1 .. len + 1 : TradesOf(u)[n] = longer[n]
  <2> SUFFICES ASSUME NEW n \in 1 .. len + 1 PROVE TradesOf(u)[n] = longer[n]
    OBVIOUS
  <2> HIDE DEF longer
  <2>1. CASE n = len + 1
    BY <1>2, <1>4, <1>6, <2>1
  <2>2. CASE n # len + 1
    <3>1. n \in 1 .. len
      BY <1>1, <2>2
    <3>2. TradesOf(u)[n] = e(t.fills[n]) /\ longer[n] = TradesOf(t)[n]
      BY <1>2, <1>4, <1>6, <3>1
    <3>3. QED
      BY <1>3, <3>1, <3>2
  <2>3. QED
    BY <2>1, <2>2
<1> HIDE DEF longer
<1>8. TradesOf(u) = longer
  BY <1>4, <1>6, <1>7
<1>9. QED
  BY <1>8 DEF e, longer

(* A call begins with nothing pending, whatever it withdraws first. *)
LEMMA ExplainedWhenAnnounced ==
  ASSUME Explained, Inv, ~ Calling, outbox = <<>>, Announced(book, outbox', book'),
         outbox' \in Seq(Events), truth' = truth, lastAdded' = lastAdded,
         lastId' \in Nat, lastId <= lastId', Limit' => lastId < lastId',
         Calling' => taker'.fills = <<>>
  PROVE  Explained'
<1>1. PICK m \in Nat : Leads(truth, lastAdded, <<>>, book, m) /\ m <= lastId
  BY DEF Explained, Pending
<1>2. Pending' = outbox'
  BY NoTrades DEF Pending
<1>3. Leads(truth, lastAdded, outbox', book', m)
  <2>1. Leads(truth, lastAdded, <<>> \o outbox', book', m)
    BY <1>1 DEF Announced
  <2>2. <<>> \o outbox' = outbox'
    OBVIOUS
  <2>3. QED
    BY <2>1, <2>2
<1>4. Leads(truth, lastAdded, Pending, book, m)'
  <2>1. Leads(truth', lastAdded', Pending', book', m)
    BY <1>2, <1>3
  <2>2. QED
    BY <2>1 DEF Leads, IsTrail, Events
<1>5. m <= lastId' /\ (Limit' => m < lastId')
  BY <1>1, PricesAreIntegers DEF Inv, TypesHold
<1>6. QED
  BY <1>4, <1>5 DEF Explained

LEMMA NothingAnnounced == ASSUME NEW b PROVE Announced(b, <<>>, b)
<1>1. \A ds \in Seq(Events) : ds \o <<>> = ds
  OBVIOUS
<1>2. QED
  BY <1>1 DEF Announced, Leads

LEMMA ExplainedByWalk ==
  ASSUME Inv, Explained, Walk
  PROVE  Explained'
<1> DEFINE s == Opposite(taker.side)
<1>1. PICK p \in Prices, qty \in Qtys :
        LET front == book[s][p][1]
            fill == [id |-> front.id, ours |-> front.ours, price |-> p, qty |-> qty]
        IN  /\ Calling /\ outbox = <<>> /\ IsBest(book, s, p)
            /\ qty <= front.qty /\ book' = FillFront(book, s, p, qty)
            /\ taker' \in Engine!LimitTaker \cup Engine!MarketTaker
            /\ taker'.kind = taker.kind /\ taker'.side = taker.side
            /\ taker'.fills = Append(taker.fills, fill)
            /\ lastId' = lastId
  BY WalkFacts
<1> DEFINE front == book[s][p][1]
           fill == [id |-> front.id, ours |-> front.ours, price |-> p, qty |-> qty]
           e == TradeOf(s, p, front.id, qty, front.ours)
<1>2. PICK m \in Nat : /\ Leads(truth, lastAdded, TradesOf(taker), book, m)
                       /\ m <= lastId /\ (Limit => m < lastId)
  BY <1>1 DEF Explained, Pending
<1>3. /\ s \in Side /\ taker.fills \in Seq(Engine!Fill) /\ TradesOf(taker) \in Seq(Events)
      /\ Sound(book, Prices) /\ IdsUpTo(book, MaxId)
  BY <1>1, <1>2, CallFacts, IdsOnBook DEF Inv, BookHolds, Leads
<1>4. Leads(truth, lastAdded, Append(TradesOf(taker), e), book', m)
  <2> HIDE DEF s
  <2>1. Leads(truth, lastAdded, Append(TradesOf(taker), e), FillFront(book, s, p, qty), m)
    BY <1>1, <1>2, <1>3, TradeOnTrail
  <2>2. QED
    BY <1>1, <2>1
<1>5. /\ fill.price = p /\ fill.id = front.id /\ fill.qty = qty /\ fill.ours = front.ours
      /\ taker'.fills = Append(taker.fills, fill) /\ taker'.side = taker.side
  BY <1>1
<1> HIDE DEF fill, front
<1>6. TradesOf(taker') = Append(TradesOf(taker), e)
  BY <1>3, <1>5, OneMoreTrade
<1>7. /\ outbox' = outbox /\ truth' = truth /\ lastAdded' = lastAdded
      /\ Calling' /\ (Limit' <=> Limit)
  <2>1. taker' # Engine!NoTaker
    BY <1>1 DEF Engine!LimitTaker, Engine!MarketTaker, Engine!NoTaker
  <2>2. QED
    BY <1>1, <2>1 DEF Walk, feedVars, Calling, Limit
<1>8. Pending' = Append(TradesOf(taker), e)
  BY <1>1, <1>6, <1>7 DEF Pending, TradesOf
<1> HIDE DEF e, s
<1>9. Leads(truth, lastAdded, Pending, book, m)'
  <2>1. Leads(truth', lastAdded', Pending', book', m)
    BY <1>4, <1>7, <1>8
  <2>2. QED
    BY <2>1 DEF Leads, IsTrail, Events
<1>10. QED
  BY <1>1, <1>2, <1>7, <1>9 DEF Explained

LEMMA ExplainedByReturned ==
  ASSUME Inv, OrdersAreTracked, Explained, Returned
  PROVE  Explained'
<1> DEFINE s == taker.side
           p == taker.price
           o == [id |-> taker.id, qty |-> taker.left, ours |-> taker.ours]
           rests == Limit /\ taker.left > 0
<1>1. /\ Calling /\ outbox = <<>> /\ ~ Calling' /\ ~ Limit' /\ lastId' = lastId
      /\ outbox' = Report(taker) /\ truth' = truth /\ lastAdded' = lastAdded
  BY ReturnedFacts DEF Returned, feedVars
<1>2. PICK m \in Nat : /\ Leads(truth, lastAdded, TradesOf(taker), book, m)
                       /\ m <= lastId /\ (Limit => m < lastId)
  BY <1>1 DEF Explained, Pending
<1>3. TradesOf(taker) \in Seq(Events) /\ s \in Side
  BY <1>1, <1>2, CallFacts DEF Inv, Leads
<1>4. Pending' = Report(taker)
  BY <1>1 DEF Pending
<1>5. ASSUME NEW k \in Nat, k <= lastId,
             Leads(truth, lastAdded, Report(taker), book', k)
      PROVE  Explained'
  <2>1. Leads(truth', lastAdded', Pending', book', k)
    BY <1>1, <1>4, <1>5
  <2>2. Leads(truth, lastAdded, Pending, book, k)'
    BY <2>1 DEF Leads, IsTrail, Events
  <2>3. QED
    BY <1>1, <1>5, <2>2 DEF Explained
<1>6. CASE ~ rests
  <2>1. book' = book
    BY <1>6, ReturnedFacts
  <2>2. Report(taker) = TradesOf(taker)
    <3>1. AddLeft(taker) = <<>>
      BY <1>6 DEF AddLeft, Limit
    <3>2. QED
      BY <1>3, <3>1 DEF Report
  <2>3. QED
    BY <1>2, <1>5, <2>1, <2>2
<1>7. CASE rests
  <2>1. /\ o \in Order /\ o.id = lastId /\ o.qty \in Qtys /\ p \in Prices
        /\ \A x \in DOMAIN book[Opposite(s)] : ~ Crosses(s, p, x)
        /\ book' = RestOrder(book, s, p, o) /\ IsBook(book', Prices)
    BY <1>7, ReturnedFacts DEF Sound
  <2>2. o.ours => ~ OwnOrderOn(book, s)
    <3> SUFFICES ASSUME taker.ours, OwnOrderOn(book, s) PROVE FALSE
      OBVIOUS
    <3>1. PICK x \in DOMAIN book[s] : \E i \in DOMAIN book[s][x] : book[s][x][i].ours
      BY DEF OwnOrderOn
    <3>2. PICK i \in DOMAIN book[s][x] : book[s][x][i].ours
      BY <3>1
    <3>3. Known(s, x, book[s][x][i], own, slots) /\ [id |-> book[s][x][i].id, price |-> x] # None
      BY <1>3, TrackedOrders, OrderHasId
    <3>4. own[s] # None
      BY <3>2, <3>3 DEF Known
    <3>5. own[s] = None
      BY <1>7 DEF Inv, CallerHolds
    <3>6. QED
      BY <3>4, <3>5
  <2>3. o.id \in 1 .. MaxId /\ o.id > m /\ lastId \in Nat /\ lastId <= lastId
    <3>1. lastId \in 0 .. MaxId /\ lastId > 0 /\ m < lastId
      BY <1>2, <1>7 DEF Inv, TypesHold, BookHolds
    <3>2. QED
      BY <2>1, <3>1, PricesAreIntegers
  <2>4. Report(taker) = Append(TradesOf(taker), AddOf(s, p, o))
    <3> DEFINE e == AddOf(s, p, o)
               q == TradesOf(taker)
               S == Events \cup {e}
    <3>1. AddLeft(taker) = <<e>>
      BY <1>7 DEF AddLeft, Limit
    <3>2. q \in Seq(S) /\ e \in S
      BY <1>3
    <3> HIDE DEF e, q, S
    <3>3. q \o <<e>> = Append(q, e)
      BY <3>2
    <3>4. QED
      BY <3>1, <3>3 DEF Report, q, e
  <2>5. o.id = lastId
    BY <2>1
  <2> HIDE DEF o, p, s
  <2>6. Leads(truth, lastAdded, Append(TradesOf(taker), AddOf(s, p, o)), RestOrder(book, s, p, o), o.id)
    BY <1>2, <1>3, <2>1, <2>2, <2>3, AddOnTrail
  <2>7. QED
    BY <1>5, <2>1, <2>3, <2>4, <2>5, <2>6
<1>8. QED
  BY <1>6, <1>7

(* The next event is legal where it happens, and the rest still lead on. *)
LEMMA EmitFacts ==
  ASSUME Inv, Explained, Emit
  PROVE  Explained' /\ Head(outbox) \in Events /\ Legal(truth, lastAdded, Head(outbox))
<1>1. /\ outbox # <<>> /\ outbox' = Tail(outbox) /\ book' = book /\ taker' = taker
      /\ lastId' = lastId /\ truth' = Replay(truth, Head(outbox))
      /\ lastAdded' = LatestAdd(lastAdded, Head(outbox))
  BY DEF Emit, engineVars
<1>2. PICK m \in Nat : /\ Leads(truth, lastAdded, outbox, book, m)
                       /\ m <= lastId /\ (Limit => m < lastId)
  BY <1>1 DEF Explained, Pending
<1>3. /\ Head(outbox) \in Events /\ Legal(truth, lastAdded, Head(outbox))
      /\ Leads(Replay(truth, Head(outbox)), LatestAdd(lastAdded, Head(outbox)),
               Tail(outbox), book, m)
  BY <1>1, <1>2, FirstEvent
<1>4. Pending' = outbox'
  <2>1. Calling' => taker'.fills = <<>>
    BY <1>1 DEF Inv, CallerHolds, Calling
  <2>2. QED
    BY <2>1, NoTrades DEF Pending
<1>5. Leads(truth, lastAdded, Pending, book, m)'
  <2>1. Leads(truth', lastAdded', Pending', book', m)
    BY <1>1, <1>3, <1>4
  <2>2. QED
    BY <2>1 DEF Leads, IsTrail, Events
<1>6. QED
  BY <1>1, <1>2, <1>3, <1>5 DEF Explained, Limit

LEMMA ExplainedByCall ==
  ASSUME Inv, Explained,
         \/ PlaceBackground \/ QuoteAsk \/ CancelAll
         \/ \E bid, ask \in QuotePrices : Quote(bid, ask)
         \/ \E s \in Side : NoiseOrder(s)
  PROVE  Explained'
<1>1. truth' = truth /\ lastAdded' = lastAdded /\ lastId \in Nat
  <2>1. lastId \in Nat
    BY DEF Inv, TypesHold
  <2>2. CASE PlaceBackground
    BY <2>1, <2>2 DEF PlaceBackground, feedVars
  <2>3. CASE QuoteAsk
    BY <2>1, <2>3 DEF QuoteAsk, feedVars
  <2>4. CASE CancelAll
    BY <2>1, <2>4 DEF CancelAll, feedVars
  <2>5. ASSUME NEW bid \in QuotePrices, NEW ask \in QuotePrices, Quote(bid, ask)
        PROVE  truth' = truth /\ lastAdded' = lastAdded
    BY <2>5 DEF Quote, feedVars
  <2>6. ASSUME NEW s \in Side, NoiseOrder(s)
        PROVE  truth' = truth /\ lastAdded' = lastAdded
    BY <2>6 DEF NoiseOrder, feedVars
  <2>7. QED
    BY <2>1, <2>2, <2>3, <2>4, <2>5, <2>6
<1>2. CASE PlaceBackground
  <2>1. /\ ~ Calling /\ outbox = <<>> /\ Announced(book, outbox', book') /\ outbox' \in Seq(Events)
        /\ taker'.fills = <<>>
    BY <1>2, PlaceBackgroundFacts
  <2>2. lastId' \in Nat /\ lastId < lastId'
    BY <1>1, <1>2 DEF PlaceBackground
  <2>3. QED
    BY <1>1, <2>1, <2>2, ExplainedWhenAnnounced
<1>3. ASSUME NEW bid \in QuotePrices, NEW ask \in QuotePrices, Quote(bid, ask)
      PROVE  Explained'
  <2>1. ~ Calling /\ ~ Limit /\ outbox = <<>> /\ WithdrawOwn /\ taker'.fills = <<>>
    BY <1>3, QuoteFacts
  <2>2. Announced(book, outbox', book') /\ outbox' \in Seq(Events)
    BY <2>1, WithdrawOwnFacts
  <2>3. lastId' \in Nat /\ lastId < lastId'
    BY <1>1, <1>3 DEF Quote
  <2>4. QED
    BY <1>1, <2>1, <2>2, <2>3, ExplainedWhenAnnounced
<1>4. CASE QuoteAsk
  <2>1. ~ Calling /\ outbox = <<>> /\ outbox' = <<>> /\ book' = book /\ taker'.fills = <<>>
    BY <1>4, QuoteAskFacts DEF QuoteAsk
  <2>2. Announced(book, outbox', book') /\ outbox' \in Seq(Events)
    BY <2>1, NothingAnnounced
  <2>3. lastId' \in Nat /\ lastId < lastId'
    BY <1>1, <1>4 DEF QuoteAsk
  <2>4. QED
    BY <1>1, <2>1, <2>2, <2>3, ExplainedWhenAnnounced
<1>5. CASE CancelAll
  <2>1. ~ Calling /\ ~ Limit /\ outbox = <<>> /\ WithdrawOwn /\ taker' = taker /\ lastId' = lastId
    BY <1>5, NotCalling DEF CancelAll, Idle, Calling
  <2>2. Announced(book, outbox', book') /\ outbox' \in Seq(Events)
    BY <2>1, WithdrawOwnFacts
  <2>3. ~ Calling' /\ ~ Limit' /\ lastId' \in Nat /\ lastId <= lastId'
    BY <1>1, <2>1 DEF Calling, Limit
  <2>4. QED
    BY <1>1, <2>1, <2>2, <2>3, ExplainedWhenAnnounced
<1>6. ASSUME NEW s \in Side, NoiseOrder(s) PROVE Explained'
  <2>1. /\ ~ Calling /\ outbox = <<>> /\ outbox' = <<>> /\ book' = book /\ lastId' = lastId
        /\ taker' = Engine!MarketOrder(s, NoiseQty)
    BY <1>6 DEF NoiseOrder, Idle, Calling
  <2>2. taker'.fills = <<>> /\ ~ Limit'
    BY <2>1 DEF Engine!MarketOrder, Limit
  <2>3. Announced(book, outbox', book') /\ outbox' \in Seq(Events)
    BY <2>1, NothingAnnounced
  <2>4. lastId' \in Nat /\ lastId <= lastId'
    BY <1>1, <2>1
  <2>5. QED
    BY <1>1, <2>1, <2>2, <2>3, <2>4, ExplainedWhenAnnounced
<1>7. QED
  BY <1>2, <1>3, <1>4, <1>5, <1>6

LEMMA ExplainedStep ==
  Inv /\ OrdersAreTracked /\ Explained /\ [Next]_vars => Explained'
<1> SUFFICES ASSUME Inv, OrdersAreTracked, Explained, [Next]_vars PROVE Explained'
  OBVIOUS
<1>1. CASE Evolve \/ SkipSlot \/ CommandsDone \/ NoNoise \/ UNCHANGED vars
  <2>1. /\ truth' = truth /\ lastAdded' = lastAdded /\ outbox' = outbox
        /\ book' = book /\ taker' = taker /\ lastId' = lastId
    BY <1>1 DEF Evolve, SkipSlot, CommandsDone, NoNoise, engineVars, feedVars, vars
  <2>2. Pending' = Pending /\ (Limit' <=> Limit)
    BY <2>1 DEF Pending, Calling, Limit, TradesOf
  <2>3. PICK m \in Nat : /\ Leads(truth, lastAdded, Pending, book, m)
                         /\ m <= lastId /\ (Limit => m < lastId)
    BY DEF Explained
  <2>4. Leads(truth, lastAdded, Pending, book, m)'
    <3>1. Leads(truth', lastAdded', Pending', book', m)
      BY <2>1, <2>2, <2>3
    <3>2. QED
      BY <3>1 DEF Leads, IsTrail, Events
  <2>5. QED
    BY <2>1, <2>2, <2>3, <2>4 DEF Explained
<1>2. CASE PlaceBackground \/ QuoteAsk \/ CancelAll
  BY <1>2, ExplainedByCall
<1>3. CASE \E bid, ask \in QuotePrices : Quote(bid, ask)
  BY <1>3, ExplainedByCall
<1>4. CASE \E s \in Side : NoiseOrder(s)
  BY <1>4, ExplainedByCall
<1>5. CASE Walk
  BY <1>5, ExplainedByWalk
<1>6. CASE Returned
  BY <1>6, ExplainedByReturned
<1>7. CASE Emit
  BY <1>7, EmitFacts
<1>8. QED
  BY <1>1, <1>2, <1>3, <1>4, <1>5, <1>6, <1>7 DEF Next

\* All that is known of a state of the engine's thread.
ThreadInv == Inv /\ OrdersAreTracked /\ Explained

LEMMA ThreadInvInit == Init => ThreadInv
<1> SUFFICES ASSUME Init PROVE OrdersAreTracked /\ Explained
  BY InvInit DEF ThreadInv
<1>1. /\ book = EmptyBook /\ truth = EmptyBook /\ lastAdded = 0 /\ lastId = 0 /\ outbox = <<>>
      /\ ~ Calling /\ ~ Limit
  BY DEF Init, FeedInit, Engine!Init, Engine!EmptyBook, EmptyBook, Engine!Side, Side,
     Calling, Limit, Engine!NoTaker
<1>2. OrdersAreTracked
  BY <1>1 DEF EmptyBook, OrdersAreTracked
<1>3. IsBook(EmptyBook, Prices)
  BY DEF EmptyBook, IsBook
<1>4. Leads(truth, lastAdded, Pending, book, 0)
  <2>1. Pending = <<>>
    BY <1>1 DEF Pending
  <2>2. QED
    BY <1>1, <1>3, <2>1, NoEvents
<1>5. QED
  BY <1>1, <1>2, <1>4 DEF Explained

LEMMA ThreadInvStep == ThreadInv /\ [Next]_vars => ThreadInv'
BY InvStep, TrackedStep, ExplainedStep DEF ThreadInv

(* Once a call's events are out, a reader who missed none has the book of the *)
(* matching engine, queue order included: FeedSender::emit leaves nothing out *)
(* and puts nothing in the wrong order.                                       *)
THEOREM Faithful == Spec => []ReplayFaithful
<1>1. ThreadInv => ReplayFaithful
  <2> SUFFICES ASSUME ThreadInv, Idle PROVE truth = book
    BY DEF ReplayFaithful
  <2>1. Pending = <<>>
    BY DEF Pending, Idle, Calling
  <2>2. QED
    BY <2>1, NothingHappened DEF ThreadInv, Explained
<1>2. QED
  BY <1>1, ThreadInvInit, ThreadInvStep, PTL DEF Spec

(* The engine's thread implements the feed that FeedSource describes: every   *)
(* event is legal on the book the events before it describe, in particular at *)
(* every point between the events of one call.                                *)
THEOREM ImplementsFeedSource == Spec => ImplementsFeed
<1>1. Init => FeedInit
  BY DEF Init
<1>2. ThreadInv /\ [Next]_vars => [FeedNext]_feedVars
  <2> SUFFICES ASSUME ThreadInv, [Next]_vars PROVE [FeedNext]_feedVars
    OBVIOUS
  <2>1. CASE Emit
    <3>1. Head(outbox) \in Events /\ Legal(truth, lastAdded, Head(outbox))
      BY <2>1, EmitFacts DEF ThreadInv
    <3>2. Happens(Head(outbox))
      BY <2>1, <3>1 DEF Emit, Happens
    <3>3. QED
      BY <3>1, <3>2 DEF FeedNext
  <2>2. CASE ~ Emit
    BY <2>2 DEF Next, vars, Evolve, SkipSlot, PlaceBackground, Quote, QuoteAsk, CancelAll,
       CommandsDone, NoiseOrder, NoNoise, Walk, Returned, feedVars
  <2>3. QED
    BY <2>1, <2>2
<1>3. QED
  BY <1>1, <1>2, ThreadInvInit, ThreadInvStep, PTL DEF Spec, ImplementsFeed, FeedSpec

(* Every variable of the engine's thread has its type, and every event it has *)
(* still to emit is one a reader of the feed knows how to apply.              *)
THEOREM Typed == Spec => []TypeOK
<1>1. ThreadInv => TypeOK
  <2> SUFFICES ASSUME ThreadInv PROVE TypeOK
    OBVIOUS
  <2> USE DEF ThreadInv, Inv
  <2>1. Engine!TypeOK
    <3>1. IsBook(book, Prices) /\ lastId \in Nat
      BY PricesAreIntegers DEF BookHolds, Sound, TypesHold
    <3>2. QED
      BY <3>1, EngineBook DEF Engine!TypeOK, TypesHold
  <2>2. askLeg \in {NoLeg} \cup [bid : Prices, ask : Prices]
    <3>1. QuotePrices \subseteq Prices
      BY ExchangeAssumption
    <3>2. QED
      BY <3>1 DEF TypesHold
  <2>3. PICK m \in Nat : Leads(truth, lastAdded, Pending, book, m)
    BY DEF Explained
  <2>4. IsBook(truth, Prices) /\ lastAdded \in Nat
    BY <2>3, TrailEnds
  <2>5. \A n \in DOMAIN outbox : outbox[n] \in Events
    <3>1. CASE outbox = <<>>
      BY <3>1
    <3>2. CASE outbox # <<>>
      BY <2>3, <3>2 DEF Leads, Pending
    <3>3. QED
      BY <3>1, <3>2
  <2>6. QED
    BY <2>1, <2>2, <2>4, <2>5 DEF TypeOK, TypesHold
<1>2. QED
  BY <1>1, ThreadInvInit, ThreadInvStep, PTL DEF Spec
=============================================================================
