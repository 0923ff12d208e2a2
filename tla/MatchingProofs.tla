---------------------------- MODULE MatchingProofs ----------------------------
(***************************************************************************)
(* Proofs about Matching: the ground-truth book is never crossed, has no   *)
(* phantom level, keeps price-time priority and is never traded through,   *)
(* the matching loops implement PriceTime, and a call can always go on and *)
(* comes closer to its end, whatever the prices, quantities and number of  *)
(* orders.                                                                 *)
(***************************************************************************)
EXTENDS MatchingRefinement, OrderBookProofs

-----------------------------------------------------------------------------
(* The invariant of the book: ids are handed out in increasing order, and    *)
(* the order on whose behalf a walk runs is younger than every order resting. *)

BookInv ==
  /\ TypeOK
  /\ Sound(book, Prices)
  /\ IdsUpTo(book, lastId)
  /\ taker # NoTaker /\ taker.kind = "limit" =>
       taker.id \in 1 .. lastId /\ IdsUpTo(book, taker.id - 1)

LEMMA LiveOfBook == LevelsAreLive <=> LiveBook(book)
BY DEF LevelsAreLive, LiveBook, AllLive

LEMMA TimePriorityOfBook == TimePriority <=> InOrder(book) /\ OneOrderPerId(book)
BY DEF TimePriority, InOrder, OneOrderPerId

(* A call in progress, and the order on whose behalf it runs. *)
LEMMA TakerFacts ==
  ASSUME TypeOK, taker # NoTaker
  PROVE  /\ taker \in LimitTaker \cup MarketTaker
         /\ taker.side \in Side /\ taker.left \in Nat /\ taker.fills \in Seq(Fill)
         /\ Opposing \in Side /\ Opposing # taker.side
         /\ taker.kind = "limit" =>
              taker.id \in Nat /\ taker.price \in Prices /\ taker.ours \in BOOLEAN
<1>1. taker \in LimitTaker \cup MarketTaker
  BY DEF TypeOK
<1>2. taker.side \in Side /\ taker.left \in Nat /\ taker.fills \in Seq(Fill)
  BY <1>1 DEF LimitTaker, MarketTaker
<1>3. taker.kind = "limit" =>
        taker.id \in Nat /\ taker.price \in Prices /\ taker.ours \in BOOLEAN
  BY <1>1 DEF LimitTaker, MarketTaker
<1>4. QED
  BY <1>1, <1>2, <1>3, OpposingIsSide DEF Opposing

(* What one turn of the walk does to the book and to the taker. *)
LEMMA TradeAtFacts ==
  ASSUME BookInv, taker # NoTaker, NEW p \in DOMAIN book[Opposing], TradeAt(p)
  PROVE  LET front == book[Opposing][p][1]
         IN  /\ p \in Prices /\ front \in Order
             /\ Traded(front) \in Nat /\ Traded(front) <= front.qty /\ Traded(front) <= taker.left
             /\ book' = FillFront(book, Opposing, p, Traded(front))
             /\ Sound(book', Prices) /\ Thinned(book, book')
<1> DEFINE front == book[Opposing][p][1]
<1>1. Opposing \in Side /\ taker.left \in Nat /\ Sound(book, Prices)
  BY TakerFacts DEF BookInv
<1>2. p \in Prices /\ front \in Order
  <2>1. p \in Prices /\ book[Opposing][p] \in Seq(Order) /\ book[Opposing][p] # <<>>
    BY <1>1 DEF Sound, IsBook, LiveBook
  <2>2. QED
    BY <2>1
<1>3. book' = FillFront(book, Opposing, p, Traded(front))
  BY DEF TradeAt
<1> HIDE DEF front
<1>4. front.qty \in Nat
  BY <1>2 DEF Order
<1>5. /\ Traded(front) \in Nat
      /\ Traded(front) <= front.qty /\ Traded(front) <= taker.left
  BY <1>1, <1>4 DEF Traded
<1>6. Sound(book', Prices) /\ Thinned(book, book')
  BY <1>1, <1>3, <1>5, FillSound DEF front
<1>7. QED
  BY <1>2, <1>3, <1>5, <1>6 DEF front

(* The taker keeps its type when a fill is added to it. *)
LEMMA TradeAtTaker ==
  ASSUME BookInv, taker # NoTaker, NEW p \in DOMAIN book[Opposing], TradeAt(p)
  PROVE  /\ taker' \in LimitTaker \cup MarketTaker
         /\ taker'.kind = taker.kind /\ taker'.side = taker.side
         /\ taker.kind = "limit" => taker'.id = taker.id /\ taker'.price = taker.price
<1> DEFINE front == book[Opposing][p][1]
           fill == [id |-> front.id, ours |-> front.ours, price |-> p, qty |-> Traded(front)]
           left == taker.left - Traded(front)
           fills == Append(taker.fills, fill)
<1>1. /\ p \in Prices /\ front \in Order
      /\ Traded(front) \in Nat /\ Traded(front) <= taker.left
  BY TradeAtFacts
<1>2. taker' = [taker EXCEPT !.left = left, !.fills = fills]
  BY DEF TradeAt
<1> HIDE DEF front
<1>3. fill \in Fill
  BY <1>1 DEF Fill, Order
<1> HIDE DEF fill
<1>4. left \in Nat /\ fills \in Seq(Fill)
  BY <1>1, <1>3, TakerFacts DEF BookInv
<1> HIDE DEF left, fills
<1>5. CASE taker \in LimitTaker
  BY <1>2, <1>4, <1>5 DEF LimitTaker
<1>6. CASE taker \in MarketTaker
  BY <1>2, <1>4, <1>6 DEF MarketTaker
<1>7. QED
  BY <1>5, <1>6, TakerFacts DEF BookInv

LEMMA BookInvStep == BookInv /\ [Next]_vars => BookInv'
<1> SUFFICES ASSUME BookInv, [Next]_vars PROVE BookInv'
  OBVIOUS
<1> USE DEF BookInv
<1>1. /\ IsBook(book, Prices) /\ lastId \in Nat
      /\ Sound(book, Prices) /\ IdsUpTo(book, lastId)
  BY DEF TypeOK
<1>2. ASSUME Sound(book', Prices), IdsUpTo(book', lastId'), lastId' \in Nat,
             taker' \in {NoTaker} \cup LimitTaker \cup MarketTaker,
             taker' # NoTaker /\ taker'.kind = "limit" =>
               taker'.id \in 1 .. lastId' /\ IdsUpTo(book', taker'.id - 1)
      PROVE  BookInv'
  BY <1>2 DEF TypeOK, Sound
<1>3. ASSUME NEW s \in Side, NEW p \in Prices, NEW q \in Qtys, NEW ours \in BOOLEAN,
             SubmitLimitOrder(s, p, q, ours)
      PROVE  BookInv'
  <2>1. q \in Nat
    BY QtysAssumption
  <2>2. LimitOrder(lastId + 1, s, p, q, ours) \in LimitTaker
    BY <1>1, <2>1 DEF LimitOrder, LimitTaker
  <2>3. /\ book' = book /\ lastId' = lastId + 1
        /\ taker' \in LimitTaker /\ taker'.id = lastId + 1
    BY <1>3, <2>2 DEF SubmitLimitOrder, LimitOrder
  <2>4. IdsUpTo(book', lastId') /\ IdsUpTo(book', taker'.id - 1)
    BY <1>1, <2>3 DEF IdsUpTo
  <2>5. QED
    BY <1>1, <1>2, <2>3, <2>4
<1>4. ASSUME NEW s \in Side, NEW q \in Qtys, ExecuteMarketOrder(s, q)
      PROVE  BookInv'
  <2>1. q \in Nat
    BY QtysAssumption
  <2>2. MarketOrder(s, q) \in MarketTaker /\ MarketOrder(s, q).kind = "market"
    BY <2>1 DEF MarketOrder, MarketTaker
  <2>3. QED
    BY <1>1, <1>2, <1>4, <2>2 DEF ExecuteMarketOrder
<1>5. CASE FillBest
  <2>1. PICK p \in DOMAIN book[Opposing] : TradeAt(p)
    BY <1>5 DEF FillBest
  <2>2. taker # NoTaker /\ lastId' = lastId
    BY <1>5, <2>1 DEF FillBest, TradeAt
  <2>3. Sound(book', Prices) /\ Thinned(book, book')
    BY <2>1, <2>2, TradeAtFacts
  <2>4. /\ taker' \in LimitTaker \cup MarketTaker
        /\ taker'.kind = taker.kind
        /\ taker.kind = "limit" => taker'.id = taker.id
    BY <2>1, <2>2, TradeAtTaker
  <2>5. /\ IdsUpTo(book', lastId)
        /\ taker.kind = "limit" => IdsUpTo(book', taker.id - 1)
    BY <1>1, <2>2, <2>3, ThinnedIds
  <2>6. QED
    BY <1>1, <1>2, <2>2, <2>3, <2>4, <2>5
<1>6. CASE Return
  <2>1. taker # NoTaker /\ taker' = NoTaker /\ lastId' = lastId
    BY <1>6 DEF Return
  <2>2. CASE ~ Rests
    BY <1>1, <1>2, <1>6, <2>1, <2>2 DEF Return
  <2>3. CASE Rests
    <3> DEFINE o == [id |-> taker.id, qty |-> taker.left, ours |-> taker.ours]
    <3>1. /\ taker.side \in Side /\ taker.price \in Prices /\ taker.kind = "limit"
          /\ taker.id \in Nat /\ taker.left \in Nat /\ taker.left > 0 /\ taker.ours \in BOOLEAN
      BY <2>1, <2>3, TakerFacts DEF Rests
    <3>2. o \in Order /\ o.id = taker.id /\ o.qty > 0
      BY <3>1 DEF Order
    <3>3. /\ taker.id \in 1 .. lastId /\ IdsUpTo(book, taker.id - 1)
          /\ taker.id - 1 \in Nat /\ taker.id > taker.id - 1
      BY <1>1, <2>1, <3>1
    <3>4. book' = RestOrder(book, taker.side, taker.price, o)
      BY <1>6, <2>3 DEF Return
    <3> HIDE DEF o
    <3>5. Sound(book', Prices) /\ IdsUpTo(book', taker.id)
      BY <1>1, <3>1, <3>2, <3>3, <3>4, RestSound
    <3>6. IdsUpTo(book', lastId)
      BY <1>1, <3>3, <3>5 DEF IdsUpTo
    <3>7. QED
      BY <1>1, <1>2, <2>1, <3>5, <3>6
  <2>4. QED
    BY <2>2, <2>3
<1>7. ASSUME NEW s \in Side, NEW p \in Prices, NEW id \in 1..MaxId, Cancel(s, p, id)
      PROVE  BookInv'
  <2>1. /\ book' = CancelOrder(book, s, p, id)
        /\ taker' = taker /\ taker = NoTaker /\ lastId' = lastId
    BY <1>7 DEF Cancel
  <2>2. Sound(book', Prices) /\ Thinned(book, book')
    BY <1>1, <2>1, CancelSound
  <2>3. QED
    BY <1>1, <1>2, <2>1, <2>2, ThinnedIds
<1>8. CASE UNCHANGED vars
  BY <1>8 DEF vars, TypeOK
<1>9. QED
  BY <1>3, <1>4, <1>5, <1>6, <1>7, <1>8 DEF Next

LEMMA BookInvInit == Init => BookInv
<1> SUFFICES ASSUME Init PROVE BookInv
  OBVIOUS
<1>1. TypeOK
  BY DEF Init, TypeOK, EmptyBook, IsBook, NoTaker
<1>2. Sound(book, Prices) /\ IdsUpTo(book, lastId)
  BY EmptyIsSound DEF Init
<1>3. QED
  BY <1>1, <1>2 DEF BookInv, Init

(* Every operation of the book, in the middle of a walk too, leaves queues of  *)
(* orders with a quantity at prices of the map, and one well-formed taker.     *)
THEOREM Typed == Spec => []TypeOK
<1>1. BookInv => TypeOK
  BY DEF BookInv
<1>2. QED
  BY <1>1, BookInvInit, BookInvStep, PTL DEF Spec

(* No level or order is ever left with nothing to trade: best_bid, best_ask   *)
(* and the walks never meet a phantom.                                        *)
THEOREM Live == Spec => []LevelsAreLive
<1>1. BookInv => LevelsAreLive
  BY LiveOfBook DEF BookInv, Sound
<1>2. QED
  BY <1>1, BookInvInit, BookInvStep, PTL DEF Spec

(* Orders of one price trade in the order they arrived, whatever was          *)
(* cancelled or partly filled in between, and an id names one order at most:  *)
(* the FIFO queue of a level (push_back, front, position, remove) under the   *)
(* ids of id_gen.                                                             *)
THEOREM ArrivalOrder == Spec => []TimePriority
<1>1. BookInv => TimePriority
  BY TimePriorityOfBook DEF BookInv, Sound
<1>2. QED
  BY <1>1, BookInvInit, BookInvStep, PTL DEF Spec

-----------------------------------------------------------------------------
(* The book is never crossed *)

(* Nothing but a new resting order can cross the book. *)
LEMMA ThinnedUncrossed ==
  ASSUME Uncrossed, Thinned(book, book')
  PROVE  Uncrossed'
BY DEF Uncrossed, Thinned, Side

(* An order that rests when the walk is over does not cross what is left. *)
LEMMA RestUncrossed ==
  ASSUME BookInv, Uncrossed, Return, Rests
  PROVE  Uncrossed'
<1> DEFINE o == [id |-> taker.id, qty |-> taker.left, ours |-> taker.ours]
           p == taker.price
<1>1. /\ taker # NoTaker /\ taker.side \in Side /\ p \in Prices /\ taker.kind = "limit"
      /\ Opposing \in Side /\ Opposing # taker.side
      /\ o \in Order /\ o.qty > 0 /\ o.id = taker.id /\ IsBook(book, Prices)
  BY TakerFacts DEF BookInv, TypeOK, Return, Rests, Order
<1>2. \A x \in DOMAIN book[Opposing] : ~ Crosses(taker.side, p, x)
  <2>1. taker.left \in Nat /\ taker.left > 0
    BY <1>1, TakerFacts DEF BookInv, Rests
  <2>2. QED
    BY <1>1, <2>1 DEF Return, WalkIsOver, Marketable
<1>3. book' = RestOrder(book, taker.side, p, o)
  BY DEF Return
<1>4. /\ taker.id - 1 \in Nat /\ taker.id > taker.id - 1
      /\ IdsUpTo(book, taker.id - 1) /\ Sound(book, Prices)
  BY <1>1 DEF BookInv, TypeOK
<1> HIDE DEF o, p
<1>5. Extended(book, book', taker.side, p, o)
  BY <1>1, <1>3, <1>4, RestSound
<1>6. /\ DOMAIN book'[taker.side] = DOMAIN book[taker.side] \cup {p}
      /\ book'[Opposing] = book[Opposing]
  BY <1>1, <1>5 DEF Extended
<1>7. p \in Int /\ \A s \in Side : DOMAIN book[s] \subseteq Int
  BY <1>1, PricesAssumption DEF IsBook
<1>8. CASE taker.side = "Bid"
  <2>1. Opposing = "Ask"
    BY <1>8 DEF Opposing, Opposite
  <2>2. \A x \in DOMAIN book["Ask"] : p < x
    BY <1>2, <1>7, <1>8, <2>1 DEF Crosses, Side
  <2>3. QED
    BY <1>6, <1>8, <2>1, <2>2 DEF Uncrossed
<1>9. CASE taker.side = "Ask"
  <2>1. Opposing = "Bid"
    BY <1>9 DEF Opposing, Opposite
  <2>2. \A x \in DOMAIN book["Bid"] : x < p
    BY <1>2, <1>7, <1>9, <2>1 DEF Crosses, Side
  <2>3. QED
    BY <1>6, <1>9, <2>1, <2>2 DEF Uncrossed
<1>10. QED
  BY <1>1, <1>8, <1>9 DEF Side

LEMMA UncrossedStep == BookInv /\ Uncrossed /\ [Next]_vars => Uncrossed'
<1> SUFFICES ASSUME BookInv, Uncrossed, [Next]_vars PROVE Uncrossed'
  OBVIOUS
<1>1. Sound(book, Prices)
  BY DEF BookInv
<1>2. ASSUME book' = book PROVE Uncrossed'
  BY <1>2 DEF Uncrossed
<1>3. ASSUME NEW s \in Side, NEW p \in Prices, NEW q \in Qtys, NEW ours \in BOOLEAN,
             SubmitLimitOrder(s, p, q, ours)
      PROVE  Uncrossed'
  BY <1>2, <1>3 DEF SubmitLimitOrder
<1>4. ASSUME NEW s \in Side, NEW q \in Qtys, ExecuteMarketOrder(s, q)
      PROVE  Uncrossed'
  BY <1>2, <1>4 DEF ExecuteMarketOrder
<1>5. CASE FillBest
  <2>1. PICK p \in DOMAIN book[Opposing] : TradeAt(p)
    BY <1>5 DEF FillBest
  <2>2. QED
    BY <1>5, <2>1, TradeAtFacts, ThinnedUncrossed DEF FillBest
<1>6. CASE Return
  <2>1. CASE Rests
    BY <1>6, <2>1, RestUncrossed
  <2>2. CASE ~ Rests
    BY <1>2, <1>6, <2>2 DEF Return
  <2>3. QED
    BY <2>1, <2>2
<1>7. ASSUME NEW s \in Side, NEW p \in Prices, NEW id \in 1..MaxId, Cancel(s, p, id)
      PROVE  Uncrossed'
  BY <1>1, <1>7, CancelSound, ThinnedUncrossed DEF Cancel
<1>8. CASE UNCHANGED vars
  BY <1>2, <1>8 DEF vars
<1>9. QED
  BY <1>3, <1>4, <1>5, <1>6, <1>7, <1>8 DEF Next

(* The ground-truth book is never crossed: what MM_ASSERT_INVARIANTS checks    *)
(* once per iteration at run time holds at every step of every call.          *)
THEOREM NeverCrossed == Spec => []Uncrossed
<1>1. Init => BookInv /\ Uncrossed
  BY BookInvInit DEF Init, Uncrossed, EmptyBook, Side
<1>2. QED
  BY <1>1, BookInvStep, UncrossedStep, PTL DEF Spec

-----------------------------------------------------------------------------
(* No trade-through *)

LEMMA FillBestTradesNotThrough ==
  ASSUME BookInv, NoTradeThrough, FillBest
  PROVE  NoTradeThrough'
<1>1. PICK p \in DOMAIN book[Opposing] : IsBest(book, Opposing, p) /\ TradeAt(p)
  BY DEF FillBest
<1>2. taker # NoTaker /\ TypeOK
  BY DEF FillBest, BookInv
<1> DEFINE s == Opposing
           front == book[s][p][1]
           fill == [id |-> front.id, ours |-> front.ours, price |-> p, qty |-> Traded(front)]
<1>3. taker'.side = taker.side /\ taker'.fills = Append(taker.fills, fill)
  <2>1. taker \in LimitTaker \cup MarketTaker
    BY <1>2, TakerFacts
  <2>2. taker' = [taker EXCEPT !.left = @ - Traded(front), !.fills = Append(@, fill)]
    BY <1>1 DEF TradeAt
  <2> HIDE DEF fill, front
  <2>3. CASE taker \in LimitTaker
    BY <2>2, <2>3 DEF LimitTaker
  <2>4. CASE taker \in MarketTaker
    BY <2>2, <2>4 DEF MarketTaker
  <2>5. QED
    BY <2>1, <2>3, <2>4
<1>4. s \in Side /\ taker.fills \in Seq(Fill) /\ IsBook(book, Prices)
  BY <1>2, TakerFacts DEF TypeOK
<1>5. /\ DOMAIN book'[s] \subseteq DOMAIN book[s]
      /\ \A x \in DOMAIN book'[s] : \A i \in DOMAIN book'[s][x] :
           \E j \in DOMAIN book[s][x] : book'[s][x][i].id = book[s][x][j].id
  BY <1>1, <1>2, <1>4, TradeAtFacts DEF Thinned, Same
<1>6. Opposing' = s
  BY <1>3 DEF Opposing
<1>7. front.id = fill.id /\ fill.price = p
  OBVIOUS
<1>8. \A i \in DOMAIN book[s][p] : book[s][p][i].id >= fill.id
  <2> SUFFICES ASSUME NEW i \in DOMAIN book[s][p]
               PROVE  book[s][p][i].id >= book[s][p][1].id
    BY <1>7
  <2>1. book[s][p] \in Seq(Order)
    BY <1>1, <1>4 DEF IsBook
  <2>2. i \in Nat /\ i >= 1 /\ 1 \in DOMAIN book[s][p]
    BY <2>1
  <2>3. book[s][p][i].id \in Nat /\ book[s][p][1].id \in Nat
    <3>1. book[s][p][i] \in Order /\ book[s][p][1] \in Order
      BY <2>1, <2>2
    <3>2. QED
      BY <3>1 DEF Order
  <2>4. i > 1 => book[s][p][1].id < book[s][p][i].id
    BY <1>1, <1>4, <2>2 DEF BookInv, Sound, InOrder
  <2>5. QED
    BY <2>2, <2>3, <2>4
<1> HIDE DEF s, fill, front
<1>9. ASSUME NEW n \in DOMAIN taker'.fills, NEW x \in DOMAIN book[s]
      PROVE  LET f == taker'.fills[n]
             IN  /\ ~ Improves(s, x, f.price)
                 /\ x = f.price => \A i \in DOMAIN book[s][x] : book[s][x][i].id >= f.id
  <2>1. CASE n \in DOMAIN taker.fills
    <3>1. taker'.fills[n] = taker.fills[n]
      BY <1>3, <1>4, <2>1
    <3>2. QED
      BY <1>2, <2>1, <3>1 DEF NoTradeThrough, s
  <2>2. CASE n \notin DOMAIN taker.fills
    <3>1. taker'.fills[n] = fill
      BY <1>3, <1>4, <2>2
    <3>2. ~ Improves(s, x, p)
      BY <1>1 DEF IsBest, s
    <3>3. QED
      BY <1>7, <1>8, <3>1, <3>2
  <2>3. QED
    BY <2>1, <2>2
<1>10. ASSUME NEW n \in DOMAIN taker'.fills, NEW x \in DOMAIN book'[s]
       PROVE  LET f == taker'.fills[n]
              IN  /\ ~ Improves(s, x, f.price)
                  /\ x = f.price => \A i \in DOMAIN book'[s][x] : book'[s][x][i].id >= f.id
  <2>1. x \in DOMAIN book[s]
    BY <1>5
  <2>2. QED
    BY <1>5, <1>9, <2>1
<1>11. QED
  BY <1>6, <1>10 DEF NoTradeThrough

LEMMA NoTradeThroughStep ==
  BookInv /\ NoTradeThrough /\ [Next]_vars => NoTradeThrough'
<1> SUFFICES ASSUME BookInv, NoTradeThrough, [Next]_vars PROVE NoTradeThrough'
  OBVIOUS
<1>1. ASSUME NEW s \in Side, NEW p \in Prices, NEW q \in Qtys, NEW ours \in BOOLEAN,
             SubmitLimitOrder(s, p, q, ours)
      PROVE  NoTradeThrough'
  <2>1. taker'.fills = <<>>
    BY <1>1 DEF SubmitLimitOrder, LimitOrder
  <2>2. QED
    BY <2>1 DEF NoTradeThrough
<1>2. ASSUME NEW s \in Side, NEW q \in Qtys, ExecuteMarketOrder(s, q)
      PROVE  NoTradeThrough'
  <2>1. taker'.fills = <<>>
    BY <1>2 DEF ExecuteMarketOrder, MarketOrder
  <2>2. QED
    BY <2>1 DEF NoTradeThrough
<1>3. CASE FillBest
  BY <1>3, FillBestTradesNotThrough
<1>4. CASE Return
  BY <1>4 DEF Return, NoTradeThrough
<1>5. ASSUME NEW s \in Side, NEW p \in Prices, NEW id \in 1..MaxId, Cancel(s, p, id)
      PROVE  NoTradeThrough'
  BY <1>5 DEF Cancel, NoTradeThrough
<1>6. CASE UNCHANGED vars
  BY <1>6 DEF vars, NoTradeThrough, Opposing
<1>7. QED
  BY <1>1, <1>2, <1>3, <1>4, <1>5, <1>6 DEF Next

(* No order that should have traded before a fill of the call in progress is  *)
(* passed over: the walk of submit_limit_order and execute_market_order       *)
(* always takes the oldest order of the best level there is.                  *)
THEOREM NeverTradesThrough == Spec => []NoTradeThrough
<1>1. Init => BookInv /\ NoTradeThrough
  <2> SUFFICES ASSUME Init PROVE BookInv /\ NoTradeThrough
    OBVIOUS
  <2>1. BookInv
    BY BookInvInit
  <2>2. QED
    BY <2>1 DEF Init, NoTradeThrough
<1>2. QED
  BY <1>1, BookInvStep, NoTradeThroughStep, PTL DEF Spec

-----------------------------------------------------------------------------
(* A call in progress can always go on, and each of its steps brings its end *)
(* nearer: the two facts CallsReturn needs besides the fairness of the thread. *)

\* One of the two steps of a call is possible: the guards of Return and FillBest.
CallGoesOn ==
  taker # NoTaker =>
    \/ WalkIsOver
    \/ /\ taker.left > 0
       /\ \E p \in DOMAIN book[Opposing] : IsBest(book, Opposing, p) /\ Marketable(p)

\* A step of a call returns, or leaves less to trade.
CallComesCloser ==
  [][taker # NoTaker => taker' = NoTaker \/ taker'.left < taker.left]_vars

(* Levels that are finitely many have a best one. *)
LEMMA BestExists ==
  ASSUME NEW S \in SUBSET Int, IsFiniteSet(S), S # {}, NEW s \in Side
  PROVE  \E p \in S : \A q \in S : ~ Improves(s, q, p)
<1> DEFINE n == Cardinality(S)
           a == Ascending(S)
<1>1. /\ a \in [1 .. n -> S] /\ n \in Nat
      /\ \A i, j \in 1 .. n : i < j => a[i] < a[j]
      /\ \A x \in S : \E i \in 1 .. n : a[i] = x
  BY AscendingFacts
<1> HIDE DEF n, a
<1>2. PICK x0 \in S : TRUE
  OBVIOUS
<1>3. PICK i0 \in 1 .. n : a[i0] = x0
  BY <1>1
<1>4. 1 \in 1 .. n /\ n \in 1 .. n
  BY <1>1, <1>3
<1>5. a[1] \in S /\ a[n] \in S
  BY <1>1, <1>4
<1>6. ASSUME NEW x \in S
      PROVE  x \in Int /\ a[1] <= x /\ x <= a[n]
  <2>1. PICK i \in 1 .. n : a[i] = x
    BY <1>1
  <2>2. 1 < i => a[1] < a[i]
    BY <1>1, <1>4
  <2>3. i < n => a[i] < a[n]
    BY <1>1, <1>4
  <2>4. x \in Int /\ a[1] \in Int /\ a[n] \in Int
    BY <1>5
  <2>5. (i = 1 \/ 1 < i) /\ (i = n \/ i < n)
    BY <1>1
  <2>6. QED
    BY <2>1, <2>2, <2>3, <2>4, <2>5
<1>7. CASE s = "Bid"
  <2>1. \A q \in S : ~ Improves(s, q, a[n])
    <3>1. ASSUME NEW q \in S
          PROVE  ~ Improves(s, q, a[n])
      <4>1. q <= a[n] /\ q \in Int /\ a[n] \in Int
        BY <1>5, <1>6
      <4>2. QED
        BY <1>7, <4>1 DEF Improves
    <3>2. QED
      BY <3>1
  <2>2. QED
    BY <1>5, <2>1
<1>8. CASE s # "Bid"
  <2>1. \A q \in S : ~ Improves(s, q, a[1])
    <3>1. ASSUME NEW q \in S
          PROVE  ~ Improves(s, q, a[1])
      <4>1. a[1] <= q /\ q \in Int /\ a[1] \in Int
        BY <1>5, <1>6
      <4>2. QED
        BY <1>8, <4>1 DEF Improves
    <3>2. QED
      BY <3>1
  <2>2. QED
    BY <1>5, <2>1
<1>9. QED
  BY <1>7, <1>8

LEMMA SomeStepIsPossible == BookInv => CallGoesOn
<1> SUFFICES ASSUME BookInv, taker # NoTaker, ~ WalkIsOver
             PROVE  /\ taker.left > 0
                    /\ \E p \in DOMAIN book[Opposing] : IsBest(book, Opposing, p) /\ Marketable(p)
  BY DEF CallGoesOn
<1> DEFINE levels == DOMAIN book[Opposing]
<1>1. /\ taker.left \in Nat /\ taker.left # 0 /\ Opposing \in Side /\ taker.side \in Side
      /\ taker.kind = "limit" => taker.price \in Prices
  BY TakerFacts DEF BookInv, WalkIsOver
<1>2. PICK q \in levels : Marketable(q)
  BY DEF WalkIsOver
<1>3. levels \subseteq Prices /\ IsFiniteSet(levels)
  BY <1>1 DEF BookInv, Sound, IsBook, Finite
<1>4. levels \in SUBSET Int /\ levels # {}
  BY <1>2, <1>3, PricesAssumption
<1> HIDE DEF levels
<1>5. PICK p \in levels : \A x \in levels : ~ Improves(Opposing, x, p)
  BY <1>1, <1>3, <1>4, BestExists
<1>6. Marketable(p)
  <2>1. p \in Int /\ q \in Int
    BY <1>4
  <2>2. CASE taker.kind = "limit"
    <3>1. Crosses(taker.side, taker.price, q) /\ ~ Improves(Opposing, q, p)
      BY <1>2, <1>5, <2>2 DEF Marketable
    <3>2. taker.price \in Int
      BY <1>1, <2>2, PricesAssumption
    <3>3. Crosses(taker.side, taker.price, p)
      BY <1>1, <2>1, <3>1, <3>2 DEF Crosses, Improves, Opposing, Opposite, Side
    <3>4. QED
      BY <3>3 DEF Marketable
  <2>3. CASE taker.kind # "limit"
    BY <2>3 DEF Marketable
  <2>4. QED
    BY <2>2, <2>3
<1>7. QED
  BY <1>1, <1>5, <1>6 DEF IsBest, levels

(* The two loops of submit_limit_order and execute_market_order are never *)
(* stuck: they are over, or there is a best level that the order may meet. *)
THEOREM NeverStuck == Spec => []CallGoesOn
<1>1. QED
  BY BookInvInit, BookInvStep, SomeStepIsPossible, PTL DEF Spec

LEMMA FillLeavesLess ==
  ASSUME BookInv, FillBest
  PROVE  taker'.left < taker.left
<1>1. PICK p \in DOMAIN book[Opposing] : TradeAt(p)
  BY DEF FillBest
<1>2. taker # NoTaker /\ taker.left > 0 /\ TypeOK
  BY DEF FillBest, BookInv
<1> DEFINE front == book[Opposing][p][1]
<1>3. /\ taker.left \in Nat /\ Opposing \in Side
      /\ taker \in LimitTaker \cup MarketTaker
  BY <1>2, TakerFacts
<1>4. front \in Order /\ front.qty > 0
  <2>1. book[Opposing][p] # <<>> /\ \A i \in DOMAIN book[Opposing][p] : book[Opposing][p][i].qty > 0
    BY <1>3, LiveOfBook DEF BookInv, Sound, LevelsAreLive
  <2>2. book[Opposing][p] \in Seq(Order)
    BY <1>3 DEF BookInv, Sound, IsBook
  <2>3. 1 \in DOMAIN book[Opposing][p]
    BY <2>1, <2>2
  <2>4. QED
    BY <2>1, <2>2, <2>3
<1>5. taker' = [taker EXCEPT !.left = @ - Traded(front),
                             !.fills = Append(@, [id |-> front.id, ours |-> front.ours,
                                                  price |-> p, qty |-> Traded(front)])]
  BY <1>1 DEF TradeAt
<1> HIDE DEF front
<1>6. Traded(front) \in Nat /\ Traded(front) > 0
  BY <1>2, <1>3, <1>4 DEF Traded, Order
<1>7. taker'.left = taker.left - Traded(front)
  <2>1. CASE taker \in LimitTaker
    BY <1>5, <2>1 DEF LimitTaker
  <2>2. CASE taker \in MarketTaker
    BY <1>5, <2>2 DEF MarketTaker
  <2>3. QED
    BY <1>3, <2>1, <2>2
<1>8. QED
  BY <1>3, <1>6, <1>7

(* A call ends after at most as many fills as its quantity: each takes something, *)
(* as no order with nothing left rests, and nothing else happens in between.      *)
THEOREM EveryFillCounts == Spec => CallComesCloser
<1>1. BookInv /\ [Next]_vars
        => [taker # NoTaker => taker' = NoTaker \/ taker'.left < taker.left]_vars
  <2> SUFFICES ASSUME BookInv, Next, taker # NoTaker
               PROVE  taker' = NoTaker \/ taker'.left < taker.left
    OBVIOUS
  <2>1. ASSUME NEW s \in Side, NEW p \in Prices, NEW q \in Qtys, NEW ours \in BOOLEAN,
               SubmitLimitOrder(s, p, q, ours)
        PROVE  FALSE
    BY <2>1 DEF SubmitLimitOrder
  <2>2. ASSUME NEW s \in Side, NEW q \in Qtys, ExecuteMarketOrder(s, q)
        PROVE  FALSE
    BY <2>2 DEF ExecuteMarketOrder
  <2>3. CASE FillBest
    BY <2>3, FillLeavesLess
  <2>4. CASE Return
    BY <2>4 DEF Return
  <2>5. ASSUME NEW s \in Side, NEW p \in Prices, NEW id \in 1..MaxId, Cancel(s, p, id)
        PROVE  FALSE
    BY <2>5 DEF Cancel
  <2>6. QED
    BY <2>1, <2>2, <2>3, <2>4, <2>5 DEF Next
<1>2. QED
  BY <1>1, BookInvInit, BookInvStep, PTL DEF Spec, CallComesCloser

-----------------------------------------------------------------------------
(* Sums over finite sets *)

(* Induction over the subsets of a finite set. *)
LEMMA SubsetInduct ==
  ASSUME NEW S, IsFiniteSet(S), NEW G, {} \in G,
         \A T \in SUBSET S : T # {} /\ (\A x \in T : T \ {x} \in G) => T \in G
  PROVE  \A T \in SUBSET S : T \in G
<1> DEFINE n == Cardinality(S)
           upTo == {k \in 0 .. n : \A T \in SUBSET S : Cardinality(T) = k => T \in G}
<1>1. n \in Nat
  BY FS_CardinalityType
<1>2. \A T \in SUBSET S : IsFiniteSet(T) /\ Cardinality(T) \in 0 .. n
  <2> SUFFICES ASSUME NEW T \in SUBSET S PROVE IsFiniteSet(T) /\ Cardinality(T) \in 0 .. n
    OBVIOUS
  <2>1. IsFiniteSet(T) /\ Cardinality(T) <= n
    BY FS_Subset
  <2>2. Cardinality(T) \in Nat
    BY <2>1, FS_CardinalityType
  <2>3. QED
    BY <1>1, <2>1, <2>2
<1> HIDE DEF n
<1>3. 0 \in upTo
  BY <1>1, <1>2, FS_EmptySet
<1>4. ASSUME NEW k \in 1 .. n, k - 1 \in upTo PROVE k \in upTo
  <2> SUFFICES ASSUME NEW T \in SUBSET S, Cardinality(T) = k PROVE T \in G
    OBVIOUS
  <2>1. T # {}
    <3>1. k # 0
      BY <1>1
    <3>2. QED
      BY <3>1, FS_EmptySet
  <2>2. ASSUME NEW x \in T PROVE T \ {x} \in G
    <3>1. Cardinality(T \ {x}) = k - 1
      BY <1>2, FS_RemoveElement
    <3>2. QED
      BY <1>4, <3>1
  <2>3. QED
    BY <2>1, <2>2
<1> HIDE DEF upTo
<1>5. \A k \in 0 .. n : k \in upTo
  BY <1>1, <1>3, <1>4, Induct
<1>6. QED
  BY <1>2, <1>5 DEF upTo

\* A weight for each member of a finite set.
Weighs(w, S) == IsFiniteSet(S) /\ \A x \in S : w[x] \in Nat

Choice(T) == CHOOSE x \in T : TRUE

\* Summing the weights of the subsets of S, one chosen member after another.
IsSum(t, S, w) ==
  /\ t \in [SUBSET S -> Nat] /\ t[{}] = 0
  /\ \A T \in SUBSET S : T # {} => t[T] = w[Choice(T)] + t[T \ {Choice(T)}]

LEMMA SumExists ==
  ASSUME NEW S, NEW w, Weighs(w, S)
  PROVE  \E t : IsSum(t, S, w)
<1> DEFINE n == Cardinality(S)
           Sums(t, k) == /\ t \in [SUBSET S -> Nat] /\ t[{}] = 0
                         /\ \A T \in SUBSET S : T # {} /\ Cardinality(T) <= k =>
                              t[T] = w[Choice(T)] + t[T \ {Choice(T)}]
           upTo == {k \in 0 .. n : \E t : Sums(t, k)}
<1>1. n \in Nat
  BY FS_CardinalityType DEF Weighs
<1>2. \A T \in SUBSET S : IsFiniteSet(T) /\ Cardinality(T) \in 0 .. n
  <2> SUFFICES ASSUME NEW T \in SUBSET S PROVE IsFiniteSet(T) /\ Cardinality(T) \in 0 .. n
    OBVIOUS
  <2>1. IsFiniteSet(T) /\ Cardinality(T) <= n
    BY FS_Subset DEF Weighs
  <2>2. Cardinality(T) \in Nat
    BY <2>1, FS_CardinalityType
  <2>3. QED
    BY <1>1, <2>1, <2>2
<1> HIDE DEF n
<1>3. \A T \in SUBSET S : T # {} => /\ Choice(T) \in T /\ w[Choice(T)] \in Nat
                                    /\ T \ {Choice(T)} \in SUBSET S
                                    /\ Cardinality(T \ {Choice(T)}) = Cardinality(T) - 1
  <2> SUFFICES ASSUME NEW T \in SUBSET S, T # {}
               PROVE  /\ Choice(T) \in T /\ w[Choice(T)] \in Nat
                      /\ T \ {Choice(T)} \in SUBSET S
                      /\ Cardinality(T \ {Choice(T)}) = Cardinality(T) - 1
    OBVIOUS
  <2>1. Choice(T) \in T
    BY DEF Choice
  <2>2. IsFiniteSet(T)
    BY <1>2
  <2>3. QED
    BY <2>1, <2>2, FS_RemoveElement DEF Weighs
<1>4. 0 \in upTo
  <2> DEFINE t == [T \in SUBSET S |-> 0]
  <2>1. ASSUME NEW T \in SUBSET S, T # {} PROVE ~ (Cardinality(T) <= 0)
    <3>1. Cardinality(T) \in Nat /\ Cardinality(T) # 0
      BY <1>2, <2>1, FS_EmptySet
    <3>2. QED
      BY <3>1
  <2>2. t \in [SUBSET S -> Nat] /\ t[{}] = 0
    OBVIOUS
  <2> HIDE DEF t
  <2>3. Sums(t, 0)
    BY <2>1, <2>2
  <2> HIDE DEF Sums
  <2>4. 0 \in 0 .. n
    BY <1>1
  <2>5. QED
    BY <2>3, <2>4
<1>5. ASSUME NEW k \in 1 .. n, k - 1 \in upTo PROVE k \in upTo
  <2>1. PICK t : Sums(t, k - 1)
    BY <1>5
  <2> DEFINE u == [T \in SUBSET S |->
                     IF Cardinality(T) = k THEN w[Choice(T)] + t[T \ {Choice(T)}] ELSE t[T]]
  <2>2. k \in Nat \ {0}
    BY <1>1
  <2>3. u \in [SUBSET S -> Nat]
    <3> SUFFICES ASSUME NEW T \in SUBSET S
                 PROVE  (IF Cardinality(T) = k THEN w[Choice(T)] + t[T \ {Choice(T)}]
                         ELSE t[T]) \in Nat
      OBVIOUS
    <3>1. CASE Cardinality(T) = k
      <4>1. T # {}
        BY <2>2, <3>1, FS_EmptySet
      <4>2. w[Choice(T)] \in Nat /\ t[T \ {Choice(T)}] \in Nat
        BY <1>3, <2>1, <4>1
      <4>3. QED
        BY <4>2, <3>1
    <3>2. CASE Cardinality(T) # k
      BY <2>1, <3>2
    <3>3. QED
      BY <3>1, <3>2
  <2>4. u[{}] = 0
    BY <2>1, <2>2, FS_EmptySet
  <2>5. ASSUME NEW T \in SUBSET S, T # {}, Cardinality(T) <= k
        PROVE  u[T] = w[Choice(T)] + u[T \ {Choice(T)}]
    <3> DEFINE rest == T \ {Choice(T)}
               c == Cardinality(T)
    <3>1. rest \in SUBSET S /\ Cardinality(rest) = c - 1 /\ c \in Nat
      BY <1>2, <1>3, <2>5
    <3>2. Cardinality(rest) # k
      BY <2>2, <2>5, <3>1
    <3>3. u[rest] = t[rest]
      BY <3>1, <3>2
    <3>4. u[T] = w[Choice(T)] + t[rest]
      <4>1. CASE c = k
        BY <4>1
      <4>2. CASE c # k
        <5>1. c <= k - 1
          BY <2>2, <2>5, <3>1, <4>2
        <5>2. QED
          BY <2>1, <2>5, <4>2, <5>1
      <4>3. QED
        BY <4>1, <4>2
    <3>5. QED
      BY <3>3, <3>4
  <2> HIDE DEF u
  <2>6. Sums(u, k)
    BY <2>3, <2>4, <2>5
  <2>7. k \in 0 .. n
    BY <1>1
  <2> HIDE DEF Sums
  <2>8. QED
    BY <2>6, <2>7
<1> HIDE DEF upTo, Sums
<1>6. \A k \in 0 .. n : k \in upTo
  BY <1>1, <1>4, <1>5, Induct
<1>7. PICK t : Sums(t, n)
  <2>1. n \in upTo
    BY <1>1, <1>6
  <2>2. QED
    BY <2>1 DEF upTo
<1>8. \A T \in SUBSET S : Cardinality(T) <= n
  BY <1>1, <1>2
<1>9. IsSum(t, S, w)
  BY <1>7, <1>8 DEF IsSum, Sums
<1>10. QED
  BY <1>9

(* Two ways to sum agree where the weights do. *)
LEMMA SumUnique ==
  ASSUME NEW S, NEW w, Weighs(w, S), NEW t, IsSum(t, S, w),
         NEW R, NEW v, NEW u, IsSum(u, R, v),
         NEW T \in SUBSET S, T \in SUBSET R, \A x \in T : v[x] = w[x]
  PROVE  u[T] = t[T]
<1> DEFINE same == {X \in SUBSET T : u[X] = t[X]}
<1>1. {} \in same
  BY DEF IsSum
<1>2. ASSUME NEW X \in SUBSET T, X # {}, \A x \in X : X \ {x} \in same PROVE X \in same
  <2>1. Choice(X) \in X
    BY <1>2 DEF Choice
  <2>2. u[X] = v[Choice(X)] + u[X \ {Choice(X)}] /\ t[X] = w[Choice(X)] + t[X \ {Choice(X)}]
    BY <1>2 DEF IsSum
  <2>3. u[X \ {Choice(X)}] = t[X \ {Choice(X)}]
    BY <1>2, <2>1
  <2>4. v[Choice(X)] = w[Choice(X)]
    BY <2>1
  <2>5. QED
    BY <2>2, <2>3, <2>4
<1>3. IsFiniteSet(T)
  BY FS_Subset DEF Weighs
<1> HIDE DEF same
<1>4. \A X \in SUBSET T : X \in same
  BY <1>1, <1>2, <1>3, SubsetInduct
<1>5. QED
  BY <1>4 DEF same

(* The sum of the library is what any summation yields. *)
LEMMA SumIs ==
  ASSUME NEW S, NEW w, Weighs(w, S), NEW t, IsSum(t, S, w), NEW T \in SUBSET S
  PROVE  /\ SumFunctionOnSet(w, T) = t[T] /\ SumFunctionOnSet(w, T) \in Nat
         /\ Weighs(w, T)
<1>1. Weighs(w, T)
  BY FS_Subset DEF Weighs
<1> DEFINE IsIter(f) == f = [s \in SUBSET T |-> IF s = {} THEN 0
                              ELSE w[Choice(s)] + f[s \ {Choice(s)}]]
           u == CHOOSE f : IsIter(f)
<1>2. SumFunctionOnSet(w, T) = u[T]
  BY DEF SumFunctionOnSet, FoldFunctionOnSet, MapThenFoldSet, Choice
<1>3. PICK r : IsSum(r, T, w)
  BY <1>1, SumExists
<1>4. r = [s \in SUBSET T |-> IF s = {} THEN 0 ELSE w[Choice(s)] + r[s \ {Choice(s)}]]
  BY <1>3 DEF IsSum
<1>5. IsIter(u)
  BY <1>4
<1> HIDE DEF u
<1>6. ASSUME NEW X \in SUBSET T, X # {}
      PROVE  u[X] = w[Choice(X)] + u[X \ {Choice(X)}] /\ Choice(X) \in X
  BY <1>5, <1>6 DEF Choice
<1>7. u[{}] = 0
  BY <1>5
<1> DEFINE same == {X \in SUBSET T : u[X] = t[X]}
<1>8. {} \in same
  BY <1>7 DEF IsSum
<1>9. ASSUME NEW X \in SUBSET T, X # {}, \A x \in X : X \ {x} \in same PROVE X \in same
  <2>1. t[X] = w[Choice(X)] + t[X \ {Choice(X)}]
    BY <1>9 DEF IsSum
  <2>2. QED
    BY <1>6, <1>9, <2>1
<1>10. IsFiniteSet(T)
  BY <1>1 DEF Weighs
<1> HIDE DEF same
<1>11. T \in same
  BY <1>8, <1>9, <1>10, SubsetInduct
<1>12. t[T] \in Nat
  BY DEF IsSum
<1>13. QED
  BY <1>1, <1>2, <1>11, <1>12 DEF same

LEMMA SumSame ==
  ASSUME NEW S, NEW w, Weighs(w, S), NEW v, \A x \in S : v[x] = w[x]
  PROVE  SumFunctionOnSet(v, S) = SumFunctionOnSet(w, S)
<1>1. Weighs(v, S)
  BY DEF Weighs
<1>2. PICK t : IsSum(t, S, w)
  BY SumExists
<1>3. PICK u : IsSum(u, S, v)
  BY <1>1, SumExists
<1>4. SumFunctionOnSet(w, S) = t[S] /\ SumFunctionOnSet(v, S) = u[S]
  BY <1>1, <1>2, <1>3, SumIs
<1>5. QED
  BY <1>2, <1>3, <1>4, SumUnique

(* The empty sum, and a sum of one more: any member may be counted first. *)
LEMMA SumNone ==
  ASSUME NEW w
  PROVE  SumFunctionOnSet(w, {}) = 0
<1> DEFINE none == {}
<1>1. Weighs(w, none)
  BY FS_EmptySet DEF Weighs
<1>2. PICK t : IsSum(t, none, w)
  BY <1>1, SumExists
<1>3. SumFunctionOnSet(w, none) = t[none]
  BY <1>1, <1>2, SumIs
<1>4. QED
  BY <1>2, <1>3 DEF IsSum

LEMMA SumNat ==
  ASSUME NEW S, NEW w, Weighs(w, S)
  PROVE  SumFunctionOnSet(w, S) \in Nat
<1>1. PICK t : IsSum(t, S, w)
  BY SumExists
<1>2. QED
  BY <1>1, SumIs

LEMMA SumWith ==
  ASSUME NEW S, NEW w, Weighs(w, S), NEW y \in S
  PROVE  /\ Weighs(w, S \ {y})
         /\ SumFunctionOnSet(w, S) = w[y] + SumFunctionOnSet(w, S \ {y})
<1>1. PICK t : IsSum(t, S, w)
  BY SumExists
<1> DEFINE good == {T \in SUBSET S : \A x \in T : t[T] = w[x] + t[T \ {x}]}
<1>2. {} \in good
  OBVIOUS
<1>3. ASSUME NEW T \in SUBSET S, T # {}, \A x \in T : T \ {x} \in good PROVE T \in good
  <2> SUFFICES ASSUME NEW x \in T PROVE t[T] = w[x] + t[T \ {x}]
    OBVIOUS
  <2> DEFINE c == Choice(T)
  <2>1. c \in T
    BY DEF Choice
  <2>2. t[T] = w[c] + t[T \ {c}]
    BY <1>1 DEF IsSum
  <2> HIDE DEF c
  <2>3. CASE x = c
    BY <2>2, <2>3
  <2>4. CASE x # c
    <3>1. t[T \ {c}] = w[x] + t[(T \ {c}) \ {x}]
      BY <1>3, <2>1, <2>4
    <3>2. t[T \ {x}] = w[c] + t[(T \ {x}) \ {c}]
      BY <1>3, <2>1, <2>4
    <3>3. (T \ {c}) \ {x} = (T \ {x}) \ {c}
      OBVIOUS
    <3> DEFINE rest == t[(T \ {x}) \ {c}]
    <3>4. rest \in Nat /\ w[x] \in Nat /\ w[c] \in Nat
      <4>1. (T \ {x}) \ {c} \in SUBSET S
        OBVIOUS
      <4>2. QED
        BY <1>1, <2>1, <4>1 DEF IsSum, Weighs
    <3> HIDE DEF rest
    <3>5. t[T \ {c}] = w[x] + rest /\ t[T \ {x}] = w[c] + rest
      BY <3>1, <3>2, <3>3 DEF rest
    <3>6. QED
      BY <2>2, <3>4, <3>5
  <2>5. QED
    BY <2>3, <2>4
<1>4. IsFiniteSet(S)
  BY DEF Weighs
<1> HIDE DEF good
<1>5. \A T \in SUBSET S : T \in good
  BY <1>2, <1>3, <1>4, SubsetInduct
<1>6. t[S] = w[y] + t[S \ {y}]
  BY <1>5 DEF good
<1>7. /\ SumFunctionOnSet(w, S) = t[S] /\ SumFunctionOnSet(w, S \ {y}) = t[S \ {y}]
      /\ Weighs(w, S \ {y})
  BY <1>1, SumIs
<1>8. QED
  BY <1>6, <1>7

(* More, or heavier, members have a greater sum. *)
LEMMA SumMore ==
  ASSUME NEW S, NEW w, Weighs(w, S), NEW T \in SUBSET S, NEW v, Weighs(v, T),
         \A x \in T : v[x] <= w[x]
  PROVE  SumFunctionOnSet(v, T) <= SumFunctionOnSet(w, S)
<1> DEFINE good == {X \in SUBSET S : SumFunctionOnSet(v, X \cap T) <= SumFunctionOnSet(w, X)}
<1>1. {} \in good
  <2>1. {} \cap T = {}
    OBVIOUS
  <2>2. QED
    BY <2>1, SumNone
<1>2. ASSUME NEW X \in SUBSET S, X # {}, \A x \in X : X \ {x} \in good PROVE X \in good
  <2>1. PICK x \in X : TRUE
    BY <1>2
  <2> DEFINE Y == X \ {x}
             some == X \cap T
             rest == Y \cap T
  <2>2. Weighs(w, X) /\ Weighs(v, some) /\ Weighs(w, Y)
    BY FS_Subset DEF Weighs
  <2>3. /\ SumFunctionOnSet(w, X) = w[x] + SumFunctionOnSet(w, Y)
        /\ SumFunctionOnSet(w, Y) \in Nat /\ w[x] \in Nat
    BY <2>2, SumWith, SumNat DEF Weighs
  <2>4. SumFunctionOnSet(v, rest) <= SumFunctionOnSet(w, Y)
    BY <1>2
  <2>5. CASE x \notin T
    <3>1. some = rest
      BY <2>5
    <3>2. SumFunctionOnSet(v, some) \in Nat
      BY <2>2, SumNat
    <3> HIDE DEF some, rest, Y
    <3>3. SumFunctionOnSet(v, some) <= SumFunctionOnSet(w, X)
      BY <2>3, <2>4, <3>1, <3>2
    <3>4. QED
      BY <3>3 DEF some
  <2>6. CASE x \in T
    <3>1. rest = some \ {x} /\ x \in some
      BY <2>6
    <3> HIDE DEF rest, some, Y
    <3>2. SumFunctionOnSet(v, some) = v[x] + SumFunctionOnSet(v, rest) /\ Weighs(v, rest)
      BY <2>2, <3>1, SumWith
    <3>3. SumFunctionOnSet(v, rest) \in Nat /\ v[x] \in Nat /\ v[x] <= w[x]
      BY <2>6, <3>2, SumNat DEF Weighs
    <3>4. SumFunctionOnSet(v, some) <= SumFunctionOnSet(w, X)
      BY <2>3, <2>4, <3>2, <3>3
    <3>5. QED
      BY <3>4 DEF some
  <2>7. QED
    BY <2>5, <2>6
<1>3. IsFiniteSet(S)
  BY DEF Weighs
<1> HIDE DEF good
<1>4. S \in good
  BY <1>1, <1>2, <1>3, SubsetInduct
<1>5. S \cap T = T
  OBVIOUS
<1>6. QED
  BY <1>4, <1>5 DEF good

(* Adding to one weight adds to the sum. *)
LEMMA SumAdds ==
  ASSUME NEW S, NEW w, Weighs(w, S), NEW y \in S, NEW k \in Nat,
         NEW v, v[y] = w[y] + k, \A x \in S \ {y} : v[x] = w[x]
  PROVE  SumFunctionOnSet(v, S) = SumFunctionOnSet(w, S) + k
<1> DEFINE rest == S \ {y}
<1>1. Weighs(v, S)
  BY DEF Weighs
<1>2. /\ SumFunctionOnSet(w, S) = w[y] + SumFunctionOnSet(w, rest)
      /\ SumFunctionOnSet(v, S) = v[y] + SumFunctionOnSet(v, rest)
      /\ Weighs(w, rest)
  BY <1>1, SumWith
<1> HIDE DEF rest
<1>3. SumFunctionOnSet(v, rest) = SumFunctionOnSet(w, rest) /\ SumFunctionOnSet(w, rest) \in Nat
  BY <1>2, SumSame, SumNat DEF rest
<1>4. w[y] \in Nat
  BY DEF Weighs
<1>5. QED
  BY <1>2, <1>3, <1>4

LEMMA SumOfNothings ==
  ASSUME NEW S, NEW w, Weighs(w, S), \A x \in S : w[x] = 0
  PROVE  SumFunctionOnSet(w, S) = 0
<1> DEFINE good == {X \in SUBSET S : SumFunctionOnSet(w, X) = 0}
<1>1. {} \in good
  BY SumNone
<1>2. ASSUME NEW X \in SUBSET S, X # {}, \A x \in X : X \ {x} \in good PROVE X \in good
  <2>1. PICK x \in X : TRUE
    BY <1>2
  <2>2. Weighs(w, X)
    BY FS_Subset DEF Weighs
  <2>3. SumFunctionOnSet(w, X) = w[x] + SumFunctionOnSet(w, X \ {x})
    BY <2>2, SumWith
  <2>4. QED
    BY <1>2, <2>3
<1>3. IsFiniteSet(S)
  BY DEF Weighs
<1>4. \A X \in good : SumFunctionOnSet(w, X) = 0
  OBVIOUS
<1> HIDE DEF good
<1>5. \A X \in SUBSET S : X # {} /\ (\A x \in X : X \ {x} \in good) => X \in good
  BY <1>2
<1>6. S \in good
  BY <1>1, <1>3, <1>5, SubsetInduct
<1>7. QED
  BY <1>4, <1>6

-----------------------------------------------------------------------------
(* The orders of a book, wherever they stand *)

\* Order o rests on side s of the book at price p.
At(b, s, p, o) == s \in Side /\ p \in DOMAIN b[s] /\ \E i \in DOMAIN b[s][p] : b[s][p][i] = o

\* An order of a queue.
In(queue, o) == \E i \in DOMAIN queue : queue[i] = o

LEMMA AtType ==
  ASSUME NEW P, NEW b, Sound(b, P), NEW s, NEW p, NEW o, At(b, s, p, o)
  PROVE  /\ s \in Side /\ p \in DOMAIN b[s] /\ p \in P
         /\ o \in Order /\ o.id \in Nat /\ o.qty \in Nat /\ o.qty > 0 /\ o.ours \in BOOLEAN
<1>1. s \in Side /\ p \in DOMAIN b[s] /\ p \in P /\ b[s][p] \in Seq(Order)
  BY DEF At, Sound, IsBook
<1>2. PICK i \in DOMAIN b[s][p] : b[s][p][i] = o
  BY DEF At
<1>3. o \in Order
  BY <1>1, <1>2
<1>4. o.qty > 0
  BY <1>1, <1>2 DEF Sound, LiveBook, AllLive
<1>5. QED
  BY <1>1, <1>3, <1>4 DEF Order

(* An id names one order, at one place. *)
LEMMA AtOnce ==
  ASSUME NEW P, NEW b, Sound(b, P), NEW s, NEW p, NEW o, At(b, s, p, o),
         NEW t, NEW x, NEW u, At(b, t, x, u), o.id = u.id
  PROVE  s = t /\ p = x /\ o = u
<1>1. PICK i \in DOMAIN b[s][p] : b[s][p][i] = o
  BY DEF At
<1>2. PICK j \in DOMAIN b[t][x] : b[t][x][j] = u
  BY DEF At
<1>3. s = t /\ p = x /\ i = j
  BY <1>1, <1>2 DEF At, Sound, OneOrderPerId
<1>4. QED
  BY <1>1, <1>2, <1>3

LEMMA SetQueueAt ==
  ASSUME NEW P, NEW b, IsBook(b, P), NEW s \in Side, NEW p \in P, NEW q \in Seq(Order),
         NEW t, NEW x, NEW o
  PROVE  At(SetQueue(b, s, p, q), t, x, o) <=>
           IF t = s /\ x = p THEN In(q, o) ELSE At(b, t, x, o)
<1> DEFINE c == SetQueue(b, s, p, q)
<1>1. /\ \A y \in Side : y # s => c[y] = b[y]
      /\ q = <<>> => DOMAIN c[s] = DOMAIN b[s] \ {p}
      /\ q # <<>> => DOMAIN c[s] = DOMAIN b[s] \cup {p}
      /\ q # <<>> => c[s][p] = q
      /\ \A y \in DOMAIN c[s] : y # p => c[s][y] = b[s][y]
  BY SetQueueFacts
<1> HIDE DEF c
<1>2. CASE t = s /\ x = p
  <2>1. CASE q = <<>>
    <3>1. ~ In(q, o)
      BY <2>1 DEF In
    <3>2. ~ At(c, t, x, o)
      BY <1>1, <1>2, <2>1 DEF At
    <3>3. QED
      BY <1>2, <3>1, <3>2 DEF c
  <2>2. CASE q # <<>>
    <3>1. p \in DOMAIN c[s] /\ c[s][p] = q
      BY <1>1, <2>2
    <3>2. At(c, s, p, o) <=> In(q, o)
      BY <3>1 DEF At, In
    <3>3. QED
      BY <1>2, <3>2 DEF c
  <2>3. QED
    BY <2>1, <2>2
<1>3. CASE t # s
  <2>1. t \in Side => c[t] = b[t]
    BY <1>1, <1>3
  <2>2. At(c, t, x, o) <=> At(b, t, x, o)
    BY <2>1 DEF At
  <2>3. QED
    BY <1>3, <2>2 DEF c
<1>4. CASE t = s /\ x # p
  <2>1. (x \in DOMAIN c[s] <=> x \in DOMAIN b[s]) /\ (x \in DOMAIN c[s] => c[s][x] = b[s][x])
    BY <1>1, <1>4
  <2>2. At(c, s, x, o) <=> At(b, s, x, o)
    BY <2>1 DEF At
  <2>3. QED
    BY <1>4, <2>2 DEF c
<1>5. QED
  BY <1>2, <1>3, <1>4

(* A resting order is one more. *)
LEMMA RestAt ==
  ASSUME NEW P, NEW b, IsBook(b, P), NEW s \in Side, NEW p \in P, NEW u \in Order,
         NEW t, NEW x, NEW o
  PROVE  At(RestOrder(b, s, p, u), t, x, o) <=>
           At(b, t, x, o) \/ (t = s /\ x = p /\ o = u)
<1> DEFINE queue == QueueAt(b, s, p)
           q == Append(queue, u)
<1>1. queue \in Seq(Order)
  BY QueueAtType
<1>2. RestOrder(b, s, p, u) = SetQueue(b, s, p, q)
  BY DEF RestOrder
<1>3. In(queue, o) <=> At(b, s, p, o)
  BY DEF QueueAt, In, At
<1> HIDE DEF queue
<1>4. q \in Seq(Order)
  BY <1>1
<1>5. In(q, o) <=> In(queue, o) \/ o = u
  <2>1. /\ Len(q) = Len(queue) + 1 /\ Len(queue) \in Nat
        /\ q[Len(queue) + 1] = u
        /\ \A i \in 1 .. Len(queue) : q[i] = queue[i]
        /\ DOMAIN q = 1 .. Len(q) /\ DOMAIN queue = 1 .. Len(queue)
    BY <1>1
  <2>2. \A i \in DOMAIN q : i \in DOMAIN queue \/ i = Len(queue) + 1
    BY <2>1
  <2>3. \A i \in DOMAIN queue : i \in DOMAIN q
    BY <2>1
  <2>4. Len(queue) + 1 \in DOMAIN q
    BY <2>1
  <2> HIDE DEF q
  <2>5. QED
    BY <2>1, <2>2, <2>3, <2>4 DEF In
<1> HIDE DEF q
<1>6. At(SetQueue(b, s, p, q), t, x, o) <=>
        IF t = s /\ x = p THEN In(q, o) ELSE At(b, t, x, o)
  BY <1>4, SetQueueAt
<1>7. QED
  BY <1>2, <1>3, <1>5, <1>6

(* A cancel takes away the order with the id, and nothing else. *)
LEMMA CancelAt ==
  ASSUME NEW P, NEW b, Sound(b, P), NEW s \in Side, NEW p \in P, NEW id, HasOrder(b, s, p, id),
         NEW t, NEW x, NEW o
  PROVE  At(CancelOrder(b, s, p, id), t, x, o) <=> At(b, t, x, o) /\ o.id # id
<1> DEFINE queue == b[s][p]
           k == Position(queue, id)
           q == RemoveAt(queue, k)
<1>1. p \in DOMAIN b[s] /\ Places(queue, id) # {}
  BY DEF HasOrder, QueueAt, Places
<1>2. queue \in Seq(Order)
  BY <1>1 DEF Sound, IsBook
<1>3. CancelOrder(b, s, p, id) = SetQueue(b, s, p, q)
  BY DEF CancelOrder
<1>4. In(queue, o) <=> At(b, s, p, o)
  BY <1>1 DEF In, At
<1>5. \A i, j \in DOMAIN queue : queue[i].id = queue[j].id => i = j
  BY <1>1 DEF Sound, OneOrderPerId
<1>6. ASSUME At(b, t, x, o), o.id = id PROVE t = s /\ x = p
  <2>1. k \in DOMAIN queue /\ queue[k].id = id
    BY <1>1, <1>2, PositionIsPlace DEF Places
  <2>2. At(b, s, p, queue[k])
    BY <1>1, <2>1 DEF At
  <2>3. QED
    BY <1>6, <2>1, <2>2, AtOnce
<1> HIDE DEF queue
<1>7. k \in DOMAIN queue /\ queue[k].id = id
  BY <1>1, <1>2, PositionIsPlace DEF Places
<1> HIDE DEF k
<1>8. /\ q \in Seq(Order) /\ Len(q) = Len(queue) - 1
      /\ \A j \in DOMAIN q : q[j] = queue[IF j < k THEN j ELSE j + 1]
  BY <1>2, <1>7, RemoveAtFacts
<1> HIDE DEF q
<1>9. In(q, o) <=> In(queue, o) /\ o.id # id
  <2>1. DOMAIN q = 1 .. Len(q) /\ DOMAIN queue = 1 .. Len(queue) /\ Len(queue) \in Nat
    BY <1>2, <1>8
  <2>2. k \in 1 .. Len(queue)
    BY <1>7, <2>1
  <2>3. ASSUME NEW j \in DOMAIN q, q[j] = o PROVE In(queue, o) /\ o.id # id
    <3> DEFINE i == IF j < k THEN j ELSE j + 1
    <3>1. i \in DOMAIN queue /\ i # k
      BY <1>8, <2>1, <2>2, <2>3
    <3>2. queue[i] = o
      BY <1>8, <2>3
    <3>3. QED
      BY <1>5, <1>7, <3>1, <3>2 DEF In, queue
  <2>4. ASSUME NEW i \in DOMAIN queue, queue[i] = o, o.id # id PROVE In(q, o)
    <3> DEFINE j == IF i < k THEN i ELSE i - 1
    <3>1. i # k
      BY <1>7, <2>4
    <3>2. j \in DOMAIN q /\ (IF j < k THEN j ELSE j + 1) = i
      BY <1>8, <2>1, <2>2, <2>4, <3>1
    <3>3. QED
      BY <1>8, <2>4, <3>2 DEF In
  <2>5. QED
    BY <2>3, <2>4 DEF In
<1>10. At(SetQueue(b, s, p, q), t, x, o) <=>
         IF t = s /\ x = p THEN In(q, o) ELSE At(b, t, x, o)
  <2>1. IsBook(b, P)
    BY DEF Sound
  <2>2. QED
    BY <1>8, <2>1, SetQueueAt
<1>11. QED
  BY <1>3, <1>4, <1>6, <1>9, <1>10

(* A fill leaves the front order what was not traded, or takes it away. *)
LEMMA FillAt ==
  ASSUME NEW P, NEW b, Sound(b, P), NEW s \in Side, NEW p \in DOMAIN b[s],
         NEW front, front = b[s][p][1], NEW qty \in Nat, qty <= front.qty,
         NEW t, NEW x, NEW o
  PROVE  /\ At(b, s, p, front)
         /\ At(FillFront(b, s, p, qty), t, x, o) <=>
              \/ At(b, t, x, o) /\ o.id # front.id
              \/ t = s /\ x = p /\ qty # front.qty /\ o = Reduced(front, qty)
<1> DEFINE queue == b[s][p]
           n == Len(queue)
           q == Filled(queue, qty)
<1>1. queue \in Seq(Order) /\ queue # <<>> /\ AllLive(queue) /\ p \in P /\ IsBook(b, P)
  BY DEF Sound, IsBook, LiveBook
<1>2. FillFront(b, s, p, qty) = SetQueue(b, s, p, q)
  BY DEF FillFront, Filled
<1>3. In(queue, o) <=> At(b, s, p, o)
  BY DEF In, At
<1>4. \A i, j \in DOMAIN queue : queue[i].id = queue[j].id => i = j
  BY DEF Sound, OneOrderPerId
<1>5. 1 \in DOMAIN queue /\ queue[1] = front /\ qty <= queue[1].qty
  BY <1>1
<1>6. At(b, s, p, front)
  BY <1>5 DEF At
<1>7. ASSUME At(b, t, x, o), o.id = front.id PROVE t = s /\ x = p
  BY <1>6, <1>7, AtOnce
<1> HIDE DEF queue
<1>8. /\ DOMAIN queue = 1 .. n /\ n \in Nat /\ n >= 1
  BY <1>1, <1>5
<1>9. q \in Seq(Order)
  BY <1>1, <1>5, FilledFacts
<1>10. In(q, o) <=> \/ In(queue, o) /\ o.id # front.id
                    \/ qty # front.qty /\ o = Reduced(front, qty)
  <2>1. CASE qty = front.qty
    <3>1. q = Tail(queue)
      BY <1>5, <2>1 DEF Filled
    <3>2. DOMAIN q = 1 .. n - 1 /\ \A j \in 1 .. n - 1 : q[j] = queue[j + 1]
      BY <1>1, <1>8, <3>1
    <3> HIDE DEF q
    <3>3. ASSUME NEW j \in DOMAIN q, q[j] = o PROVE In(queue, o) /\ o.id # front.id
      <4>1. j + 1 \in DOMAIN queue /\ j + 1 # 1
        BY <1>8, <3>2, <3>3
      <4>2. QED
        BY <1>4, <1>5, <3>2, <3>3, <4>1 DEF In
    <3>4. ASSUME NEW i \in DOMAIN queue, queue[i] = o, o.id # front.id PROVE In(q, o)
      <4>1. i # 1
        BY <1>5, <3>4
      <4>2. i - 1 \in 1 .. n - 1 /\ (i - 1) + 1 = i
        BY <1>8, <3>4, <4>1
      <4>3. QED
        BY <3>2, <3>4, <4>2 DEF In
    <3>5. QED
      BY <2>1, <3>3, <3>4 DEF In
  <2>2. CASE qty # front.qty
    <3>1. q = [queue EXCEPT ![1] = Reduced(front, qty)]
      BY <1>5, <2>2 DEF Filled
    <3>2. /\ DOMAIN q = DOMAIN queue /\ q[1] = Reduced(front, qty)
          /\ \A i \in DOMAIN queue : i # 1 => q[i] = queue[i]
      BY <1>5, <3>1
    <3> HIDE DEF q
    <3>3. ASSUME NEW j \in DOMAIN q, q[j] = o, j # 1 PROVE In(queue, o) /\ o.id # front.id
      <4>1. queue[j] = o /\ j \in DOMAIN queue
        BY <3>2, <3>3
      <4>2. QED
        BY <1>4, <1>5, <3>3, <4>1 DEF In
    <3>4. ASSUME NEW i \in DOMAIN queue, queue[i] = o, o.id # front.id PROVE In(q, o)
      <4>1. i # 1
        BY <1>5, <3>4
      <4>2. QED
        BY <3>2, <3>4, <4>1 DEF In
    <3>5. In(q, Reduced(front, qty))
      BY <1>5, <3>2 DEF In
    <3>6. QED
      BY <2>2, <3>2, <3>3, <3>4, <3>5 DEF In
  <2>3. QED
    BY <2>1, <2>2
<1> HIDE DEF q
<1>11. At(SetQueue(b, s, p, q), t, x, o) <=>
         IF t = s /\ x = p THEN In(q, o) ELSE At(b, t, x, o)
  BY <1>1, <1>9, SetQueueAt
<1>12. QED
  BY <1>2, <1>3, <1>6, <1>7, <1>10, <1>11

-----------------------------------------------------------------------------
(* The fills of a call *)

LEMMA FillsWeigh ==
  ASSUME NEW fills \in Seq(Fill), NEW id
  PROVE  /\ TakenIn(fills, id) \in Nat
         /\ Weighs([n \in DOMAIN fills |-> fills[n].qty], {n \in DOMAIN fills : fills[n].id = id})
<1> DEFINE w == [n \in DOMAIN fills |-> fills[n].qty]
           S == {n \in DOMAIN fills : fills[n].id = id}
<1>1. IsFiniteSet(DOMAIN fills)
  <2>1. DOMAIN fills = 1 .. Len(fills) /\ Len(fills) \in Nat
    OBVIOUS
  <2>2. QED
    BY <2>1, FS_Interval
<1>2. \A n \in DOMAIN fills : fills[n] \in Fill
  OBVIOUS
<1>3. \A n \in DOMAIN fills : w[n] \in Nat
  BY <1>2 DEF Fill
<1>4. Weighs(w, S)
  BY <1>1, <1>3, FS_Subset DEF Weighs
<1>5. TakenIn(fills, id) = SumFunctionOnSet(w, S)
  BY DEF TakenIn
<1> HIDE DEF w, S
<1>6. SumFunctionOnSet(w, S) \in Nat
  BY <1>4, SumNat
<1>7. QED
  BY <1>4, <1>5, <1>6 DEF w, S

LEMMA TakenNothing ==
  ASSUME NEW fills, NEW id, \A n \in DOMAIN fills : fills[n].id # id
  PROVE  TakenIn(fills, id) = 0
<1>1. {n \in DOMAIN fills : fills[n].id = id} = {}
  OBVIOUS
<1>2. QED
  BY <1>1, SumNone DEF TakenIn

(* One more fill takes its quantity from its order. *)
LEMMA TakenMore ==
  ASSUME NEW fills \in Seq(Fill), NEW f \in Fill, NEW id
  PROVE  TakenIn(Append(fills, f), id) =
           TakenIn(fills, id) + (IF f.id = id THEN f.qty ELSE 0)
<1> DEFINE more == Append(fills, f)
           m == Len(fills) + 1
           w == [n \in DOMAIN fills |-> fills[n].qty]
           v == [n \in DOMAIN more |-> more[n].qty]
           S == {n \in DOMAIN fills : fills[n].id = id}
           T == {n \in DOMAIN more : more[n].id = id}
<1>1. /\ more \in Seq(Fill) /\ DOMAIN fills = 1 .. Len(fills) /\ Len(fills) \in Nat
      /\ DOMAIN more = 1 .. m /\ m \in Nat
      /\ more[m] = f /\ \A n \in DOMAIN fills : more[n] = fills[n]
  OBVIOUS
<1>2. m \notin DOMAIN fills /\ m \in DOMAIN more /\ DOMAIN more = DOMAIN fills \cup {m}
  BY <1>1
<1>3. Weighs(w, S) /\ Weighs(v, T)
  BY <1>1, FillsWeigh
<1>4. \A n \in S : v[n] = w[n]
  BY <1>1, <1>2
<1>5. TakenIn(more, id) = SumFunctionOnSet(v, T) /\ TakenIn(fills, id) = SumFunctionOnSet(w, S)
  BY DEF TakenIn
<1>6. CASE f.id = id
  <2>1. m \in T /\ T \ {m} = S /\ v[m] = f.qty
    BY <1>1, <1>2, <1>6
  <2> HIDE DEF v, w, S, T, m
  <2>2. SumFunctionOnSet(v, T) = v[m] + SumFunctionOnSet(v, S)
    BY <1>3, <2>1, SumWith
  <2>3. SumFunctionOnSet(v, S) = SumFunctionOnSet(w, S) /\ SumFunctionOnSet(w, S) \in Nat
    BY <1>3, <1>4, SumSame, SumNat
  <2>4. f.qty \in Nat
    BY DEF Fill
  <2>5. QED
    BY <1>5, <1>6, <2>1, <2>2, <2>3, <2>4
<1>7. CASE f.id # id
  <2>1. T = S
    BY <1>1, <1>2, <1>7
  <2> HIDE DEF v, w, S, T, m
  <2>2. SumFunctionOnSet(v, S) = SumFunctionOnSet(w, S) /\ SumFunctionOnSet(w, S) \in Nat
    BY <1>3, <1>4, SumSame, SumNat
  <2>3. QED
    BY <1>5, <1>7, <2>1, <2>2
<1>8. QED
  BY <1>6, <1>7

-----------------------------------------------------------------------------
(* The abstract orders *)

\* An order with this id is on the book.
Standing(b, id) == \E s, p, o : At(b, s, p, o) /\ o.id = id

AllOrders(b, fills, s) == OnBook(b, fills) \cup UsedUp(b, fills, s)

LEMMA AllOnBook ==
  ASSUME NEW b, NEW fills, NEW r
  PROVE  r \in OnBook(b, fills) <=>
           \E s, p, o : At(b, s, p, o) /\ r = Was(fills, s, p, o.id, o.qty, o.ours)
BY DEF OnBook, At

LEMMA AllUsedUp ==
  ASSUME NEW b, NEW fills, NEW side, NEW r
  PROVE  r \in UsedUp(b, fills, side) <=>
           \E n \in DOMAIN fills :
             /\ ~ Standing(b, fills[n].id)
             /\ r = Was(fills, side, fills[n].price, fills[n].id, 0, fills[n].ours)
<1>1. ASSUME NEW id
      PROVE  (\A o \in OnBook(b, fills) : o.id # id) <=> ~ Standing(b, id)
  <2>1. \A s, p, o : Was(fills, s, p, o.id, o.qty, o.ours).id = o.id
    BY DEF Was
  <2>2. ASSUME Standing(b, id) PROVE \E o \in OnBook(b, fills) : o.id = id
    <3>1. PICK s, p, o : At(b, s, p, o) /\ o.id = id
      BY <2>2 DEF Standing
    <3> DEFINE u == Was(fills, s, p, o.id, o.qty, o.ours)
    <3>2. u \in OnBook(b, fills) /\ u.id = id
      BY <2>1, <3>1, AllOnBook
    <3>3. QED
      BY <3>2
  <2>3. ASSUME NEW u \in OnBook(b, fills), u.id = id PROVE Standing(b, id)
    <3>1. PICK s, p, o : At(b, s, p, o) /\ u = Was(fills, s, p, o.id, o.qty, o.ours)
      BY AllOnBook
    <3>2. QED
      BY <2>1, <2>3, <3>1 DEF Standing
  <2>4. QED
    BY <2>2, <2>3
<1>2. QED
  BY <1>1 DEF UsedUp

(* There are finitely many orders. *)
LEMMA OrdersFinite ==
  ASSUME NEW P, NEW b, Sound(b, P), NEW m \in Nat, IdsUpTo(b, m),
         NEW fills \in Seq(Fill), NEW side
  PROVE  IsFiniteSet(AllOrders(b, fills, side))
<1> DEFINE f == [r \in OnBook(b, fills) |-> r.id]
           D == DOMAIN fills
           g == [n \in D |-> Was(fills, side, fills[n].price, fills[n].id, 0, fills[n].ours)]
<1>1. IsFiniteSet(1 .. m) /\ IsFiniteSet(D)
  <2>1. DOMAIN fills = 1 .. Len(fills) /\ Len(fills) \in Nat
    OBVIOUS
  <2>2. QED
    BY <2>1, FS_Interval
<1>2. \A s, p, o : At(b, s, p, o) => o.id \in 1 .. m
  BY DEF At, IdsUpTo
<1>3. \A r \in OnBook(b, fills) : r.id \in 1 .. m
  BY <1>2, AllOnBook DEF Was
<1>4. ASSUME NEW r \in OnBook(b, fills), NEW u \in OnBook(b, fills), r.id = u.id PROVE r = u
  <2>1. PICK s, p, o : At(b, s, p, o) /\ r = Was(fills, s, p, o.id, o.qty, o.ours)
    BY AllOnBook
  <2>2. PICK t, x, v : At(b, t, x, v) /\ u = Was(fills, t, x, v.id, v.qty, v.ours)
    BY AllOnBook
  <2>3. o.id = v.id
    BY <1>4, <2>1, <2>2 DEF Was
  <2>4. s = t /\ p = x /\ o = v
    BY <2>1, <2>2, <2>3, AtOnce
  <2>5. QED
    BY <2>1, <2>2, <2>4
<1>5. f \in Injection(OnBook(b, fills), 1 .. m)
  BY <1>3, <1>4 DEF Injection, IsInjective
<1>6. IsFiniteSet(OnBook(b, fills))
  BY <1>1, <1>5, FS_Injection DEF ExistsInjection
<1>7. UsedUp(b, fills, side) \subseteq {g[n] : n \in D}
  BY AllUsedUp
<1>8. IsFiniteSet({g[n] : n \in D})
  <2> DEFINE R == {g[n] : n \in D}
  <2>1. g \in [D -> R] /\ \A r \in R : \E n \in D : g[n] = r
    OBVIOUS
  <2> HIDE DEF g, D, R
  <2>2. g \in Surjection(D, R)
    BY <2>1 DEF Surjection
  <2>3. QED
    BY <1>1, <2>2, FS_Surjection DEF R
<1>9. IsFiniteSet(UsedUp(b, fills, side))
  BY <1>7, <1>8, FS_Subset
<1>10. QED
  BY <1>6, <1>9, FS_Union DEF AllOrders

(* An order on the book is the only one with its id. *)
LEMMA StandsAlone ==
  ASSUME NEW P, NEW b, Sound(b, P), NEW fills, NEW side,
         NEW s, NEW p, NEW o, At(b, s, p, o),
         NEW r \in AllOrders(b, fills, side), r.id = o.id
  PROVE  r = Was(fills, s, p, o.id, o.qty, o.ours)
<1>1. CASE r \in OnBook(b, fills)
  <2>1. PICK t, x, v : At(b, t, x, v) /\ r = Was(fills, t, x, v.id, v.qty, v.ours)
    BY <1>1, AllOnBook
  <2>2. v.id = o.id
    BY <2>1 DEF Was
  <2>3. QED
    BY <2>1, <2>2, AtOnce
<1>2. CASE r \in UsedUp(b, fills, side)
  <2>1. PICK n \in DOMAIN fills : /\ ~ Standing(b, fills[n].id)
           /\ r = Was(fills, side, fills[n].price, fills[n].id, 0, fills[n].ours)
    BY <1>2, AllUsedUp
  <2>2. fills[n].id = o.id
    BY <2>1 DEF Was
  <2>3. QED
    BY <2>1, <2>2 DEF Standing
<1>3. QED
  BY <1>1, <1>2 DEF AllOrders

(* A fill moves quantity from the book to the fills: the orders, with the fills *)
(* given back, stay what they were.                                             *)
LEMMA FillKeepsOrders ==
  ASSUME NEW b, Sound(b, Prices), NEW s \in Side, NEW p \in DOMAIN b[s],
         NEW front, front = b[s][p][1], NEW qty \in Nat, qty <= front.qty,
         NEW fills \in Seq(Fill), \A n \in DOMAIN fills : ~ Standing(b, fills[n].id),
         NEW f, f = [id |-> front.id, ours |-> front.ours, price |-> p, qty |-> qty]
  PROVE  /\ f \in Fill
         /\ AllOrders(FillFront(b, s, p, qty), Append(fills, f), s) = AllOrders(b, fills, s)
<1> DEFINE c == FillFront(b, s, p, qty)
           more == Append(fills, f)
           m == Len(fills) + 1
           left == Reduced(front, qty)
           R == Was(fills, s, p, front.id, front.qty, front.ours)
<1>1. At(b, s, p, front)
  BY FillAt
<1>2. /\ p \in Prices /\ front \in Order /\ front.id \in Nat /\ front.qty \in Nat
      /\ front.ours \in BOOLEAN
  BY <1>1, AtType
<1>3. f \in Fill /\ f.id = front.id /\ f.qty = qty /\ f.price = p /\ f.ours = front.ours
  BY <1>2 DEF Fill
<1>4. ASSUME NEW t, NEW x, NEW o
      PROVE  At(c, t, x, o) <=> \/ At(b, t, x, o) /\ o.id # front.id
                                \/ t = s /\ x = p /\ qty # front.qty /\ o = left
  BY FillAt
<1>5. left.id = front.id /\ left.qty = front.qty - qty /\ left.ours = front.ours
  BY <1>2 DEF Reduced, Order
<1>6. /\ DOMAIN more = DOMAIN fills \cup {m} /\ m \notin DOMAIN fills /\ more[m] = f
      /\ \A n \in DOMAIN fills : more[n] = fills[n]
  BY <1>3
<1>7. Standing(b, front.id)
  BY <1>1 DEF Standing
<1> HIDE DEF c, more, m, left
<1>8. /\ TakenIn(fills, front.id) = 0 /\ TakenIn(more, front.id) = qty
      /\ \A id : id # front.id => TakenIn(more, id) = TakenIn(fills, id)
  <2>1. TakenIn(fills, front.id) = 0
    BY <1>7, TakenNothing
  <2>2. ASSUME NEW id
        PROVE  TakenIn(more, id) = TakenIn(fills, id) + (IF f.id = id THEN f.qty ELSE 0)
    BY <1>3, TakenMore DEF more
  <2>3. \A id : TakenIn(fills, id) \in Nat
    BY FillsWeigh
  <2>4. QED
    BY <1>3, <2>1, <2>2, <2>3
<1>9. \A t, x, id, q, ours :
        id # front.id => Was(more, t, x, id, q, ours) = Was(fills, t, x, id, q, ours)
  BY <1>8 DEF Was
<1>10. Was(more, s, p, left.id, left.qty, left.ours) = R
  BY <1>2, <1>5, <1>8 DEF Was
<1>11. qty = front.qty => Was(more, s, p, front.id, 0, front.ours) = R
  BY <1>2, <1>8 DEF Was
<1> HIDE DEF R
<1>12. R \in OnBook(b, fills)
  BY <1>1, AllOnBook DEF R
<1>13. ASSUME NEW r \in OnBook(c, more) PROVE r \in OnBook(b, fills)
  <2>1. PICK t, x, o : At(c, t, x, o) /\ r = Was(more, t, x, o.id, o.qty, o.ours)
    BY AllOnBook
  <2>2. CASE At(b, t, x, o) /\ o.id # front.id
    BY <1>9, <2>1, <2>2, AllOnBook
  <2>3. CASE t = s /\ x = p /\ o = left
    BY <1>10, <1>12, <2>1, <2>3
  <2>4. QED
    BY <1>4, <2>1, <2>2, <2>3
<1>14. ASSUME NEW r \in UsedUp(c, more, s) PROVE r \in AllOrders(b, fills, s)
  <2>1. PICK n \in DOMAIN more :
          /\ ~ Standing(c, more[n].id)
          /\ r = Was(more, s, more[n].price, more[n].id, 0, more[n].ours)
    BY AllUsedUp
  <2>2. CASE n \in DOMAIN fills
    <3>1. more[n] = fills[n] /\ ~ Standing(b, fills[n].id) /\ fills[n].id # front.id
      BY <1>6, <1>7, <2>2
    <3>2. r = Was(fills, s, fills[n].price, fills[n].id, 0, fills[n].ours)
      BY <1>9, <2>1, <3>1
    <3>3. r \in UsedUp(b, fills, s)
      BY <2>2, <3>1, <3>2, AllUsedUp
    <3>4. QED
      BY <3>3 DEF AllOrders
  <2>3. CASE n = m
    <3>1. ~ Standing(c, front.id) /\ r = Was(more, s, p, front.id, 0, front.ours)
      BY <1>3, <1>6, <2>1, <2>3
    <3>2. qty = front.qty
      <4>1. qty # front.qty => At(c, s, p, left)
        BY <1>4
      <4>2. QED
        BY <1>5, <3>1, <4>1 DEF Standing
    <3>3. QED
      BY <1>11, <1>12, <3>1, <3>2 DEF AllOrders
  <2>4. QED
    BY <1>6, <2>2, <2>3
<1>15. R \in AllOrders(c, more, s)
  <2>1. CASE qty # front.qty
    <3>1. At(c, s, p, left)
      BY <1>4, <2>1
    <3>2. QED
      BY <1>10, <3>1, AllOnBook DEF AllOrders
  <2>2. CASE qty = front.qty
    <3>1. ~ Standing(c, front.id)
      BY <1>4, <2>2 DEF Standing
    <3>2. /\ m \in DOMAIN more
          /\ more[m].id = front.id /\ more[m].price = p /\ more[m].ours = front.ours
      BY <1>3, <1>6
    <3>3. R \in UsedUp(c, more, s)
      BY <1>11, <2>2, <3>1, <3>2, AllUsedUp
    <3>4. QED
      BY <3>3 DEF AllOrders
  <2>3. QED
    BY <2>1, <2>2
<1>16. ASSUME NEW r \in OnBook(b, fills) PROVE r \in AllOrders(c, more, s)
  <2>1. PICK t, x, o : At(b, t, x, o) /\ r = Was(fills, t, x, o.id, o.qty, o.ours)
    BY AllOnBook
  <2>2. CASE o.id # front.id
    <3>1. At(c, t, x, o) /\ r = Was(more, t, x, o.id, o.qty, o.ours)
      BY <1>4, <1>9, <2>1, <2>2
    <3>2. QED
      BY <3>1, AllOnBook DEF AllOrders
  <2>3. CASE o.id = front.id
    <3>1. t = s /\ x = p /\ o = front
      BY <1>1, <2>1, <2>3, AtOnce
    <3>2. QED
      BY <1>15, <2>1, <3>1 DEF R
  <2>4. QED
    BY <2>2, <2>3
<1>17. ASSUME NEW r \in UsedUp(b, fills, s) PROVE r \in AllOrders(c, more, s)
  <2>1. PICK n \in DOMAIN fills :
          /\ ~ Standing(b, fills[n].id)
          /\ r = Was(fills, s, fills[n].price, fills[n].id, 0, fills[n].ours)
    BY AllUsedUp
  <2>2. more[n] = fills[n] /\ n \in DOMAIN more /\ fills[n].id # front.id
    BY <1>6, <1>7, <2>1
  <2>3. ~ Standing(c, fills[n].id)
    BY <1>4, <1>5, <2>1, <2>2 DEF Standing
  <2>4. r = Was(more, s, more[n].price, more[n].id, 0, more[n].ours)
    BY <1>9, <2>1, <2>2
  <2>5. r \in UsedUp(c, more, s)
    BY <2>2, <2>3, <2>4, AllUsedUp
  <2>6. QED
    BY <2>5 DEF AllOrders
<1>18. AllOrders(c, more, s) = AllOrders(b, fills, s)
  BY <1>13, <1>14, <1>16, <1>17 DEF AllOrders
<1>19. QED
  BY <1>3, <1>18 DEF c, more

\* What the fills take from each order of a set.
PartOf(E, fills) == [o \in E |-> TakenIn(fills, o.id)]

LEMMA PartWeighs ==
  ASSUME NEW E, IsFiniteSet(E), NEW fills \in Seq(Fill)
  PROVE  /\ Weighs(PartOf(E, fills), E) /\ DOMAIN PartOf(E, fills) = E
         /\ SumFunctionOnSet(PartOf(E, fills), E) \in Nat
<1>1. Weighs(PartOf(E, fills), E)
  BY FillsWeigh DEF PartOf, Weighs
<1>2. QED
  BY <1>1, SumNat DEF PartOf

(* A call begins with nothing taken. *)
LEMMA NoFillsYet ==
  ASSUME NEW none, none = <<>>
  PROVE  /\ none \in Seq(Fill) /\ DOMAIN none = {} /\ \A id : TakenIn(none, id) = 0
         /\ \A s, p, id, ours : \A qty \in Nat :
              Was(none, s, p, id, qty, ours) =
                [id |-> id, side |-> s, price |-> p, qty |-> qty, ours |-> ours]
         /\ \A b, s : UsedUp(b, none, s) = {} /\ AllOrders(b, none, s) = OnBook(b, none)
         /\ \A E : IsFiniteSet(E) => SumFunctionOnSet(PartOf(E, none), E) = 0
<1>1. none \in Seq(Fill) /\ DOMAIN none = {}
  OBVIOUS
<1>2. \A id : TakenIn(none, id) = 0
  BY <1>1, TakenNothing
<1>3. ASSUME NEW E, IsFiniteSet(E) PROVE SumFunctionOnSet(PartOf(E, none), E) = 0
  <2>1. Weighs(PartOf(E, none), E)
    BY <1>1, <1>3, PartWeighs
  <2>2. \A x \in E : PartOf(E, none)[x] = 0
    BY <1>2 DEF PartOf
  <2>3. QED
    BY <2>1, <2>2, SumOfNothings
<1>4. \A b, s : UsedUp(b, none, s) = {} /\ AllOrders(b, none, s) = OnBook(b, none)
  BY <1>1 DEF UsedUp, AllOrders
<1>5. \A s, p, id, ours : \A qty \in Nat :
        Was(none, s, p, id, qty, ours) =
          [id |-> id, side |-> s, price |-> p, qty |-> qty, ours |-> ours]
  BY <1>2 DEF Was
<1>6. QED
  BY <1>1, <1>2, <1>3, <1>4, <1>5

(* One more fill adds to what is taken from its order, and to the sum. *)
LEMMA PartGrows ==
  ASSUME NEW E, IsFiniteSet(E), NEW fills \in Seq(Fill), NEW f \in Fill,
         NEW r \in E, r.id = f.id, \A u \in E : u.id = f.id => u = r
  PROVE  SumFunctionOnSet(PartOf(E, Append(fills, f)), E) =
           SumFunctionOnSet(PartOf(E, fills), E) + f.qty
<1> DEFINE w == PartOf(E, fills)
           v == PartOf(E, Append(fills, f))
<1>1. Weighs(w, E)
  BY PartWeighs
<1>2. \A id : TakenIn(Append(fills, f), id) =
                TakenIn(fills, id) + (IF f.id = id THEN f.qty ELSE 0)
  BY TakenMore
<1>3. f.qty \in Nat /\ \A id : TakenIn(fills, id) \in Nat
  BY FillsWeigh DEF Fill
<1>4. v[r] = w[r] + f.qty /\ \A u \in E \ {r} : v[u] = w[u]
  BY <1>2, <1>3 DEF PartOf
<1> HIDE DEF w, v
<1>5. SumFunctionOnSet(v, E) = SumFunctionOnSet(w, E) + f.qty
  BY <1>1, <1>3, <1>4, SumAdds
<1>6. QED
  BY <1>5 DEF w, v

(* Once the fills are taken from the eligible orders, the book is left. *)
LEMMA TradeLeavesTheBook ==
  ASSUME NEW b, Sound(b, Prices), NEW fills \in Seq(Fill), NEW side,
         NEW E \in SUBSET AllOrders(b, fills, side),
         \A r \in UsedUp(b, fills, side) : r \in E,
         \A s, p, o : At(b, s, p, o) /\ Was(fills, s, p, o.id, o.qty, o.ours) \notin E =>
           TakenIn(fills, o.id) = 0,
         NEW T, T = PartOf(E, fills), NEW none, none = <<>>
  PROVE  (AllOrders(b, fills, side) \ E) \cup
           {[o EXCEPT !.qty = @ - T[o]] : o \in {u \in E : T[u] < u.qty}} = OnBook(b, none)
<1> DEFINE traded == {[o EXCEPT !.qty = @ - T[o]] : o \in {u \in E : T[u] < u.qty}}
<1> HIDE DEF traded
<1>1. \A s, p, id, ours : \A qty \in Nat :
        Was(none, s, p, id, qty, ours) =
          [id |-> id, side |-> s, price |-> p, qty |-> qty, ours |-> ours]
  BY NoFillsYet
<1>2. \A id : TakenIn(fills, id) \in Nat
  BY FillsWeigh
<1>3. ASSUME NEW s, NEW p, NEW o, At(b, s, p, o), Was(fills, s, p, o.id, o.qty, o.ours) \notin E
      PROVE  Was(fills, s, p, o.id, o.qty, o.ours) = Was(none, s, p, o.id, o.qty, o.ours)
  <2>1. o.qty \in Nat
    BY <1>3, AtType
  <2>2. TakenIn(fills, o.id) = 0 /\ TakenIn(none, o.id) = 0
    BY <1>3, NoFillsYet
  <2>3. QED
    BY <2>1, <2>2 DEF Was
<1>4. ASSUME NEW s, NEW p, NEW o, At(b, s, p, o), NEW r \in E,
             r = Was(fills, s, p, o.id, o.qty, o.ours)
      PROVE  /\ T[r] < r.qty
             /\ [r EXCEPT !.qty = @ - T[r]] = Was(none, s, p, o.id, o.qty, o.ours)
  <2>1. o.qty \in Nat /\ o.qty > 0
    BY <1>4, AtType
  <2>2. r.id = o.id /\ r.qty = o.qty + TakenIn(fills, o.id)
    BY <1>4 DEF Was
  <2>3. T[r] = TakenIn(fills, o.id)
    BY <2>2 DEF PartOf
  <2>4. T[r] < r.qty /\ r.qty - T[r] = o.qty
    BY <1>2, <2>1, <2>2, <2>3
  <2>5. [r EXCEPT !.qty = @ - T[r]] =
          [id |-> o.id, side |-> s, price |-> p, qty |-> r.qty - T[r], ours |-> o.ours]
    BY <1>4 DEF Was
  <2>6. QED
    BY <1>1, <2>1, <2>4, <2>5
<1>5. ASSUME NEW r \in UsedUp(b, fills, side) PROVE r \in E /\ ~ (T[r] < r.qty)
  <2>1. PICK n \in DOMAIN fills :
          r = Was(fills, side, fills[n].price, fills[n].id, 0, fills[n].ours)
    BY AllUsedUp
  <2>2. r.id = fills[n].id /\ r.qty = 0 + TakenIn(fills, fills[n].id)
    BY <2>1 DEF Was
  <2>3. r \in E /\ T[r] = TakenIn(fills, fills[n].id)
    BY <2>2 DEF PartOf
  <2>4. QED
    BY <1>2, <2>2, <2>3
<1>6. ASSUME NEW r \in AllOrders(b, fills, side) \ E PROVE r \in OnBook(b, none)
  <2>1. r \in OnBook(b, fills)
    BY <1>6 DEF AllOrders
  <2>2. PICK s, p, o : At(b, s, p, o) /\ r = Was(fills, s, p, o.id, o.qty, o.ours)
    BY <2>1, AllOnBook
  <2>3. r = Was(none, s, p, o.id, o.qty, o.ours)
    BY <1>3, <1>6, <2>2
  <2>4. QED
    BY <2>2, <2>3, AllOnBook
<1>7. ASSUME NEW u \in E, T[u] < u.qty PROVE [u EXCEPT !.qty = @ - T[u]] \in OnBook(b, none)
  <2>1. u \in OnBook(b, fills)
    BY <1>5, <1>7 DEF AllOrders
  <2>2. PICK s, p, o : At(b, s, p, o) /\ u = Was(fills, s, p, o.id, o.qty, o.ours)
    BY <2>1, AllOnBook
  <2>3. [u EXCEPT !.qty = @ - T[u]] = Was(none, s, p, o.id, o.qty, o.ours)
    BY <1>4, <1>7, <2>2
  <2>4. QED
    BY <2>2, <2>3, AllOnBook
<1>8. ASSUME NEW v \in OnBook(b, none) PROVE v \in (AllOrders(b, fills, side) \ E) \cup traded
  <2>1. PICK s, p, o : At(b, s, p, o) /\ v = Was(none, s, p, o.id, o.qty, o.ours)
    BY AllOnBook
  <2> DEFINE r == Was(fills, s, p, o.id, o.qty, o.ours)
  <2>2. r \in AllOrders(b, fills, side)
    BY <2>1, AllOnBook DEF AllOrders
  <2>3. /\ r \notin E => r = v
        /\ r \in E => T[r] < r.qty /\ [r EXCEPT !.qty = @ - T[r]] = v
    BY <1>3, <1>4, <2>1
  <2> HIDE DEF r
  <2>4. CASE r \notin E
    BY <2>2, <2>3, <2>4
  <2>5. CASE r \in E
    BY <2>3, <2>5 DEF traded
  <2>6. QED
    BY <2>4, <2>5
<1>9. \A v \in traded : v \in OnBook(b, none)
  BY <1>7 DEF traded
<1>10. (AllOrders(b, fills, side) \ E) \cup traded = OnBook(b, none)
  BY <1>6, <1>8, <1>9
<1>11. QED
  BY <1>10 DEF traded

-----------------------------------------------------------------------------
(* The invariant of a walk: the fills, given to the orders they were taken from, *)
(* are an allocation of what the call has traded so far, and each is of another  *)
(* order.                                                                        *)

Eligible == {o \in Orders : o.side = Opposing /\ Marketable(o.price)}

\* A fill of a call: at a price within the limit, of an older order; that order is
\* still on the book only if it is where it was, and the call has traded all it asked for.
FillInv(f) ==
  /\ Marketable(f.price)
  /\ taker.kind = "limit" => f.id < taker.id
  /\ \A s, p, o : At(book, s, p, o) /\ o.id = f.id =>
       s = Opposing /\ p = f.price /\ taker.left = 0

TakerInv ==
  /\ taker.qty \in Qtys /\ taker.left <= taker.qty
  /\ SumFunctionOnSet(PartOf(Eligible, Fills), Eligible) = taker.qty - taker.left
  /\ \A n \in DOMAIN taker.fills : FillInv(taker.fills[n])
  /\ \A n, m \in DOMAIN taker.fills : taker.fills[n].id = taker.fills[m].id => n = m

WalkInv == lastId <= MaxId /\ (taker # NoTaker => TakerInv)

LEMMA OrdersAre == Orders = AllOrders(book, Fills, Opposing) /\ Eligible \subseteq Orders
BY DEF Orders, AllOrders, Eligible

LEMMA FillsType == ASSUME TypeOK PROVE Fills \in Seq(Fill)
<1>1. CASE taker = NoTaker
  BY <1>1 DEF Fills
<1>2. CASE taker # NoTaker
  BY <1>2, TakerFacts DEF Fills
<1>3. QED
  BY <1>1, <1>2

LEMMA OrdersAreFinite == ASSUME BookInv PROVE IsFiniteSet(Orders) /\ IsFiniteSet(Eligible)
<1>1. Fills \in Seq(Fill) /\ lastId \in Nat /\ Sound(book, Prices) /\ IdsUpTo(book, lastId)
  BY FillsType DEF BookInv, TypeOK
<1>2. IsFiniteSet(Orders)
  BY <1>1, OrdersFinite, OrdersAre
<1>3. QED
  BY <1>2, OrdersAre, FS_Subset

(* A call starts with nothing taken. *)
LEMMA StartStep ==
  ASSUME BookInv, taker = NoTaker, book' = book, taker' # NoTaker,
         taker'.fills = <<>>, taker'.qty \in Qtys, taker'.left = taker'.qty,
         lastId' \in Nat, lastId <= lastId', lastId' <= MaxId
  PROVE  WalkInv' /\ Orders' = Orders
<1> DEFINE none == <<>>
           E == Eligible'
<1>1. Fills = none /\ Fills' = none
  BY DEF Fills
<1>2. lastId \in Nat /\ Sound(book, Prices) /\ IdsUpTo(book, lastId)
  BY DEF BookInv, TypeOK
<1>3. Orders = AllOrders(book, none, Opposing) /\ Orders' = AllOrders(book, none, Opposing')
  BY <1>1, OrdersAre DEF Orders, AllOrders
<1>4. E \subseteq Orders'
  BY DEF Eligible
<1>5. taker'.qty \in Nat /\ taker'.fills = none
  BY QtysAssumption
<1> HIDE DEF none, E
<1>6. /\ none \in Seq(Fill) /\ DOMAIN none = {}
      /\ \A b, s : AllOrders(b, none, s) = OnBook(b, none)
      /\ \A S : IsFiniteSet(S) => SumFunctionOnSet(PartOf(S, none), S) = 0
  BY NoFillsYet DEF none
<1>7. IsFiniteSet(Orders')
  BY <1>2, <1>3, <1>6, OrdersFinite
<1>8. SumFunctionOnSet(PartOf(E, none), E) = 0
  BY <1>4, <1>6, <1>7, FS_Subset
<1>9. TakerInv'
  BY <1>1, <1>5, <1>6, <1>8 DEF TakerInv, E
<1>10. QED
  BY <1>3, <1>6, <1>9 DEF WalkInv

(* A fill is a stutter of the abstract market, and extends the allocation. *)
LEMMA FillStep ==
  ASSUME BookInv, WalkInv, FillBest
  PROVE  WalkInv' /\ Orders' = Orders
<1>1. PICK p \in DOMAIN book[Opposing] : Marketable(p) /\ TradeAt(p)
  BY DEF FillBest
<1> DEFINE s == Opposing
           front == book[s][p][1]
           qty == Traded(front)
           f == [id |-> front.id, ours |-> front.ours, price |-> p, qty |-> qty]
           fills == taker.fills
           more == Append(fills, f)
           m == Len(fills) + 1
           E == Eligible
           R == Was(fills, s, p, front.id, front.qty, front.ours)
<1>2. /\ taker # NoTaker /\ taker.left \in Nat /\ taker.left > 0 /\ fills \in Seq(Fill)
      /\ s \in Side /\ taker.side \in Side /\ TypeOK /\ Sound(book, Prices) /\ TakerInv
      /\ taker \in LimitTaker \cup MarketTaker /\ taker.qty \in Nat /\ Fills = fills
  BY TakerFacts, QtysAssumption DEF FillBest, BookInv, WalkInv, TakerInv, Fills
<1>3. /\ p \in Prices /\ front \in Order /\ qty \in Nat /\ qty <= front.qty /\ qty <= taker.left
      /\ book' = FillFront(book, s, p, qty)
  BY <1>1, <1>2, TradeAtFacts
<1>4. /\ front.id \in Nat /\ front.qty \in Nat /\ front.ours \in BOOLEAN
  BY <1>3 DEF Order
<1>5. /\ taker'.left = taker.left - qty /\ taker'.fills = more /\ taker' # NoTaker
      /\ taker'.qty = taker.qty /\ taker'.side = taker.side /\ taker'.kind = taker.kind
      /\ taker.kind = "limit" => taker'.price = taker.price /\ taker'.id = taker.id
      /\ lastId' = lastId
  <2>1. taker' = [taker EXCEPT !.left = @ - qty, !.fills = Append(@, f)] /\ lastId' = lastId
    BY <1>1 DEF TradeAt
  <2> HIDE DEF f, front, qty
  <2>2. CASE taker \in LimitTaker
    BY <2>1, <2>2 DEF LimitTaker, NoTaker
  <2>3. CASE taker \in MarketTaker
    BY <2>1, <2>3 DEF MarketTaker, NoTaker
  <2>4. QED
    BY <1>2, <2>2, <2>3
<1>6. Opposing' = s /\ Fills' = more /\ \A x : Marketable(x)' <=> Marketable(x)
  BY <1>5 DEF Opposing, Fills, Marketable
<1>7. \A n \in DOMAIN fills : ~ Standing(book, fills[n].id)
  BY <1>2 DEF TakerInv, FillInv, Standing
<1>8. At(book, s, p, front) /\ p \in DOMAIN book[s] /\ front = book[s][p][1]
  BY <1>2, <1>3, FillAt
<1>9. ASSUME NEW t, NEW x, NEW o
      PROVE  At(book', t, x, o) <=>
               \/ At(book, t, x, o) /\ o.id # front.id
               \/ t = s /\ x = p /\ qty # front.qty /\ o = Reduced(front, qty)
  BY <1>2, <1>3, FillAt
<1>10. Reduced(front, qty).id = front.id
  BY <1>3 DEF Reduced, Order
<1>11. f.id = front.id /\ f.price = p /\ f.qty = qty
  OBVIOUS
<1>12. f \in Fill /\ AllOrders(book', more, s) = AllOrders(book, fills, s)
  <2>1. f = [id |-> front.id, ours |-> front.ours, price |-> p, qty |-> qty]
    OBVIOUS
  <2> HIDE DEF f, front, qty, s, fills
  <2>2. QED
    BY <1>2, <1>3, <1>7, <1>8, <2>1, FillKeepsOrders
<1> HIDE DEF s, qty, front, f, fills
<1>13. Orders' = Orders /\ E' = E
  <2>1. Orders = AllOrders(book, fills, s)
    BY <1>2, OrdersAre DEF s
  <2>2. Orders' = AllOrders(book', more, s)
    BY <1>6 DEF Orders, AllOrders
  <2>3. Orders' = Orders
    BY <1>12, <2>1, <2>2
  <2>4. QED
    BY <1>6, <2>3 DEF Eligible, s
<1>14. SumFunctionOnSet(PartOf(E, more), E) = SumFunctionOnSet(PartOf(E, fills), E) + qty
  <2>1. R \in AllOrders(book, fills, s) /\ R.id = f.id /\ R.side = s /\ R.price = p
    <3>1. R \in OnBook(book, fills)
      BY <1>8, AllOnBook
    <3>2. QED
      BY <1>11, <3>1 DEF Was, AllOrders
  <2>2. R \in E
    BY <1>1, <1>2, <2>1, OrdersAre DEF Eligible, s
  <2>3. ASSUME NEW u \in E, u.id = f.id PROVE u = R
    <3>1. u \in AllOrders(book, fills, s) /\ u.id = front.id
      BY <1>2, <1>11, <2>3, OrdersAre DEF s
    <3>2. QED
      BY <1>2, <1>8, <3>1, StandsAlone
  <2>4. IsFiniteSet(E)
    BY OrdersAreFinite
  <2> HIDE DEF E, R
  <2>5. SumFunctionOnSet(PartOf(E, Append(fills, f)), E) =
          SumFunctionOnSet(PartOf(E, fills), E) + f.qty
    BY <1>2, <1>12, <2>1, <2>2, <2>3, <2>4, PartGrows
  <2>6. QED
    BY <1>11, <2>5
<1>15. SumFunctionOnSet(PartOf(E', Fills'), E') = taker'.qty - taker'.left
  <2>1. SumFunctionOnSet(PartOf(E, fills), E) = taker.qty - taker.left
    BY <1>2 DEF TakerInv
  <2> HIDE DEF E, more
  <2>2. QED
    BY <1>2, <1>3, <1>5, <1>6, <1>13, <1>14, <2>1
<1>16. ASSUME NEW n \in DOMAIN more, NEW g, g = more[n]
       PROVE  /\ Marketable(g.price) /\ (taker.kind = "limit" => g.id < taker.id)
              /\ \A t, x, o : At(book', t, x, o) /\ o.id = g.id =>
                   t = s /\ x = g.price /\ taker'.left = 0
  <2>1. /\ DOMAIN more = DOMAIN fills \cup {m} /\ more[m] = f
        /\ \A k \in DOMAIN fills : more[k] = fills[k]
    BY <1>2, <1>12
  <2>2. CASE n \in DOMAIN fills
    <3>1. FillInv(g) /\ g = fills[n]
      BY <1>2, <1>16, <2>1, <2>2 DEF TakerInv, fills
    <3>2. g.id # front.id
      BY <1>7, <1>8, <2>2, <3>1 DEF Standing
    <3>3. \A t, x, o : At(book', t, x, o) /\ o.id = g.id => At(book, t, x, o)
      BY <1>9, <1>10, <3>2
    <3>4. QED
      BY <1>7, <2>2, <3>1, <3>3 DEF FillInv, Standing
  <2>3. CASE n = m
    <3>1. g = f
      BY <1>16, <2>1, <2>3
    <3>2. taker.kind = "limit" => front.id < taker.id
      <4>1. taker.kind = "limit" =>
              taker.id \in 1 .. lastId /\ IdsUpTo(book, taker.id - 1) /\ lastId \in Nat
        BY <1>2 DEF BookInv, TypeOK
      <4>2. taker.kind = "limit" => front.id \in 1 .. taker.id - 1
        BY <1>8, <4>1 DEF IdsUpTo, At
      <4>3. QED
        BY <1>4, <4>1, <4>2
    <3>3. ASSUME NEW t, NEW x, NEW o, At(book', t, x, o), o.id = front.id
          PROVE  t = s /\ x = p /\ taker'.left = 0
      <4>1. t = s /\ x = p /\ qty # front.qty
        BY <1>9, <3>3
      <4>2. qty = taker.left
        BY <4>1 DEF qty, Traded
      <4>3. QED
        BY <1>2, <1>5, <4>1, <4>2
    <3>4. QED
      BY <1>1, <1>11, <3>1, <3>2, <3>3
  <2>4. QED
    BY <2>1, <2>2, <2>3
<1>17. \A n \in DOMAIN taker'.fills : FillInv(taker.fills[n])'
  <2> SUFFICES ASSUME NEW n \in DOMAIN taker'.fills PROVE FillInv(taker.fills[n])'
    OBVIOUS
  <2> DEFINE g == taker'.fills[n]
  <2>1. g = more[n] /\ n \in DOMAIN more
    BY <1>5
  <2> HIDE DEF g, more
  <2>2. /\ Marketable(g.price) /\ (taker.kind = "limit" => g.id < taker.id)
        /\ \A t, x, o : At(book', t, x, o) /\ o.id = g.id =>
             t = s /\ x = g.price /\ taker'.left = 0
    BY <1>16, <2>1
  <2>3. taker'.kind = "limit" => Crosses(taker'.side, taker'.price, g.price)
    BY <1>5, <2>2 DEF Marketable
  <2>4. taker'.kind = "limit" => g.id < taker'.id
    BY <1>5, <2>2
  <2>5. \A t, x, o : At(book', t, x, o) /\ o.id = g.id =>
          t = Opposing' /\ x = g.price /\ taker'.left = 0
    BY <1>6, <2>2
  <2>6. QED
    BY <2>3, <2>4, <2>5 DEF FillInv, Marketable, g
<1>18. lastId' <= MaxId /\ taker'.qty \in Qtys /\ taker'.left <= taker'.qty
  BY <1>2, <1>3, <1>5 DEF WalkInv, TakerInv
<1>19. \A n, k \in DOMAIN more : more[n].id = more[k].id => n = k
  <2>1. /\ DOMAIN more = DOMAIN fills \cup {m} /\ more[m] = f
        /\ \A k \in DOMAIN fills : more[k] = fills[k]
    BY <1>2, <1>12
  <2>2. \A k \in DOMAIN fills : fills[k].id # front.id
    BY <1>7, <1>8 DEF Standing
  <2>3. \A n, k \in DOMAIN fills : fills[n].id = fills[k].id => n = k
    BY <1>2 DEF TakerInv, fills
  <2> HIDE DEF more, m
  <2>4. QED
    BY <1>11, <2>1, <2>2, <2>3
<1>20. QED
  BY <1>5, <1>13, <1>15, <1>17, <1>18, <1>19 DEF WalkInv, TakerInv

(* An eligible order is on the opposing side of the book, or used up. *)
LEMMA EligibleAre ==
  ASSUME BookInv, taker # NoTaker, NEW r \in Eligible
  PROVE  /\ r.side = Opposing /\ r.id \in Nat
         /\ TakenIn(Fills, r.id) \in Nat /\ TakenIn(Fills, r.id) <= r.qty
         /\ \/ /\ TakenIn(Fills, r.id) = r.qty
               /\ \E n \in DOMAIN taker.fills :
                    taker.fills[n].id = r.id /\ taker.fills[n].price = r.price
            \/ \E o : /\ At(book, Opposing, r.price, o) /\ o.id = r.id
                      /\ Marketable(r.price)
<1>1. /\ Fills = taker.fills /\ Fills \in Seq(Fill) /\ Sound(book, Prices)
      /\ \A id : TakenIn(Fills, id) \in Nat
  BY FillsType, FillsWeigh DEF BookInv, Fills
<1>2. r \in AllOrders(book, Fills, Opposing) /\ r.side = Opposing /\ Marketable(r.price)
  BY OrdersAre DEF Eligible
<1>3. CASE r \in OnBook(book, Fills)
  <2>1. PICK s, p, o : At(book, s, p, o) /\ r = Was(Fills, s, p, o.id, o.qty, o.ours)
    BY <1>3, AllOnBook
  <2>2. s = r.side /\ p = r.price /\ o.id = r.id /\ r.qty = o.qty + TakenIn(Fills, o.id)
    BY <2>1 DEF Was
  <2>3. o.id \in Nat /\ o.qty \in Nat
    BY <1>1, <2>1, AtType
  <2>4. At(book, Opposing, r.price, o) /\ o.id = r.id
    BY <1>2, <2>1, <2>2
  <2>5. r.id \in Nat /\ TakenIn(Fills, r.id) \in Nat /\ TakenIn(Fills, r.id) <= r.qty
    BY <1>1, <2>2, <2>3
  <2>6. QED
    BY <1>2, <2>4, <2>5
<1>4. CASE r \in UsedUp(book, Fills, Opposing)
  <2>1. PICK n \in DOMAIN Fills :
          r = Was(Fills, Opposing, Fills[n].price, Fills[n].id, 0, Fills[n].ours)
    BY <1>4, AllUsedUp
  <2>2. /\ r.price = Fills[n].price /\ r.id = Fills[n].id
        /\ r.qty = 0 + TakenIn(Fills, Fills[n].id)
    BY <2>1 DEF Was
  <2>3. Fills[n] \in Fill
    BY <1>1
  <2>4. r.id \in Nat
    BY <2>2, <2>3 DEF Fill
  <2>5. QED
    BY <1>1, <1>2, <2>2, <2>4
<1>5. QED
  BY <1>2, <1>3, <1>4 DEF AllOrders

(* No order has traded while something is left of one ahead of it. *)
LEMMA TakenInOrder ==
  ASSUME BookInv, WalkInv, NoTradeThrough, taker # NoTaker,
         NEW o \in Eligible, NEW u \in Eligible, Abstract!Ahead(o, u), TakenIn(Fills, u.id) > 0
  PROVE  TakenIn(Fills, o.id) = o.qty
<1>1. TakerInv /\ Fills = taker.fills /\ Sound(book, Prices) /\ Opposing \in Side
  BY TakerFacts DEF WalkInv, BookInv, Fills
<1>2. PICK n \in DOMAIN taker.fills : taker.fills[n].id = u.id /\ taker.fills[n].price = u.price
  <2>1. CASE \E v : At(book, Opposing, u.price, v) /\ v.id = u.id
    <3>1. PICK v : At(book, Opposing, u.price, v) /\ v.id = u.id
      BY <2>1
    <3>2. PICK n \in DOMAIN taker.fills : taker.fills[n].id = u.id
      <4>1. TakenIn(Fills, u.id) # 0
        BY EligibleAre
      <4>2. QED
        BY <1>1, <4>1, TakenNothing
    <3>3. u.price = taker.fills[n].price
      BY <1>1, <3>1, <3>2 DEF TakerInv, FillInv
    <3>4. QED
      BY <3>2, <3>3
  <2>2. QED
    BY <2>1, EligibleAre
<1> DEFINE f == taker.fills[n]
           p == o.price
<1>3. o.side = Opposing /\ o.id \in Nat /\ u.id \in Nat
  BY EligibleAre
<1>4. SUFFICES ASSUME NEW v, At(book, Opposing, p, v), v.id = o.id PROVE FALSE
  BY EligibleAre
<1>5. PICK i \in DOMAIN book[Opposing][p] : book[Opposing][p][i] = v
  BY <1>4 DEF At
<1>6. ~ Improves(Opposing, p, f.price) /\ (p = f.price => v.id >= f.id)
  BY <1>4, <1>5 DEF NoTradeThrough, At
<1>7. CASE p = u.price /\ o.id < u.id
  BY <1>2, <1>3, <1>4, <1>6, <1>7
<1>8. CASE IF o.side = "Bid" THEN o.price > u.price ELSE o.price < u.price
  BY <1>2, <1>3, <1>6, <1>8 DEF Improves
<1>9. QED
  BY <1>7, <1>8 DEF Abstract!Ahead

LEMMA AbstractSum ==
  ASSUME NEW t
  PROVE  Abstract!SumFunction(t) = SumFunctionOnSet(t, DOMAIN t)
BY DEF Abstract!SumFunction, Abstract!SumFunctionOnSet, Abstract!FoldFunctionOnSet,
       Abstract!MapThenFoldSet, SumFunctionOnSet, FoldFunctionOnSet, MapThenFoldSet

(* When the call returns, its fills are an allocation by price-time priority. *)
LEMMA FillsAllocate ==
  ASSUME BookInv, WalkInv, NoTradeThrough, Return
  PROVE  /\ PartOf(Eligible, Fills) \in Abstract!Allocations(Eligible, taker.qty)
         /\ Abstract!SumFunction(PartOf(Eligible, Fills)) = taker.qty - taker.left
<1> DEFINE E == Eligible
           t == PartOf(E, Fills)
           q == taker.qty
           sum == SumFunctionOnSet(t, E)
<1>1. /\ taker # NoTaker /\ TakerInv /\ Fills \in Seq(Fill) /\ IsFiniteSet(E)
      /\ taker.left \in Nat /\ q \in Nat /\ taker.left <= q /\ sum = q - taker.left
  BY TakerFacts, FillsType, OrdersAreFinite, QtysAssumption
  DEF Return, WalkInv, TakerInv, BookInv
<1>2. \A o \in E : t[o] = TakenIn(Fills, o.id)
  BY DEF PartOf
<1>3. DOMAIN t = E /\ t = [o \in E |-> t[o]] /\ Weighs(t, E)
  BY <1>1, PartWeighs DEF PartOf
<1>4. \A o \in E : t[o] \in Nat /\ t[o] <= o.qty
  BY <1>1, <1>2, EligibleAre
<1>5. \A o, u \in E : Abstract!Ahead(o, u) /\ t[u] > 0 => t[o] = o.qty
  BY <1>1, <1>2, TakenInOrder
<1>6. ASSUME NEW o \in E, taker.left # 0 PROVE t[o] = o.qty
  <2>1. \A p \in DOMAIN book[Opposing] : ~ Marketable(p)
    BY <1>6 DEF Return, WalkIsOver
  <2>2. ~ \E v : At(book, Opposing, o.price, v) /\ v.id = o.id /\ Marketable(o.price)
    BY <2>1 DEF At
  <2>3. QED
    BY <1>1, <1>2, <2>2, EligibleAre
<1> HIDE DEF t, E
<1>7. ASSUME NEW o \in E PROVE t[o] <= q
  <2>1. sum = t[o] + SumFunctionOnSet(t, E \ {o}) /\ Weighs(t, E \ {o})
    BY <1>3, SumWith
  <2>2. SumFunctionOnSet(t, E \ {o}) \in Nat
    BY <2>1, SumNat
  <2>3. QED
    BY <1>1, <1>4, <2>1, <2>2
<1>8. t \in [E -> 0 .. q]
  BY <1>1, <1>3, <1>4, <1>7
<1>9. Abstract!SumFunction(t) = sum
  BY <1>3, AbstractSum
<1> HIDE DEF sum, q
<1>10. /\ Abstract!SumFunction(t) <= q
       /\ Abstract!SumFunction(t) < q => \A o \in E : t[o] = o.qty
  BY <1>1, <1>6, <1>9
<1>11. t \in Abstract!Allocations(E, q)
  BY <1>4, <1>5, <1>8, <1>10 DEF Abstract!Allocations
<1>12. QED
  BY <1>1, <1>9, <1>11 DEF t, E, q

(* When the call returns, the eligible orders have traded, and nothing else has. *)
LEMMA ReturnTrades ==
  ASSUME BookInv, WalkInv, Return, NEW none, none = <<>>
  PROVE  Abstract!Trade(Eligible, PartOf(Eligible, Fills)) = OnBook(book, none)
<1> DEFINE E == Eligible
           T == PartOf(E, Fills)
<1>1. /\ taker # NoTaker /\ TakerInv /\ Fills \in Seq(Fill) /\ Sound(book, Prices)
      /\ Fills = taker.fills
  BY FillsType DEF Return, WalkInv, BookInv, Fills
<1>2. Orders = AllOrders(book, Fills, Opposing) /\ E \in SUBSET AllOrders(book, Fills, Opposing)
  BY OrdersAre
<1>3. ASSUME NEW r \in UsedUp(book, Fills, Opposing) PROVE r \in E
  <2>1. PICK n \in DOMAIN Fills :
          r = Was(Fills, Opposing, Fills[n].price, Fills[n].id, 0, Fills[n].ours)
    BY AllUsedUp
  <2>2. r.side = Opposing /\ r.price = Fills[n].price
    BY <2>1 DEF Was
  <2>3. Marketable(r.price)
    BY <1>1, <2>2 DEF TakerInv, FillInv
  <2>4. QED
    BY <1>2, <2>2, <2>3 DEF AllOrders, Eligible
<1>4. ASSUME NEW s, NEW p, NEW o, At(book, s, p, o),
             Was(Fills, s, p, o.id, o.qty, o.ours) \notin E
      PROVE  TakenIn(Fills, o.id) = 0
  <2>1. SUFFICES ASSUME NEW n \in DOMAIN Fills, Fills[n].id = o.id PROVE FALSE
    BY TakenNothing
  <2>2. s = Opposing /\ p = Fills[n].price /\ Marketable(p)
    BY <1>1, <1>4, <2>1 DEF TakerInv, FillInv
  <2> DEFINE r == Was(Fills, s, p, o.id, o.qty, o.ours)
  <2>3. r.side = s /\ r.price = p
    BY DEF Was
  <2>4. r \in Orders
    BY <1>2, <1>4, AllOnBook DEF AllOrders
  <2> HIDE DEF r
  <2>5. r \in E
    BY <2>2, <2>3, <2>4 DEF Eligible
  <2>6. QED
    BY <1>4, <2>5 DEF r
<1>5. T = PartOf(E, Fills)
  OBVIOUS
<1> HIDE DEF E, T
<1>6. (Orders \ E) \cup {[o EXCEPT !.qty = @ - T[o]] : o \in {u \in E : T[u] < u.qty}}
        = OnBook(book, none)
  BY <1>1, <1>2, <1>3, <1>4, <1>5, TradeLeavesTheBook
<1>7. QED
  BY <1>6 DEF Abstract!Trade, E, T

(* What is left of the order rests behind all others, as the market prescribes. *)
LEMMA ReturnRests ==
  ASSUME BookInv, Return, NEW none, none = <<>>
  PROVE  OnBook(book', none) = OnBook(book, none) \cup
           (IF Rests THEN {[id |-> taker.id, side |-> taker.side, price |-> taker.price,
                            qty |-> taker.left, ours |-> taker.ours]} ELSE {})
<1>1. CASE ~ Rests
  BY <1>1 DEF Return
<1>2. CASE Rests
  <2> DEFINE o == [id |-> taker.id, qty |-> taker.left, ours |-> taker.ours]
             s == taker.side
             p == taker.price
             new == [id |-> taker.id, side |-> s, price |-> p, qty |-> taker.left,
                     ours |-> taker.ours]
  <2>1. /\ s \in Side /\ p \in Prices /\ taker.left \in Nat /\ o \in Order /\ IsBook(book, Prices)
    BY <1>2, TakerFacts DEF Return, Rests, BookInv, TypeOK, Order
  <2>2. book' = RestOrder(book, s, p, o)
    BY <1>2 DEF Return
  <2>3. Was(none, s, p, o.id, o.qty, o.ours) = new
    BY <2>1, NoFillsYet
  <2> HIDE DEF o, s, p, new
  <2>4. ASSUME NEW t, NEW x, NEW u
        PROVE  At(book', t, x, u) <=> At(book, t, x, u) \/ (t = s /\ x = p /\ u = o)
    BY <2>1, <2>2, RestAt
  <2>5. ASSUME NEW r PROVE r \in OnBook(book', none) <=> r \in OnBook(book, none) \/ r = new
    <3>1. ASSUME r \in OnBook(book', none) PROVE r \in OnBook(book, none) \/ r = new
      <4>1. PICK t, x, u : At(book', t, x, u) /\ r = Was(none, t, x, u.id, u.qty, u.ours)
        BY <3>1, AllOnBook
      <4>2. CASE At(book, t, x, u)
        BY <4>1, <4>2, AllOnBook
      <4>3. CASE t = s /\ x = p /\ u = o
        BY <2>3, <4>1, <4>3
      <4>4. QED
        BY <2>4, <4>1, <4>2, <4>3
    <3>2. ASSUME r \in OnBook(book, none) PROVE r \in OnBook(book', none)
      <4>1. PICK t, x, u : At(book, t, x, u) /\ r = Was(none, t, x, u.id, u.qty, u.ours)
        BY <3>2, AllOnBook
      <4>2. At(book', t, x, u)
        BY <2>4, <4>1
      <4>3. QED
        BY <4>1, <4>2, AllOnBook
    <3>3. new \in OnBook(book', none)
      <4>1. At(book', s, p, o)
        BY <2>4
      <4>2. QED
        BY <2>3, <4>1, AllOnBook
    <3>4. QED
      BY <3>1, <3>2, <3>3
  <2>6. OnBook(book', none) = OnBook(book, none) \cup {new}
    BY <2>5
  <2>7. QED
    BY <1>2, <2>6 DEF new, s, p
<1>3. QED
  BY <1>1, <1>2

(* Every order is of one side, and older than a limit order on its way. *)
LEMMA OrdersOfSides ==
  ASSUME BookInv, WalkInv, taker # NoTaker, NEW r \in Orders
  PROVE  r.side \in Side /\ (taker.kind = "limit" => r.id < taker.id)
<1>1. /\ Fills = taker.fills /\ Opposing \in Side /\ TakerInv /\ Sound(book, Prices)
      /\ taker.kind = "limit" => IdsUpTo(book, taker.id - 1) /\ taker.id \in Nat
  BY TakerFacts DEF WalkInv, BookInv, Fills
<1>2. CASE r \in OnBook(book, Fills)
  <2>1. PICK s, p, o : At(book, s, p, o) /\ r = Was(Fills, s, p, o.id, o.qty, o.ours)
    BY <1>2, AllOnBook
  <2>2. r.side = s /\ r.id = o.id
    BY <2>1 DEF Was
  <2>3. s \in Side /\ o.id \in Nat
    BY <1>1, <2>1, AtType
  <2>4. taker.kind = "limit" => o.id \in 1 .. taker.id - 1
    BY <1>1, <2>1 DEF At, IdsUpTo
  <2>5. QED
    BY <1>1, <2>2, <2>3, <2>4
<1>3. CASE r \in UsedUp(book, Fills, Opposing)
  <2>1. PICK n \in DOMAIN Fills :
          r = Was(Fills, Opposing, Fills[n].price, Fills[n].id, 0, Fills[n].ours)
    BY <1>3, AllUsedUp
  <2>2. r.side = Opposing /\ r.id = Fills[n].id
    BY <2>1 DEF Was
  <2>3. taker.kind = "limit" => Fills[n].id < taker.id
    BY <1>1 DEF TakerInv, FillInv
  <2>4. QED
    BY <1>1, <2>2, <2>3
<1>4. QED
  BY <1>2, <1>3, OrdersAre DEF AllOrders

(* A call takes effect, as the market prescribes, when it returns. *)
LEMMA ReturnStep ==
  ASSUME BookInv, WalkInv, NoTradeThrough, Return
  PROVE  WalkInv' /\ Abstract!Next
<1> DEFINE none == <<>>
           E == Eligible
           T == PartOf(E, Fills)
           q == taker.qty
           s == taker.side
           rest == q - Abstract!SumFunction(T)
<1>1. /\ taker # NoTaker /\ TakerInv /\ taker' = NoTaker /\ lastId' = lastId
      /\ s \in Side /\ Opposing \in Side /\ Opposing # s
      /\ taker.left \in Nat /\ q \in Nat /\ q \in Qtys /\ taker.left <= q
      /\ taker \in LimitTaker \cup MarketTaker
  BY TakerFacts, QtysAssumption DEF Return, WalkInv, TakerInv, BookInv
<1>2. WalkInv'
  BY <1>1 DEF WalkInv
<1>3. T \in Abstract!Allocations(E, q) /\ Abstract!SumFunction(T) = q - taker.left
  BY FillsAllocate
<1>4. Abstract!Trade(E, T) = OnBook(book, none)
  BY ReturnTrades
<1>5. Orders' = OnBook(book', none)
  <2>1. Orders' = AllOrders(book', none, Opposing')
    BY <1>1 DEF Orders, AllOrders, Fills
  <2>2. QED
    BY <2>1, NoFillsYet
<1>6. OnBook(book', none) = OnBook(book, none) \cup
        (IF Rests THEN {[id |-> taker.id, side |-> s, price |-> taker.price,
                         qty |-> taker.left, ours |-> taker.ours]} ELSE {})
  BY ReturnRests
<1>7. rest = taker.left
  BY <1>1, <1>3
<1>8. \A r \in Orders : r.side # s <=> r.side = Opposing
  <2>1. \A r \in Orders : r.side \in Side
    BY <1>1, OrdersOfSides
  <2>2. QED
    BY <1>1, <2>1 DEF Side
<1> HIDE DEF none, T
<1>9. CASE taker.kind = "market"
  <2>1. E = {o \in Orders : o.side # s}
    BY <1>8, <1>9 DEF Eligible, Marketable
  <2>2. Orders' = Abstract!Trade(E, T)
    BY <1>4, <1>5, <1>6, <1>9 DEF Rests
  <2> HIDE DEF E, q, s
  <2>3. Abstract!Market(s, q)
    BY <1>3, <2>1, <2>2 DEF Abstract!Market
  <2>4. QED
    BY <1>1, <1>2, <2>3 DEF Abstract!Next, Abstract!Sides, Side
<1>10. CASE taker.kind = "limit"
  <2> DEFINE p == taker.price
             new == [id |-> taker.id, side |-> s, price |-> p, qty |-> rest, ours |-> taker.ours]
  <2>1. /\ taker.id \in 1 .. MaxId /\ p \in Prices /\ taker.ours \in BOOLEAN
    <3>1. taker.id \in 1 .. lastId /\ lastId \in Nat /\ lastId <= MaxId
      BY <1>1, <1>10 DEF BookInv, TypeOK, WalkInv
    <3>2. taker.id \in 1 .. MaxId
      BY <3>1, MaxIdAssumption
    <3>3. QED
      BY <1>1, <1>10, <3>2, TakerFacts DEF BookInv
  <2>2. E = {o \in Orders : o.side # s /\ (IF s = "Bid" THEN o.price <= p ELSE o.price >= p)}
    <3>1. \A x : Marketable(x) <=> (IF s = "Bid" THEN x <= p ELSE x >= p)
      BY <1>10 DEF Marketable, Crosses
    <3>2. QED
      BY <1>8, <3>1 DEF Eligible
  <2>3. Orders' = Abstract!Trade(E, T) \cup (IF Abstract!SumFunction(T) < q THEN {new} ELSE {})
    <3>1. Rests <=> Abstract!SumFunction(T) < q
      BY <1>1, <1>3, <1>10 DEF Rests
    <3>2. QED
      BY <1>4, <1>5, <1>6, <1>7, <3>1
  <2>4. \A o \in Orders : o.id < taker.id
    BY <1>1, <1>10, OrdersOfSides
  <2> HIDE DEF E, q, s, p
  <2>5. Abstract!Limit(taker.id, s, p, q, taker.ours)
    BY <1>3, <2>2, <2>3, <2>4 DEF Abstract!Limit
  <2>6. QED
    BY <1>1, <1>2, <2>1, <2>5 DEF Abstract!Next, Abstract!Sides, Side
<1>11. QED
  BY <1>1, <1>9, <1>10 DEF LimitTaker, MarketTaker

(* A cancel takes the order with the id out of the market, if it finds it. *)
LEMMA CancelStep ==
  ASSUME BookInv, WalkInv, NEW s \in Side, NEW p \in Prices, NEW id \in 1 .. MaxId,
         Cancel(s, p, id)
  PROVE  WalkInv' /\ (Abstract!Next \/ Orders' = Orders)
<1> DEFINE none == <<>>
<1>1. /\ taker = NoTaker /\ taker' = NoTaker /\ lastId' = lastId /\ Sound(book, Prices)
      /\ book' = CancelOrder(book, s, p, id)
  BY DEF Cancel, BookInv
<1>2. WalkInv'
  BY <1>1 DEF WalkInv
<1>3. Orders = OnBook(book, none) /\ Orders' = OnBook(book', none)
  <2>1. /\ Orders = AllOrders(book, none, Opposing)
        /\ Orders' = AllOrders(book', none, Opposing')
    BY <1>1 DEF Orders, AllOrders, Fills
  <2>2. QED
    BY <2>1, NoFillsYet
<1> HIDE DEF none
<1>4. CASE ~ HasOrder(book, s, p, id)
  BY <1>1, <1>2, <1>3, <1>4 DEF CancelOrder
<1>5. CASE HasOrder(book, s, p, id)
  <2>1. ASSUME NEW t, NEW x, NEW o
        PROVE  At(book', t, x, o) <=> At(book, t, x, o) /\ o.id # id
    BY <1>1, <1>5, CancelAt
  <2>2. \A t, x, o : Was(none, t, x, o.id, o.qty, o.ours).id = o.id
    BY DEF Was
  <2>3. ASSUME NEW r \in OnBook(book', none) PROVE r \in OnBook(book, none) /\ r.id # id
    <3>1. PICK t, x, o : At(book', t, x, o) /\ r = Was(none, t, x, o.id, o.qty, o.ours)
      BY AllOnBook
    <3>2. QED
      BY <2>1, <2>2, <3>1, AllOnBook
  <2>4. ASSUME NEW r \in OnBook(book, none), r.id # id PROVE r \in OnBook(book', none)
    <3>1. PICK t, x, o : At(book, t, x, o) /\ r = Was(none, t, x, o.id, o.qty, o.ours)
      BY AllOnBook
    <3>2. o.id # id
      BY <2>2, <2>4, <3>1
    <3>3. QED
      BY <2>1, <3>1, <3>2, AllOnBook
  <2>5. Orders' = {o \in Orders : o.id # id}
    BY <1>3, <2>3, <2>4
  <2>6. Abstract!Cancel(id)
    BY <2>5 DEF Abstract!Cancel
  <2>7. QED
    BY <1>2, <2>6 DEF Abstract!Next
<1>6. QED
  BY <1>4, <1>5

LEMMA WalkInit == Init => WalkInv /\ Abstract!Init
<1> SUFFICES ASSUME Init PROVE WalkInv /\ Abstract!Init
  OBVIOUS
<1> DEFINE none == <<>>
<1>1. book = EmptyBook /\ taker = NoTaker /\ lastId = 0
  BY DEF Init
<1>2. WalkInv
  BY <1>1, MaxIdAssumption DEF WalkInv
<1>3. Orders = OnBook(book, none)
  <2>1. Orders = AllOrders(book, none, Opposing)
    BY <1>1 DEF Orders, AllOrders, Fills
  <2>2. QED
    BY <2>1, NoFillsYet
<1> HIDE DEF none
<1>4. \A s, p, o : ~ At(book, s, p, o)
  BY <1>1, EmptyIsSound DEF At
<1>5. Orders = {}
  BY <1>3, <1>4, AllOnBook
<1>6. QED
  BY <1>2, <1>5 DEF Abstract!Init

LEMMA WalkStep ==
  BookInv /\ WalkInv /\ NoTradeThrough /\ [Next]_vars => WalkInv' /\ [Abstract!Next]_Orders
<1> SUFFICES ASSUME BookInv, WalkInv, NoTradeThrough, [Next]_vars
             PROVE  WalkInv' /\ (Abstract!Next \/ Orders' = Orders)
  OBVIOUS
<1>1. lastId \in Nat /\ lastId <= MaxId
  BY DEF BookInv, TypeOK, WalkInv
<1>2. ASSUME NEW s \in Side, NEW p \in Prices, NEW q \in Qtys, NEW ours \in BOOLEAN,
             SubmitLimitOrder(s, p, q, ours)
      PROVE  WalkInv' /\ Orders' = Orders
  <2>1. /\ taker = NoTaker /\ book' = book /\ taker' # NoTaker /\ taker'.fills = <<>>
        /\ taker'.qty \in Qtys /\ taker'.left = taker'.qty
    BY <1>2 DEF SubmitLimitOrder, LimitOrder, NoTaker
  <2>2. lastId' \in Nat /\ lastId <= lastId' /\ lastId' <= MaxId
    BY <1>1, <1>2, MaxIdAssumption DEF SubmitLimitOrder
  <2>3. QED
    BY <2>1, <2>2, StartStep
<1>3. ASSUME NEW s \in Side, NEW q \in Qtys, ExecuteMarketOrder(s, q)
      PROVE  WalkInv' /\ Orders' = Orders
  <2>1. /\ taker = NoTaker /\ book' = book /\ taker' # NoTaker /\ taker'.fills = <<>>
        /\ taker'.qty \in Qtys /\ taker'.left = taker'.qty /\ lastId' = lastId
    BY <1>3 DEF ExecuteMarketOrder, MarketOrder, NoTaker
  <2>2. lastId' \in Nat /\ lastId <= lastId' /\ lastId' <= MaxId
    BY <1>1, <2>1
  <2>3. QED
    BY <2>1, <2>2, StartStep
<1>4. CASE FillBest
  BY <1>4, FillStep
<1>5. CASE Return
  BY <1>5, ReturnStep
<1>6. ASSUME NEW s \in Side, NEW p \in Prices, NEW id \in 1..MaxId, Cancel(s, p, id)
      PROVE  WalkInv' /\ (Abstract!Next \/ Orders' = Orders)
  BY <1>6, CancelStep
<1>7. CASE UNCHANGED vars
  <2>1. book' = book /\ taker' = taker /\ lastId' = lastId
    BY <1>7 DEF vars
  <2>2. Fills' = Fills /\ Opposing' = Opposing /\ \A x : Marketable(x)' <=> Marketable(x)
    BY <2>1 DEF Fills, Opposing, Marketable
  <2>3. Orders' = Orders /\ Eligible' = Eligible
    BY <2>1, <2>2 DEF Orders, Eligible
  <2>4. TakerInv <=> TakerInv'
    BY <2>1, <2>2, <2>3 DEF TakerInv, FillInv, Marketable
  <2>5. QED
    BY <2>1, <2>3, <2>4 DEF WalkInv
<1>8. QED
  BY <1>2, <1>3, <1>4, <1>5, <1>6, <1>7 DEF Next

(* Every call of submit_limit_order, execute_market_order or cancel_order does *)
(* to the resting orders, in one step, what price-time priority prescribes:    *)
(* the two nested loops implement PriceTime.                                   *)
THEOREM PriceTimePriority == Spec => ImplementsPriceTime
<1>1. Init => BookInv /\ WalkInv /\ NoTradeThrough /\ Abstract!Init
  <2>1. Init => NoTradeThrough
    BY DEF Init, NoTradeThrough
  <2>2. QED
    BY <2>1, BookInvInit, WalkInit
<1>2. BookInv /\ WalkInv /\ NoTradeThrough /\ [Next]_vars
        => BookInv' /\ WalkInv' /\ NoTradeThrough' /\ [Abstract!Next]_Orders
  BY BookInvStep, NoTradeThroughStep, WalkStep
<1>3. QED
  BY <1>1, <1>2, PTL DEF Spec, ImplementsPriceTime, Abstract!Spec

-----------------------------------------------------------------------------
(* Price-time priority leaves no choice *)

\* Orders that an incoming order may meet: of one side, under ids of their own.
Opponents(E, side) ==
  /\ IsFiniteSet(E)
  /\ \A o \in E : o.side = side /\ o.id \in Nat /\ o.price \in Int /\ o.qty \in Nat
  /\ \A o, u \in E : o.id = u.id => o = u

(* The orders that the call in progress may trade with are such. *)
LEMMA EligibleOpponents ==
  ASSUME BookInv, WalkInv, taker # NoTaker
  PROVE  Opponents(Eligible, Opposing)
<1>1. /\ Fills = taker.fills /\ Fills \in Seq(Fill) /\ Sound(book, Prices) /\ TakerInv
      /\ IsFiniteSet(Eligible) /\ Prices \subseteq Int
  BY FillsType, OrdersAreFinite, PricesAssumption DEF WalkInv, BookInv, Fills
<1>2. ASSUME NEW r \in Eligible
      PROVE  r.side = Opposing /\ r.id \in Nat /\ r.price \in Int /\ r.qty \in Nat
  <2>0. r.side = Opposing
    BY DEF Eligible
  <2>1. \A id : TakenIn(Fills, id) \in Nat
    BY <1>1, FillsWeigh
  <2>2. CASE r \in OnBook(book, Fills)
    <3>1. PICK s, p, o : At(book, s, p, o) /\ r = Was(Fills, s, p, o.id, o.qty, o.ours)
      BY <2>2, AllOnBook
    <3>2. r.price = p /\ r.id = o.id /\ r.qty = o.qty + TakenIn(Fills, o.id)
      BY <3>1 DEF Was
    <3>3. p \in Prices /\ o.id \in Nat /\ o.qty \in Nat
      BY <1>1, <3>1, AtType
    <3>4. r.price \in Int
      BY <1>1, <3>2, <3>3
    <3>5. r.qty \in Nat
      BY <2>1, <3>2, <3>3
    <3>6. QED
      BY <2>0, <3>2, <3>3, <3>4, <3>5
  <2>3. CASE r \in UsedUp(book, Fills, Opposing)
    <3>1. PICK n \in DOMAIN Fills :
            r = Was(Fills, Opposing, Fills[n].price, Fills[n].id, 0, Fills[n].ours)
      BY <2>3, AllUsedUp
    <3>2. /\ r.price = Fills[n].price /\ r.id = Fills[n].id
          /\ r.qty = 0 + TakenIn(Fills, Fills[n].id)
      BY <3>1 DEF Was
    <3>3. Fills[n] \in Fill
      BY <1>1
    <3>4. Fills[n].price \in Prices /\ Fills[n].id \in Nat
      BY <3>3 DEF Fill
    <3>5. r.price \in Int
      BY <1>1, <3>2, <3>4
    <3>6. r.qty \in Nat
      BY <2>1, <3>2
    <3>7. QED
      BY <2>0, <3>2, <3>4, <3>5, <3>6
  <2>4. QED
    BY <2>2, <2>3, OrdersAre DEF AllOrders
<1>3. ASSUME NEW r \in Eligible, NEW u \in Eligible, r.id = u.id PROVE r = u
  <2>1. r \in AllOrders(book, Fills, Opposing) /\ u \in AllOrders(book, Fills, Opposing)
    BY OrdersAre
  <2>2. CASE r \in OnBook(book, Fills) \/ u \in OnBook(book, Fills)
    <3>1. PICK v \in OnBook(book, Fills) : v.id = r.id /\ v.id = u.id
      BY <1>3, <2>2
    <3>2. PICK s, p, o : At(book, s, p, o) /\ v = Was(Fills, s, p, o.id, o.qty, o.ours)
      BY <3>1, AllOnBook
    <3>3. r.id = o.id /\ u.id = o.id
      BY <3>1, <3>2 DEF Was
    <3>4. r = Was(Fills, s, p, o.id, o.qty, o.ours)
      BY <1>1, <2>1, <3>2, <3>3, StandsAlone
    <3>5. u = Was(Fills, s, p, o.id, o.qty, o.ours)
      BY <1>1, <2>1, <3>2, <3>3, StandsAlone
    <3>6. QED
      BY <3>4, <3>5
  <2>3. CASE r \in UsedUp(book, Fills, Opposing) /\ u \in UsedUp(book, Fills, Opposing)
    <3>1. PICK n \in DOMAIN Fills :
            r = Was(Fills, Opposing, Fills[n].price, Fills[n].id, 0, Fills[n].ours)
      BY <2>3, AllUsedUp
    <3>2. PICK m \in DOMAIN Fills :
            u = Was(Fills, Opposing, Fills[m].price, Fills[m].id, 0, Fills[m].ours)
      BY <2>3, AllUsedUp
    <3>3. Fills[n].id = Fills[m].id
      BY <1>3, <3>1, <3>2 DEF Was
    <3>4. n = m
      BY <1>1, <3>3 DEF TakerInv
    <3>5. QED
      BY <3>1, <3>2, <3>4
  <2>4. QED
    BY <2>1, <2>2, <2>3 DEF AllOrders
<1>4. QED
  BY <1>1, <1>2, <1>3 DEF Opponents

(* An allocation gives no order less than another allocation does. *)
LEMMA NoLessAllocated ==
  ASSUME NEW side, NEW E, Opponents(E, side), NEW q \in Nat,
         NEW t \in Abstract!Allocations(E, q), NEW u \in Abstract!Allocations(E, q), NEW o \in E
  PROVE  t[o] >= u[o]
<1>1. /\ t \in [E -> 0 .. q] /\ u \in [E -> 0 .. q] /\ IsFiniteSet(E)
      /\ \A x \in E : /\ t[x] \in Nat /\ u[x] \in Nat /\ x.qty \in Nat
                      /\ t[x] <= x.qty /\ u[x] <= x.qty
  BY DEF Abstract!Allocations, Opponents
<1>2. SUFFICES ASSUME t[o] < u[o] PROVE FALSE
  BY <1>1
<1>3. ASSUME NEW x \in E \ {o} PROVE t[x] <= u[x]
  <2>1. Abstract!Ahead(x, o) \/ Abstract!Ahead(o, x)
    BY DEF Abstract!Ahead, Opponents
  <2>2. CASE Abstract!Ahead(x, o)
    <3>1. u[o] > 0
      BY <1>1, <1>2
    <3>2. u[x] = x.qty
      BY <2>2, <3>1 DEF Abstract!Allocations
    <3>3. QED
      BY <1>1, <3>2
  <2>3. CASE Abstract!Ahead(o, x)
    <3>1. t[o] # o.qty
      BY <1>1, <1>2
    <3>2. ~ (t[x] > 0)
      BY <2>3, <3>1 DEF Abstract!Allocations
    <3>3. QED
      BY <1>1, <3>2
  <2>4. QED
    BY <2>1, <2>2, <2>3
<1> DEFINE rest == E \ {o}
<1>4. Weighs(t, E) /\ Weighs(u, E) /\ DOMAIN t = E /\ DOMAIN u = E
  BY <1>1 DEF Weighs
<1>5. /\ SumFunctionOnSet(t, E) = t[o] + SumFunctionOnSet(t, rest) /\ Weighs(t, rest)
      /\ SumFunctionOnSet(u, E) = u[o] + SumFunctionOnSet(u, rest) /\ Weighs(u, rest)
  BY <1>4, SumWith
<1> HIDE DEF rest
<1>6. /\ SumFunctionOnSet(t, rest) <= SumFunctionOnSet(u, rest)
      /\ SumFunctionOnSet(t, rest) \in Nat /\ SumFunctionOnSet(u, rest) \in Nat
  BY <1>3, <1>5, SumMore, SumNat DEF rest
<1>7. /\ Abstract!SumFunction(t) = SumFunctionOnSet(t, E)
      /\ Abstract!SumFunction(u) = SumFunctionOnSet(u, E)
  BY <1>4, AbstractSum
<1>8. SumFunctionOnSet(u, E) <= q
  BY <1>7 DEF Abstract!Allocations
<1>9. SumFunctionOnSet(t, E) < q
  BY <1>1, <1>2, <1>5, <1>6, <1>8
<1>10. t[o] = o.qty
  BY <1>7, <1>9 DEF Abstract!Allocations
<1>11. QED
  BY <1>1, <1>2, <1>10

LEMMA SameAllocation ==
  ASSUME NEW side, NEW E, Opponents(E, side), NEW q \in Nat,
         NEW t \in Abstract!Allocations(E, q), NEW u \in Abstract!Allocations(E, q)
  PROVE  t = u
<1>1. t \in [E -> 0 .. q] /\ u \in [E -> 0 .. q]
  BY DEF Abstract!Allocations
<1>2. ASSUME NEW o \in E PROVE t[o] = u[o]
  <2>1. t[o] >= u[o] /\ u[o] >= t[o]
    BY NoLessAllocated
  <2>2. QED
    BY <1>1, <2>1
<1>3. QED
  BY <1>1, <1>2

(* Price-time priority has one way at most to share what an incoming order asks *)
(* for among the orders it may trade with: PriceTime, which the calls of        *)
(* orderbook.rs implement, leaves them no choice of who trades what.            *)
THEOREM OneAllocation ==
  Spec => [](taker # NoTaker =>
               \A t, u \in Abstract!Allocations(Eligible, taker.qty) : t = u)
<1> DEFINE One == taker # NoTaker =>
                   \A t, u \in Abstract!Allocations(Eligible, taker.qty) : t = u
<1>1. BookInv /\ WalkInv => One
  <2> SUFFICES ASSUME BookInv, WalkInv, taker # NoTaker,
                      NEW t \in Abstract!Allocations(Eligible, taker.qty),
                      NEW u \in Abstract!Allocations(Eligible, taker.qty)
               PROVE  t = u
    OBVIOUS
  <2> DEFINE q == taker.qty
             E == Eligible
             s == Opposing
  <2>1. q \in Nat
    BY QtysAssumption DEF WalkInv, TakerInv
  <2>2. Opponents(E, s)
    BY EligibleOpponents
  <2>3. t \in Abstract!Allocations(E, q) /\ u \in Abstract!Allocations(E, q)
    OBVIOUS
  <2> HIDE DEF q, E, s
  <2>4. QED
    BY <2>1, <2>2, <2>3, SameAllocation
<1>2. Init => BookInv /\ WalkInv /\ NoTradeThrough
  <2>1. Init => NoTradeThrough
    BY DEF Init, NoTradeThrough
  <2>2. QED
    BY <2>1, BookInvInit, WalkInit
<1>3. BookInv /\ WalkInv /\ NoTradeThrough /\ [Next]_vars
        => BookInv' /\ WalkInv' /\ NoTradeThrough'
  BY BookInvStep, NoTradeThroughStep, WalkStep
<1> HIDE DEF One
<1>4. Spec => []One
  BY <1>1, <1>2, <1>3, PTL DEF Spec
<1>5. QED
  BY <1>4 DEF One
=============================================================================
