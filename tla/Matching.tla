------------------------------- MODULE Matching -------------------------------
(***************************************************************************)
(* The matching engine's ground-truth book: submit_limit_order,            *)
(* execute_market_order and cancel_order of engine/src/orderbook.rs.       *)
(*                                                                         *)
(* The book belongs to one thread, and a call runs to its end before the   *)
(* next one begins.  The matching loop is modelled at the grain of the     *)
(* code, one step for each fill: while a call is in progress, taker holds  *)
(* its arguments and the locals `remaining' and `fills', and no other call *)
(* can start.  PriceTime states what one call does as a whole.             *)
(***************************************************************************)
EXTENDS OrderBook

CONSTANTS
  Prices,  \* the ticks at which an order may be priced
  Qtys,    \* the quantities callers ask for
  MaxId    \* bound: the number of limit orders submitted in a behaviour

ASSUME PricesAssumption == Prices \subseteq Int
ASSUME QtysAssumption == Qtys \subseteq Nat
ASSUME MaxIdAssumption == MaxId \in Nat

VARIABLES
  book,    \* the resting orders
  taker,   \* the incoming order of the call in progress, or NoTaker
  lastId   \* id_gen of the callers in market_sim.rs

vars == <<book, taker, lastId>>

Fill == [id : Nat, ours : BOOLEAN, price : Prices, qty : Nat]

NoTaker == [kind |-> "none"]

LimitTaker ==
  [kind : {"limit"}, id : Nat, side : Side, price : Prices, qty : Nat,
   ours : BOOLEAN, left : Nat, fills : Seq(Fill)]

MarketTaker ==
  [kind : {"market"}, side : Side, qty : Nat, left : Nat, fills : Seq(Fill)]

-----------------------------------------------------------------------------
(* The calls *)

Init ==
  /\ book = EmptyBook
  /\ taker = NoTaker
  /\ lastId = 0

LimitOrder(id, s, p, q, ours) ==
  [kind |-> "limit", id |-> id, side |-> s, price |-> p, qty |-> q,
   ours |-> ours, left |-> q, fills |-> <<>>]

MarketOrder(s, q) ==
  [kind |-> "market", side |-> s, qty |-> q, left |-> q, fills |-> <<>>]

\* A limit order of one of the callers, under the next id of id_gen.
SubmitLimitOrder(s, p, q, ours) ==
  /\ taker = NoTaker
  /\ lastId < MaxId
  /\ lastId' = lastId + 1
  /\ taker' = LimitOrder(lastId + 1, s, p, q, ours)
  /\ UNCHANGED book

\* A market order: it has no limit price, and its remainder never rests.
ExecuteMarketOrder(s, q) ==
  /\ taker = NoTaker
  /\ taker' = MarketOrder(s, q)
  /\ UNCHANGED <<book, lastId>>

\* The resting side the incoming order trades against.
Opposing == Opposite(taker.side)

\* The incoming order may trade at level p of the opposing side.
Marketable(p) == taker.kind = "limit" => Crosses(taker.side, taker.price, p)

\* Mutant: the trade is not limited to what the resting order has.
TradedUnclamped(o) == taker.left

\* What one fill trades with resting order o.
Traded(o) == IF o.qty <= taker.left THEN o.qty ELSE taker.left

\* One fill, with the oldest order of level p.
TradeAt(p) ==
  LET front == book[Opposing][p][1]
  IN  /\ book' = FillFront(book, Opposing, p, Traded(front))
      /\ taker' = [taker EXCEPT
           !.left  = @ - Traded(front),
           !.fills = Append(@, [id |-> front.id, ours |-> front.ours,
                                price |-> p, qty |-> Traded(front)])]
      /\ UNCHANGED lastId

\* Mutant: the walk takes any marketable level, not the best one.
FillAnyLevel ==
  /\ taker # NoTaker
  /\ taker.left > 0
  /\ \E p \in DOMAIN book[Opposing] : Marketable(p) /\ TradeAt(p)

\* One turn of the inner loop: trade at the best opposing level.
FillBest ==
  /\ taker # NoTaker
  /\ taker.left > 0
  /\ \E p \in DOMAIN book[Opposing] :
       /\ IsBest(book, Opposing, p)
       /\ Marketable(p)
       /\ TradeAt(p)

\* Mutant: the walk stops after its first level.
StopsAfterOneLevel ==
  \/ taker.left = 0
  \/ \A p \in DOMAIN book[Opposing] : ~ Marketable(p)
  \/ \E n \in DOMAIN taker.fills : taker.fills[n].price \notin DOMAIN book[Opposing]

\* Mutant: the walk does not stop at a level beyond the limit.
OnlyWhenDone == taker.left = 0 \/ DOMAIN book[Opposing] = {}

\* The loop is over: nothing left to trade, or no level left to trade at
\* (the best level does not cross, hence no level does).
WalkIsOver ==
  taker.left = 0 \/ \A p \in DOMAIN book[Opposing] : ~ Marketable(p)

\* What is left of a limit order rests, what is left of a market order is dropped.
Rests == taker.kind = "limit" /\ taker.left > 0

\* The call returns its fills to the caller.
Return ==
  /\ taker # NoTaker
  /\ WalkIsOver
  /\ book' = IF Rests
             THEN RestOrder(book, taker.side, taker.price,
                    [id |-> taker.id, qty |-> taker.left, ours |-> taker.ours])
             ELSE book
  /\ taker' = NoTaker
  /\ UNCHANGED lastId

\* cancel_order, for an order that may already be gone.
Cancel(s, p, id) ==
  /\ taker = NoTaker
  /\ book' = CancelOrder(book, s, p, id)
  /\ UNCHANGED <<taker, lastId>>

Next ==
  \/ \E s \in Side, p \in Prices, q \in Qtys, ours \in BOOLEAN :
       SubmitLimitOrder(s, p, q, ours)
  \/ \E s \in Side, q \in Qtys : ExecuteMarketOrder(s, q)
  \/ FillBest
  \/ Return
  \/ \E s \in Side, p \in Prices, id \in 1..MaxId : Cancel(s, p, id)

Spec == Init /\ [][Next]_vars

\* The thread in a call keeps running it.
FairSpec == Spec /\ WF_vars(FillBest) /\ WF_vars(Return)

-----------------------------------------------------------------------------
(* Properties *)

\* Every variable has its type; only a call in progress has a taker.
TypeOK ==
  /\ IsBook(book, Prices)
  /\ taker \in {NoTaker} \cup LimitTaker \cup MarketTaker
  /\ lastId \in Nat

\* The ground-truth book is never crossed, not even in the middle of a walk:
\* the check MM_ASSERT_INVARIANTS turns on in market_sim.rs.
Uncrossed ==
  \A b \in DOMAIN book["Bid"], a \in DOMAIN book["Ask"] : b < a

\* A price in the map has an order with something left to trade behind it, so
\* best_bid, best_ask and the walk never stop at a phantom level.
LevelsAreLive ==
  \A s \in Side : \A p \in DOMAIN book[s] :
    /\ book[s][p] # <<>>
    /\ \A i \in DOMAIN book[s][p] : book[s][p][i].qty > 0

\* Queues are in order of arrival, whatever was cancelled or partly filled in
\* between, and no order id rests at two places: a cancel or a reported trade
\* that names an id can mean one order only.
TimePriority ==
  /\ \A s \in Side : \A p \in DOMAIN book[s] : \A i, j \in DOMAIN book[s][p] :
       i < j => book[s][p][i].id < book[s][p][j].id
  /\ \A s, t \in Side : \A p \in DOMAIN book[s], q \in DOMAIN book[t] :
       \A i \in DOMAIN book[s][p], j \in DOMAIN book[t][q] :
         book[s][p][i].id = book[t][q][j].id => s = t /\ p = q /\ i = j

\* No trade-through: while a call is walking the book, no order that should
\* have traded before one of its fills is still resting on that side.
NoTradeThrough ==
  taker # NoTaker =>
    \A n \in DOMAIN taker.fills : \A p \in DOMAIN book[Opposing] :
      LET f == taker.fills[n]
      IN  /\ ~ Improves(Opposing, p, f.price)
          /\ p = f.price =>
               \A i \in DOMAIN book[Opposing][p] : book[Opposing][p][i].id >= f.id

\* Every call returns: the two nested loops of a walk never spin on a level
\* that does not cross, on an emptied one or on an order with nothing left.
CallsReturn == taker # NoTaker ~> taker = NoTaker
=============================================================================
