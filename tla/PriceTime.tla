------------------------------ MODULE PriceTime ------------------------------
(***************************************************************************)
(* What a price-time-priority market promises, with no book, level, queue  *)
(* or loop: resting orders are a set, and an incoming order trades in one  *)
(* step with the eligible orders, those ahead first.                       *)
(***************************************************************************)
EXTENDS Integers, Functions

CONSTANTS
  Prices,  \* integers
  Qtys,    \* naturals
  Ids      \* naturals

VARIABLE orders  \* a set of [id, side, price, qty, ours]; ids grow with arrival

Sides == {"Bid", "Ask"}

Ahead(o, u) ==
  \/ IF o.side = "Bid" THEN o.price > u.price ELSE o.price < u.price
  \/ o.price = u.price /\ o.id < u.id

\* How an incoming quantity q is shared among the eligible orders: an order
\* trades only when nothing is left of those ahead of it, and less than q is
\* traded only when nothing is left of any.
Allocations(eligible, q) ==
  {t \in [eligible -> 0 .. q] :
     /\ \A o \in eligible : t[o] <= o.qty
     /\ \A o, u \in eligible : Ahead(o, u) /\ t[u] > 0 => t[o] = o.qty
     /\ SumFunction(t) <= q
     /\ SumFunction(t) < q => \A o \in eligible : t[o] = o.qty}

Trade(eligible, t) ==
  (orders \ eligible) \cup
    {[o EXCEPT !.qty = @ - t[o]] : o \in {u \in eligible : t[u] < u.qty}}

\* A limit order trades within its limit; what nobody takes rests behind all others.
Limit(id, s, p, q, ours) ==
  /\ \A o \in orders : o.id < id
  /\ LET eligible == {o \in orders : o.side # s /\
                        (IF s = "Bid" THEN o.price <= p ELSE o.price >= p)}
     IN  \E t \in Allocations(eligible, q) :
           orders' = Trade(eligible, t) \cup
             (IF SumFunction(t) < q
              THEN {[id |-> id, side |-> s, price |-> p, qty |-> q - SumFunction(t),
                     ours |-> ours]}
              ELSE {})

Market(s, q) ==
  LET eligible == {o \in orders : o.side # s}
  IN  \E t \in Allocations(eligible, q) : orders' = Trade(eligible, t)

Cancel(id) == orders' = {o \in orders : o.id # id}

Init == orders = {}

Next ==
  \/ \E id \in Ids, s \in Sides, p \in Prices, q \in Qtys, ours \in BOOLEAN :
       Limit(id, s, p, q, ours)
  \/ \E s \in Sides, q \in Qtys : Market(s, q)
  \/ \E id \in Ids : Cancel(id)

Spec == Init /\ [][Next]_orders
=============================================================================
