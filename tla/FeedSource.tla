------------------------------ MODULE FeedSource ------------------------------
(***************************************************************************)
(* The exchange as its L3 feed shows it: one event per step, each of them  *)
(* legal on the book the earlier ones describe.  This is all a reader of   *)
(* the feed may count on; module Exchange is shown to implement it, and    *)
(* module MarketData puts a lossy network and the strategy behind it.      *)
(***************************************************************************)
EXTENDS OrderBook

CONSTANTS Prices, Qtys, MaxId

ASSUME FeedAssumption ==
  Prices \subseteq Int /\ Qtys \subseteq Nat \ {0} /\ MaxId \in Nat

VARIABLES
  truth,      \* the book the events so far describe
  lastAdded   \* the id of the latest Add

feedVars == <<truth, lastAdded>>

-----------------------------------------------------------------------------
(* Events and their replay *)

AddOf(s, p, o) == [kind |-> "Add", side |-> s, price |-> p, id |-> o.id,
                   qty |-> o.qty, ours |-> o.ours]

CancelOf(s, p, id) == [kind |-> "Cancel", side |-> s, price |-> p, id |-> id]

TradeOf(s, p, id, qty, ours) ==
  [kind |-> "Trade", side |-> s, price |-> p, id |-> id, qty |-> qty, ours |-> ours]

\* What a reader of the feed does to its book on an event.
Replay(b, e) ==
  CASE e.kind = "Add" ->
         RestOrder(b, e.side, e.price, [id |-> e.id, qty |-> e.qty, ours |-> e.ours])
    [] e.kind = "Cancel" -> CancelOrder(b, e.side, e.price, e.id)
    [] e.kind = "Trade"  -> ApplyTrade(b, e.side, e.price, e.id, e.qty)

-----------------------------------------------------------------------------
(* The events the exchange may emit *)

OwnOrderOn(b, s) ==
  \E p \in DOMAIN b[s] : \E i \in DOMAIN b[s][p] : b[s][p][i].ours

\* A new order comes to rest: under a new id, away from the other side, and
\* never as a second order of ours on its side.
CanAdd(b, last, e) ==
  /\ e.id > last
  /\ \A p \in DOMAIN b[Opposite(e.side)] : ~ Crosses(e.side, e.price, p)
  /\ e.ours => ~ OwnOrderOn(b, e.side)

\* An order leaves unfilled.
CanCancel(b, e) == HasOrder(b, e.side, e.price, e.id)

\* The oldest order of the best level is filled, at most for what it has.
CanTrade(b, e) ==
  /\ IsBest(b, e.side, e.price)
  /\ LET front == b[e.side][e.price][1]
     IN  front.id = e.id /\ front.ours = e.ours /\ e.qty <= front.qty

\* Event e may follow events that describe book b, the latest Add under id last.
Legal(b, last, e) ==
  CASE e.kind = "Add"    -> CanAdd(b, last, e)
    [] e.kind = "Cancel" -> CanCancel(b, e)
    [] e.kind = "Trade"  -> CanTrade(b, e)

LatestAdd(last, e) == IF e.kind = "Add" THEN e.id ELSE last

Happens(e) ==
  /\ Legal(truth, lastAdded, e)
  /\ truth' = Replay(truth, e)
  /\ lastAdded' = LatestAdd(lastAdded, e)

Events ==
  {AddOf(s, p, [id |-> id, qty |-> q, ours |-> ours]) :
     s \in Side, p \in Prices, id \in 1..MaxId, q \in Qtys, ours \in BOOLEAN}
  \cup {CancelOf(s, p, id) : s \in Side, p \in Prices, id \in 1..MaxId}
  \cup {TradeOf(s, p, id, q, ours) :
     s \in Side, p \in Prices, id \in 1..MaxId, q \in Qtys, ours \in BOOLEAN}

FeedInit == truth = EmptyBook /\ lastAdded = 0

FeedNext == \E e \in Events : Happens(e)

FeedSpec == FeedInit /\ [][FeedNext]_feedVars
=============================================================================
