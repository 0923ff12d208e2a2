------------------------------ MODULE OrderBook ------------------------------
(***************************************************************************)
(* The limit order book of engine/src/orderbook.rs as a pure value, and    *)
(* the operations on it.  The same struct plays two roles in the engine:   *)
(* the matching engine's ground truth (module Matching) and the            *)
(* strategy's replayed shadow book (module MarketData).                    *)
(*                                                                         *)
(* A book maps each side to its price levels.  The levels of a side are a  *)
(* partial function from prices to FIFO queues, as the code's BTreeMap is: *)
(* a price is in the domain exactly when the map holds a key for it, so a  *)
(* level left behind with an empty queue would be visible.  An order is    *)
(* found under its side and price; of its other fields the timestamp is    *)
(* dropped, because nothing in the engine decides on it.                   *)
(***************************************************************************)
EXTENDS Integers, SequencesExt

Side == {"Bid", "Ask"}

Opposite(s) == IF s = "Bid" THEN "Ask" ELSE "Bid"

Order == [id : Nat, qty : Nat, ours : BOOLEAN]

\* The type of a book; the prices of a side are whichever have a level.
IsBook(book, Prices) ==
  /\ book = [s \in Side |-> book[s]]
  /\ \A s \in Side : /\ DOMAIN book[s] \subseteq Prices
                     /\ book[s] \in [DOMAIN book[s] -> Seq(Order)]

EmptyBook == [s \in Side |-> [p \in {} |-> <<>>]]

-----------------------------------------------------------------------------
(* Price order *)

\* p is a strictly better price than q for an order resting on side s.
Improves(s, p, q) == IF s = "Bid" THEN p > q ELSE p < q

\* p is best_bid() (s = "Bid") or best_ask() of the book.
IsBest(book, s, p) ==
  /\ p \in DOMAIN book[s]
  /\ \A q \in DOMAIN book[s] : ~ Improves(s, q, p)

\* Mutant: an incoming limit order at the resting price is not marketable.
CrossesStrictly(s, limit, level) ==
  IF s = "Bid" THEN limit > level ELSE limit < level

\* An incoming order of side s with this limit may trade at this level.
Crosses(s, limit, level) ==
  IF s = "Bid" THEN limit >= level ELSE limit <= level

-----------------------------------------------------------------------------
(* Levels and queues *)

QueueAt(book, s, p) == IF p \in DOMAIN book[s] THEN book[s][p] ELSE <<>>

\* Mutant: the level stays in the map when its last order leaves.
KeepEmptyLevel(book, s, p, q) ==
  [book EXCEPT ![s] =
    [x \in DOMAIN book[s] \cup {p} |-> IF x = p THEN q ELSE book[s][x]]]

\* Store queue q at price p, removing the level when q is empty.
SetQueue(book, s, p, q) ==
  LET prices == IF q = <<>> THEN DOMAIN book[s] \ {p} ELSE DOMAIN book[s] \cup {p}
  IN  [book EXCEPT ![s] = [x \in prices |-> IF x = p THEN q ELSE book[s][x]]]

\* Mutant: the newest order goes to the head of its level.
RestInFront(book, s, p, o) == SetQueue(book, s, p, <<o>> \o QueueAt(book, s, p))

\* insert_resting_order: no crossing check, last in the queue of its level.
RestOrder(book, s, p, o) == SetQueue(book, s, p, Append(QueueAt(book, s, p), o))

\* Where order id is in a queue: the search goes from the front.
Places(queue, id) == {i \in DOMAIN queue : queue[i].id = id}
Position(queue, id) == Min(Places(queue, id))

HasOrder(book, s, p, id) == Places(QueueAt(book, s, p), id) # {}

\* cancel_order: removes the first order with this id at this level, if any.
CancelOrder(book, s, p, id) ==
  IF HasOrder(book, s, p, id)
  THEN SetQueue(book, s, p, RemoveAt(book[s][p], Position(book[s][p], id)))
  ELSE book

\* What is left of an order of which qty was traded.
Reduced(o, qty) == [o EXCEPT !.qty = @ - qty]

\* Trade qty against the front order of a level; it leaves when consumed.
FillFront(book, s, p, qty) ==
  LET queue == book[s][p]
  IN  SetQueue(book, s, p,
        IF qty = queue[1].qty
        THEN Tail(queue)
        ELSE [queue EXCEPT ![1] = Reduced(queue[1], qty)])

-----------------------------------------------------------------------------
(* Replay and resynchronisation *)

\* Mutant: an order that was filled exactly stays, with nothing left of it.
KeepConsumed(book, s, p, id, qty) ==
  IF ~ HasOrder(book, s, p, id) THEN book
  ELSE LET queue == book[s][p]
           i     == Position(queue, id)
       IN  SetQueue(book, s, p,
             IF qty > queue[i].qty
             THEN RemoveAt(queue, i)
             ELSE [queue EXCEPT ![i] = Reduced(queue[i], qty)])

\* apply_trade: a reported fill of order id, wherever it is in its queue.
ApplyTrade(book, s, p, id, qty) ==
  IF ~ HasOrder(book, s, p, id) THEN book
  ELSE LET queue == book[s][p]
           i     == Position(queue, id)
       IN  SetQueue(book, s, p,
             IF qty >= queue[i].qty
             THEN RemoveAt(queue, i)
             ELSE [queue EXCEPT ![i] = Reduced(queue[i], qty)])

\* The members of a finite set of numbers, lowest first.
Ascending(S) ==
  CHOOSE q \in [1 .. Cardinality(S) -> S] : \A i, j \in DOMAIN q : i < j => q[i] < q[j]

\* The orders of one side, lowest price first, each queue front to back.
ExportSide(book, s) ==
  LET prices == Ascending(DOMAIN book[s])
      Rows(p) == [i \in DOMAIN book[s][p] |-> [price |-> p, order |-> book[s][p][i]]]
  IN  FlattenSeq([i \in DOMAIN prices |-> Rows(prices[i])])

\* export_resync (its sequence number is the publisher's to fill in).
ExportResync(book) == [bids |-> ExportSide(book, "Bid"), asks |-> ExportSide(book, "Ask")]

RestRows(book, s, rows) ==
  FoldLeft(LAMBDA b, row : RestOrder(b, s, row.price, row.order), book, rows)

\* Mutant: rebuilding does not clear the old state first.
RebuildWithoutClear(book, resync) ==
  RestRows(RestRows(book, "Bid", resync.bids), "Ask", resync.asks)

\* rebuild_from_resync: discard everything, then rest every exported order.
RebuildFromResync(book, resync) ==
  RestRows(RestRows(EmptyBook, "Bid", resync.bids), "Ask", resync.asks)
=============================================================================
