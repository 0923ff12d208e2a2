---------------------------- MODULE MarketDataProofs ----------------------------
(***************************************************************************)
(* Proofs about MarketData.tla: what the strategy makes of a feed that     *)
(* loses, delays and reorders datagrams, and of the snapshots, for every   *)
(* set of prices, quantities and ids, every size of the ring and every     *)
(* number of events.                                                       *)
(*                                                                         *)
(* The argument has three parts.  A history of the feed (the book before   *)
(* each event) explains every packet and every snapshot there is; while    *)
(* the strategy is in step, its book is one of that history, and the       *)
(* packets in flight are the events from there on.  A tally of the fills   *)
(* in flight leads from the position booked to the one owed.  And every    *)
(* number above the newest replayed is in flight or is known to be gone,   *)
(* so that a snapshot that overtook every loss brings the strategy in step *)
(* again.                                                                  *)
(***************************************************************************)
EXTENDS MarketData, OrderBookProofs

-----------------------------------------------------------------------------
(* The events of the feed *)

(* What the constants are assumed to be. *)
LEMMA FeedFacts == Prices \subseteq Int /\ Qtys \subseteq Nat \ {0} /\ MaxId \in Nat
BY FeedAssumption

(* What the fields of an event may hold. *)
LEMMA EventFacts ==
  ASSUME NEW e \in Events
  PROVE  /\ e.side \in Side /\ e.price \in Prices /\ e.price \in Int /\ e.id \in 1 .. MaxId
         /\ e.kind = "Add" \/ e.kind = "Cancel" \/ e.kind = "Trade"
         /\ e.kind # "Cancel" => e.qty \in Nat /\ e.qty > 0 /\ e.ours \in BOOLEAN
<1>1. CASE \E s \in Side, p \in Prices, id \in 1 .. MaxId, q \in Qtys, ours \in BOOLEAN :
             e = AddOf(s, p, [id |-> id, qty |-> q, ours |-> ours])
  BY <1>1, FeedFacts DEF AddOf
<1>2. CASE \E s \in Side, p \in Prices, id \in 1 .. MaxId : e = CancelOf(s, p, id)
  BY <1>2, FeedFacts DEF CancelOf
<1>3. CASE \E s \in Side, p \in Prices, id \in 1 .. MaxId, q \in Qtys, ours \in BOOLEAN :
             e = TradeOf(s, p, id, q, ours)
  BY <1>3, FeedFacts DEF TradeOf
<1>4. QED
  BY <1>1, <1>2, <1>3 DEF Events

\* The order an Add announces.
Added(e) == [id |-> e.id, qty |-> e.qty, ours |-> e.ours]

(* An Add rests the order it announces. *)
LEMMA AddedFacts ==
  ASSUME NEW e \in Events, e.kind = "Add"
  PROVE  /\ Added(e) \in Order /\ Added(e).id = e.id /\ Added(e).qty > 0 /\ Added(e).ours = e.ours
         /\ \A b : Replay(b, e) = RestOrder(b, e.side, e.price, Added(e))
<1>1. e.id \in Nat /\ e.qty \in Nat /\ e.qty > 0 /\ e.ours \in BOOLEAN
  BY EventFacts
<1>2. QED
  BY <1>1 DEF Added, Order, Replay

(* Whatever the book of a reader, an event leaves it a book. *)
LEMMA ReplayBook ==
  ASSUME NEW b, IsBook(b, Prices), NEW e \in Events
  PROVE  IsBook(Replay(b, e), Prices)
<1> DEFINE s == e.side
           p == e.price
           id == e.id
           qty == e.qty
           o == Added(e)
<1>1. /\ s \in Side /\ p \in Prices
      /\ e.kind = "Add" \/ e.kind = "Cancel" \/ e.kind = "Trade"
      /\ e.kind # "Cancel" => qty \in Nat
  BY EventFacts
<1>2. e.kind = "Add" => o \in Order /\ Replay(b, e) = RestOrder(b, s, p, o)
  BY AddedFacts
<1>3. /\ e.kind = "Cancel" => Replay(b, e) = CancelOrder(b, s, p, id)
      /\ e.kind = "Trade" => Replay(b, e) = ApplyTrade(b, s, p, id, qty)
  BY DEF Replay
<1> HIDE DEF s, p, id, qty, o
<1>4. e.kind = "Add" => IsBook(Replay(b, e), Prices)
  BY <1>1, <1>2, RestOrderBook
<1>5. e.kind = "Cancel" => IsBook(Replay(b, e), Prices)
  BY <1>1, <1>3, CancelOrderBook
<1>6. e.kind = "Trade" => IsBook(Replay(b, e), Prices)
  BY <1>1, <1>3, ApplyTradeBook
<1>7. QED
  BY <1>1, <1>4, <1>5, <1>6

(* ... and no level of it empty, if none was. *)
LEMMA ReplayLive ==
  ASSUME NEW b, IsBook(b, Prices), LiveBook(b), NEW e \in Events
  PROVE  LiveBook(Replay(b, e))
<1> DEFINE s == e.side
           p == e.price
           id == e.id
           qty == e.qty
           o == Added(e)
<1>1. /\ s \in Side /\ p \in Prices
      /\ e.kind = "Add" \/ e.kind = "Cancel" \/ e.kind = "Trade"
      /\ e.kind # "Cancel" => qty \in Nat
  BY EventFacts
<1>2. e.kind = "Add" => o \in Order /\ o.qty > 0 /\ Replay(b, e) = RestOrder(b, s, p, o)
  BY AddedFacts
<1>3. /\ e.kind = "Cancel" => Replay(b, e) = CancelOrder(b, s, p, id)
      /\ e.kind = "Trade" => Replay(b, e) = ApplyTrade(b, s, p, id, qty)
  BY DEF Replay
<1> HIDE DEF s, p, id, qty, o
<1>4. e.kind = "Add" => LiveBook(Replay(b, e))
  BY <1>1, <1>2, RestOrderLive
<1>5. e.kind = "Cancel" => LiveBook(Replay(b, e))
  BY <1>1, <1>3, CancelOrderLive
<1>6. e.kind = "Trade" => LiveBook(Replay(b, e))
  BY <1>1, <1>3, ApplyTradeLive
<1>7. QED
  BY <1>1, <1>4, <1>5, <1>6

-----------------------------------------------------------------------------
(* What legal events keep *)

Quotes == [{"Bid", "Ask", "have"} -> Int \cup BOOLEAN]

\* Each order of ours on book b is at the price q has for its side.
Knows(b, q) ==
  \A s \in Side : \A p \in DOMAIN b[s] : \A i \in DOMAIN b[s][p] : b[s][p][i].ours => q[s] = p

(* Only an Add of ours changes what we believe quoted, and only on its side. *)
LEMMA NotedFacts ==
  ASSUME NEW q \in Quotes, NEW e \in Events
  PROVE  /\ Noted(q, e) \in Quotes
         /\ e.kind = "Add" /\ e.ours => Noted(q, e)[e.side] = e.price
         /\ \A s \in Side : s # e.side => Noted(q, e)[s] = q[s]
         /\ ~ (e.kind = "Add" /\ e.ours) => Noted(q, e) = q
<1>1. e.side \in Side /\ e.price \in Int
  BY EventFacts
<1>2. Side = {"Bid", "Ask"}
  BY DEF Side
<1>3. QED
  BY <1>1, <1>2 DEF Noted, Quotes

(* Who knows our orders knows them when some have gone. *)
LEMMA ThinnedKnows ==
  ASSUME NEW b, NEW c, Thinned(b, c), NEW q, Knows(b, q)
  PROVE  Knows(c, q)
BY DEF Thinned, Knows, Same

(* A legal Add keeps the book sound, and who notes it knows our orders still: *)
(* ours is the only one of its side.                                         *)
LEMMA AddKept ==
  ASSUME NEW b, Sound(b, Prices), NEW last \in Nat, IdsUpTo(b, last),
         NEW e \in Events, e.kind = "Add", CanAdd(b, last, e)
  PROVE  /\ Sound(Replay(b, e), Prices) /\ IdsUpTo(Replay(b, e), e.id)
         /\ \A q \in Quotes : Knows(b, q) => Knows(Replay(b, e), Noted(q, e))
         /\ Apart(b) => Apart(Replay(b, e))
<1> DEFINE s == e.side
           p == e.price
           o == Added(e)
           c == RestOrder(b, s, p, o)
<1>1. s \in Side /\ p \in Prices
  BY EventFacts
<1>2. o \in Order /\ o.id = e.id /\ o.qty > 0 /\ o.ours = e.ours /\ Replay(b, e) = c
  BY AddedFacts
<1>3. o.id > last
  BY <1>2 DEF CanAdd
<1> HIDE DEF o, p
<1>4. Sound(c, Prices) /\ Extended(b, c, s, p, o) /\ IdsUpTo(c, o.id)
  BY <1>1, <1>2, <1>3, RestSound
<1> HIDE DEF c
<1>5. ASSUME NEW q \in Quotes, Knows(b, q) PROVE Knows(c, Noted(q, e))
  <2> SUFFICES ASSUME NEW t \in Side, NEW x \in DOMAIN c[t], NEW i \in DOMAIN c[t][x],
                      c[t][x][i].ours
               PROVE  Noted(q, e)[t] = x
    BY DEF Knows
  <2>1. /\ e.kind = "Add" /\ e.ours => Noted(q, e)[s] = p
        /\ t # s => Noted(q, e)[t] = q[t]
        /\ ~ e.ours => Noted(q, e) = q
    BY NotedFacts DEF p
  <2>2. \/ t = s /\ x = p /\ c[t][x][i] = o
        \/ x \in DOMAIN b[t] /\ i \in DOMAIN b[t][x] /\ c[t][x][i] = b[t][x][i]
    BY <1>4 DEF Extended
  <2>3. CASE t = s /\ x = p /\ c[t][x][i] = o
    BY <1>2, <2>1, <2>3
  <2>4. CASE x \in DOMAIN b[t] /\ i \in DOMAIN b[t][x] /\ c[t][x][i] = b[t][x][i]
    <3>1. q[t] = x
      BY <1>5, <2>4 DEF Knows
    <3>2. t = s => ~ e.ours
      BY <2>4 DEF CanAdd, OwnOrderOn
    <3>3. QED
      BY <2>1, <3>1, <3>2
  <2>5. QED
    BY <2>2, <2>3, <2>4
<1>6. ASSUME Apart(b) PROVE Apart(c)
  <2>1. Prices \in SUBSET Int /\ IsBook(b, Prices) /\ p \in Prices
    BY FeedFacts, <1>1 DEF Sound
  <2>2. \A v \in DOMAIN b[Opposite(s)] : ~ Crosses(s, p, v)
    BY DEF CanAdd, p
  <2> HIDE DEF s
  <2>3. QED
    BY <1>1, <1>4, <1>6, <2>1, <2>2, RestApart
<1>7. QED
  BY <1>2, <1>4, <1>5, <1>6

(* A Cancel only thins the book ... *)
LEMMA CancelKept ==
  ASSUME NEW b, Sound(b, Prices), NEW e \in Events, e.kind = "Cancel"
  PROVE  Sound(Replay(b, e), Prices) /\ Thinned(b, Replay(b, e))
<1> DEFINE s == e.side
           p == e.price
           id == e.id
<1>1. s \in Side /\ p \in Prices /\ Replay(b, e) = CancelOrder(b, s, p, id)
  BY EventFacts DEF Replay
<1> HIDE DEF s, p, id
<1>2. QED
  BY <1>1, CancelSound

(* ... and so does a legal Trade. *)
LEMMA TradeKept ==
  ASSUME NEW b, Sound(b, Prices), NEW e \in Events, e.kind = "Trade", CanTrade(b, e)
  PROVE  Sound(Replay(b, e), Prices) /\ Thinned(b, Replay(b, e))
<1> DEFINE s == e.side
           p == e.price
           qty == e.qty
<1>1. s \in Side /\ qty \in Nat
  BY EventFacts
<1>2. p \in DOMAIN b[s] /\ b[s][p][1].id = e.id /\ qty <= b[s][p][1].qty
  BY DEF CanTrade, IsBest
<1>3. Replay(b, e) = ApplyTrade(b, s, p, b[s][p][1].id, qty)
  BY <1>2 DEF Replay
<1> HIDE DEF s, p, qty
<1>4. ApplyTrade(b, s, p, b[s][p][1].id, qty) = FillFront(b, s, p, qty)
  BY <1>1, <1>2, FrontTrade
<1>5. QED
  BY <1>1, <1>2, <1>3, <1>4, FillSound

(* What every legal event keeps. *)
LEMMA LegalKept ==
  ASSUME NEW b, Sound(b, Prices), NEW last \in Nat, IdsUpTo(b, last),
         NEW e \in Events, Legal(b, last, e)
  PROVE  /\ Sound(Replay(b, e), Prices)
         /\ LatestAdd(last, e) \in Nat /\ IdsUpTo(Replay(b, e), LatestAdd(last, e))
         /\ \A q \in Quotes : Knows(b, q) => Knows(Replay(b, e), Noted(q, e))
         /\ Apart(b) => Apart(Replay(b, e))
<1>1. e.id \in Nat /\ (e.kind = "Add" \/ e.kind = "Cancel" \/ e.kind = "Trade")
  BY EventFacts
<1>2. CASE e.kind = "Add"
  <2>1. CanAdd(b, last, e) /\ LatestAdd(last, e) = e.id
    BY <1>2 DEF Legal, LatestAdd
  <2>2. QED
    BY <1>1, <1>2, <2>1, AddKept
<1>3. CASE e.kind # "Add"
  <2>1. Sound(Replay(b, e), Prices) /\ Thinned(b, Replay(b, e))
    <3>1. CASE e.kind = "Cancel"
      BY <3>1, CancelKept
    <3>2. CASE e.kind = "Trade"
      BY <3>2, TradeKept DEF Legal
    <3>3. QED
      BY <1>1, <1>3, <3>1, <3>2
  <2>2. LatestAdd(last, e) = last
    BY <1>3 DEF LatestAdd
  <2>3. \A q \in Quotes : Noted(q, e) = q
    BY <1>3, NotedFacts
  <2>4. QED
    BY <2>1, <2>2, <2>3, ThinnedIds, ThinnedKnows, ThinnedApart
<1>4. QED
  BY <1>2, <1>3

-----------------------------------------------------------------------------
(* What the strategy learns from a sequence of events *)

Account == [inventory : Int, cash : Int, trades : Int]

Known == [book : Books(Prices), position : Account, quoted : Quotes]

\* What own fills add to a position, and take from it again.
Plus(pos, d) == [inventory |-> pos.inventory + d.inventory, cash |-> pos.cash + d.cash,
                 trades |-> pos.trades + d.trades]
Minus(pos, d) == [inventory |-> pos.inventory - d.inventory, cash |-> pos.cash - d.cash,
                  trades |-> pos.trades - d.trades]

(* To book an event is to add what it is worth from nothing. *)
LEMMA BookedFacts ==
  ASSUME NEW pos \in Account, NEW e \in Events
  PROVE  /\ Booked(pos, e) \in Account /\ Booked(Flat, e) \in Account
         /\ Booked(pos, e) = Plus(pos, Booked(Flat, e))
<1> DEFINE own == e.kind = "Trade" /\ e.ours
           bought == IF e.side = "Bid" THEN e.qty ELSE - e.qty
           paid == bought * e.price
           d == Booked(Flat, e)
<1>1. e.price \in Int /\ (own => bought \in Int)
  BY EventFacts
<1>2. own => paid \in Int
  BY <1>1
<1>3. pos = [inventory |-> pos.inventory, cash |-> pos.cash, trades |-> pos.trades]
      /\ pos.inventory \in Int /\ pos.cash \in Int /\ pos.trades \in Int
  BY DEF Account
<1>4. own => /\ Booked(pos, e) = [inventory |-> pos.inventory + bought, cash |-> pos.cash - paid,
                                  trades |-> pos.trades + 1]
             /\ d = [inventory |-> 0 + bought, cash |-> 0 - paid, trades |-> 0 + 1]
  BY DEF Booked, Flat
<1>5. ~ own => Booked(pos, e) = pos /\ d = [inventory |-> 0, cash |-> 0, trades |-> 0]
  BY DEF Booked, Flat
<1> HIDE DEF own, bought, paid, d
<1>6. CASE own
  <2>1. Booked(pos, e) \in Account /\ d \in Account
    BY <1>1, <1>2, <1>3, <1>4, <1>6 DEF Account
  <2>2. /\ Plus(pos, d).inventory = pos.inventory + bought
        /\ Plus(pos, d).cash = pos.cash - paid /\ Plus(pos, d).trades = pos.trades + 1
    BY <1>1, <1>2, <1>3, <1>4, <1>6 DEF Plus
  <2>3. Plus(pos, d) = [inventory |-> pos.inventory + bought, cash |-> pos.cash - paid,
                        trades |-> pos.trades + 1]
    BY <2>2 DEF Plus
  <2>4. QED
    BY <1>4, <1>6, <2>1, <2>3 DEF d
<1>7. CASE ~ own
  <2>1. Booked(pos, e) \in Account /\ d \in Account
    BY <1>5, <1>7 DEF Account
  <2>2. Plus(pos, d).inventory = pos.inventory
        /\ Plus(pos, d).cash = pos.cash /\ Plus(pos, d).trades = pos.trades
    BY <1>3, <1>5, <1>7 DEF Plus
  <2>3. Plus(pos, d) = pos
    BY <1>3, <2>2 DEF Plus
  <2>4. QED
    BY <1>5, <1>7, <2>1, <2>3 DEF d
<1>8. QED
  BY <1>6, <1>7

(* Fills add up in any order, and one can be taken out again. *)
LEMMA PlusFacts ==
  ASSUME NEW a \in Account, NEW d \in Account, NEW x \in Account
  PROVE  /\ Plus(a, d) \in Account /\ Minus(a, d) \in Account
         /\ Plus(Plus(a, d), x) = Plus(Plus(a, x), d)
         /\ Minus(Plus(a, d), d) = a
         /\ Minus(Plus(a, x), d) = Plus(Minus(a, d), x)
<1>1. \A p \in Account : /\ p.inventory \in Int /\ p.cash \in Int /\ p.trades \in Int
                          /\ p = [inventory |-> p.inventory, cash |-> p.cash, trades |-> p.trades]
  BY DEF Account
<1>2. Plus(a, d) \in Account /\ Minus(a, d) \in Account
  BY <1>1 DEF Plus, Minus, Account
<1>3. Plus(Plus(a, d), x) = Plus(Plus(a, x), d)
  BY <1>1 DEF Plus
<1>4. Minus(Plus(a, d), d) = a
  <2>1. /\ a.inventory + d.inventory - d.inventory = a.inventory
        /\ a.cash + d.cash - d.cash = a.cash /\ a.trades + d.trades - d.trades = a.trades
    BY <1>1
  <2>2. QED
    BY <1>1, <2>1 DEF Plus, Minus
<1>5. Minus(Plus(a, x), d) = Plus(Minus(a, d), x)
  BY <1>1 DEF Plus, Minus
<1>6. QED
  BY <1>2, <1>3, <1>4, <1>5

(* What is known stays of its type. *)
LEMMA LearntType ==
  ASSUME NEW known \in Known, NEW e \in Events
  PROVE  Learnt(known, e) \in Known
<1>1. known.book \in Books(Prices) /\ known.position \in Account /\ known.quoted \in Quotes
  BY DEF Known
<1>2. Replay(known.book, e) \in Books(Prices)
  BY <1>1, BooksAreBooks, ReplayBook
<1>3. Booked(known.position, e) \in Account
  BY <1>1, BookedFacts
<1>4. Noted(known.quoted, e) \in Quotes
  BY <1>1, NotedFacts
<1>5. QED
  BY <1>2, <1>3, <1>4 DEF Learnt, Known

\* What is known after each of the events.
IsLearning(t, known, es) ==
  /\ t[0] = known
  /\ \A k \in 1 .. Len(es) : t[k] = Learnt(t[k - 1], es[k])

(* What is known in the end is the last step of what is known on the way. *)
LEMMA LearningFacts ==
  ASSUME NEW known \in Known, NEW es \in Seq(Events)
  PROVE  \E t : /\ IsLearning(t, known, es)
                /\ \A k \in 0 .. Len(es) : t[k] \in Known
                /\ FoldLeft(Learnt, known, es) = t[Len(es)]
<1> DEFINE V == Known
           E == Events
           F == [x \in V \X E |-> Learnt(x[1], x[2])]
           n == Len(es)
           Next2(c, S) == Learnt(c[S \ {Max(S)}], es[Max(S)])
           c == CHOOSE f : f = [S \in SUBSET (1 .. n) |-> IF S = {} THEN known ELSE Next2(f, S)]
<1>1. n \in Nat /\ DOMAIN es = 1 .. n /\ \A k \in 1 .. n : es[k] \in E
  OBVIOUS
<1>2. known \in V /\ es \in Seq(E)
  OBVIOUS
<1>3. \A v \in V, e \in E : Learnt(v, e) \in V
  BY LearntType
<1> HIDE DEF V, E
<1>4. \A v \in V, e \in E : F[<<v, e>>] = Learnt(v, e)
  OBVIOUS
<1>5. IsStep(F, V, E)
  BY <1>3 DEF IsStep
<1> HIDE DEF F
<1>6. PICK f : IsFold(f, Len(es), F, V, known, es)
  BY <1>2, <1>5, FoldExists
<1> HIDE DEF n
<1>7. f = [S \in SUBSET (1 .. n) |-> IF S = {} THEN known ELSE Next2(f, S)]
  <2>0. f \in [SUBSET (1 .. n) -> V] /\ f[{}] = known
    BY <1>6 DEF IsFold, n
  <2>1. ASSUME NEW S \in SUBSET (1 .. n), S # {}
        PROVE  f[S] = Next2(f, S)
    <3> DEFINE m == Max(S)
    <3>1. f[S] = F[<<f[S \ {m}], es[m]>>]
      BY <1>6, <2>1 DEF IsFold, n
    <3>2. m \in 1 .. n
      BY <1>1, <2>1, MaxIsMember
    <3> HIDE DEF m
    <3>3. f[S \ {m}] \in V /\ es[m] \in E
      BY <1>1, <2>0, <3>2
    <3>4. QED
      BY <1>4, <3>1, <3>3 DEF m
  <2> HIDE DEF Next2
  <2>2. QED
    BY <2>0, <2>1
<1>8. c = [S \in SUBSET (1 .. n) |-> IF S = {} THEN known ELSE Next2(c, S)]
  <2> HIDE DEF Next2
  <2>1. QED
    BY <1>7
<1>9. FoldLeft(Learnt, known, es) = c[1 .. n]
  BY <1>1 DEF FoldLeft, MapThenFoldSet, n
<1> HIDE DEF c
<1> DEFINE t == [k \in 0 .. n |-> c[1 .. k]]
<1>10. t[0] = known
  <2>1. 1 .. 0 = {} /\ 0 \in 0 .. n
    BY <1>1
  <2>2. QED
    BY <1>8, <2>1
<1>11. ASSUME NEW k \in 1 .. n
       PROVE  t[k] = Learnt(t[k - 1], es[k])
  <2> DEFINE S == 1 .. k
  <2>1. k \in S /\ S \in SUBSET (1 .. n) /\ S \ {k} = 1 .. k - 1 /\ k - 1 \in 0 .. n /\ k \in 0 .. n
    BY <1>1
  <2>2. Max(S) = k
    BY <1>1, MaxOfFirst
  <2>3. t[k] = c[S] /\ t[k - 1] = c[S \ {k}]
    BY <2>1
  <2> HIDE DEF S
  <2>4. c[S] = Next2(c, S)
    BY <1>8, <2>1
  <2>5. QED
    BY <2>2, <2>3, <2>4
<1> HIDE DEF t
<1>12. ASSUME NEW k \in 0 .. n PROVE t[k] \in V
  <2> DEFINE good == {j \in 0 .. n : t[j] \in V}
  <2>1. 0 \in good
    BY <1>1, <1>2, <1>10
  <2>2. ASSUME NEW j \in 1 .. n, j - 1 \in good PROVE j \in good
    BY <1>1, <1>3, <1>11, <2>2
  <2> HIDE DEF good
  <2>3. \A j \in 0 .. n : j \in good
    BY <1>1, <2>1, <2>2, Induct
  <2>4. QED
    BY <2>3 DEF good
<1>13. t[n] = c[1 .. n]
  BY <1>1 DEF t
<1>14. IsLearning(t, known, es)
  BY <1>10, <1>11 DEF IsLearning, n
<1>15. QED
  BY <1>9, <1>12, <1>13, <1>14 DEF V, n

-----------------------------------------------------------------------------
(* Packets in flight *)

Datagram == [seq : Nat, event : Events]

\* One element was taken out at b and put in front of those from a on.
IsMoved(new, old, a, b) ==
  /\ Len(new) = Len(old) /\ 1 <= a /\ a <= b /\ b <= Len(old)
  /\ new[a] = old[b]
  /\ \A k \in 1 .. Len(old) : k < a \/ k > b => new[k] = old[k]
  /\ \A k \in 1 .. Len(old) : a < k /\ k <= b => new[k] = old[k - 1]

\* The element at b was taken out.
IsCut(new, old, b) ==
  /\ Len(new) = Len(old) - 1 /\ 1 <= b /\ b <= Len(old)
  /\ \A k \in 1 .. Len(old) : k < b => new[k] = old[k]
  /\ \A k \in 1 .. Len(old) : k > b => new[k - 1] = old[k]

(* A packet that moves from the network to the ring overtakes those before it *)
(* on the network; one that does not fit is taken out.                        *)
LEMMA Forwarded ==
  ASSUME NEW S, NEW r \in Seq(S), NEW n \in Seq(S), NEW i \in DOMAIN n
  PROVE  /\ Append(r, n[i]) \o RemoveAt(n, i) \in Seq(S)
         /\ IsMoved(Append(r, n[i]) \o RemoveAt(n, i), r \o n, Len(r) + 1, Len(r) + i)
         /\ r \o RemoveAt(n, i) \in Seq(S)
         /\ IsCut(r \o RemoveAt(n, i), r \o n, Len(r) + i)
<1> DEFINE c == RemoveAt(n, i)
           x == n[i]
           ax == Append(r, x)
           lr == Len(r)
           ln == Len(n)
           new == ax \o c
           cut == r \o c
           old == r \o n
<1>1. /\ c \in Seq(S) /\ Len(c) = Len(n) - 1
      /\ \A j \in DOMAIN c : c[j] = n[IF j < i THEN j ELSE j + 1]
  BY RemovedFacts
<1>2. i \in 1 .. ln /\ ln \in Nat /\ lr \in Nat /\ x \in S
  OBVIOUS
<1> HIDE DEF c
<1>3. \A j \in 1 .. ln - 1 : (j < i => c[j] = n[j]) /\ (j >= i => c[j] = n[j + 1])
  BY <1>1, <1>2, SMTT(30)
<1>4. ax \in Seq(S) /\ Len(ax) = lr + 1 /\ ax[lr + 1] = x /\ \A k \in 1 .. lr : ax[k] = r[k]
  BY <1>2, SMTT(20)
<1>5. /\ old \in Seq(S) /\ Len(old) = lr + ln
      /\ \A k \in 1 .. lr : old[k] = r[k]
      /\ \A k \in 1 .. ln : old[lr + k] = n[k]
  OBVIOUS
<1>6. /\ cut \in Seq(S) /\ Len(cut) = lr + (ln - 1)
      /\ \A k \in 1 .. lr : cut[k] = r[k]
      /\ \A k \in 1 .. ln - 1 : cut[lr + k] = c[k]
  BY <1>1, <1>2, SMTT(30)
<1> HIDE DEF ax
<1>7. /\ new \in Seq(S) /\ Len(new) = lr + 1 + (ln - 1)
      /\ \A k \in 1 .. lr + 1 : new[k] = ax[k]
      /\ \A k \in 1 .. ln - 1 : new[lr + 1 + k] = c[k]
  <2>1. ax \in Seq(S)
    BY <1>4
  <2>2. c \in Seq(S)
    BY <1>1
  <2>3. /\ new \in Seq(S) /\ Len(new) = Len(ax) + Len(c)
        /\ \A k \in 1 .. Len(ax) : new[k] = ax[k]
        /\ \A k \in 1 .. Len(c) : new[Len(ax) + k] = c[k]
    BY <2>1, <2>2, Joined
  <2> HIDE DEF new
  <2>4. QED
    BY <1>1, <1>4, <2>3
<1> HIDE DEF new, cut, old, lr, ln, x
<1>8. IsMoved(new, old, lr + 1, lr + i)
  <2>1. /\ Len(new) = Len(old) /\ 1 <= lr + 1 /\ lr + 1 <= lr + i /\ lr + i <= Len(old)
    BY <1>2, <1>5, <1>7
  <2>2. new[lr + 1] = old[lr + i]
    BY <1>2, <1>4, <1>5, <1>7 DEF x
  <2>3. ASSUME NEW k \in 1 .. Len(old), k < lr + 1 \/ k > lr + i PROVE new[k] = old[k]
    <3>1. CASE k < lr + 1
      BY <1>2, <1>4, <1>5, <1>7, <3>1
    <3>2. CASE k > lr + i
      <4> DEFINE j == k - lr - 1
      <4>1. j \in 1 .. ln - 1 /\ j >= i /\ k = lr + 1 + j /\ k = lr + (j + 1) /\ j + 1 \in 1 .. ln
        BY <1>2, <1>5, <3>2
      <4> HIDE DEF j
      <4>2. new[lr + 1 + j] = c[j] /\ c[j] = n[j + 1]
        BY <1>3, <1>7, <4>1
      <4>3. old[lr + (j + 1)] = n[j + 1]
        BY <1>5, <4>1
      <4>4. QED
        BY <4>1, <4>2, <4>3
    <3>3. QED
      BY <2>3, <3>1, <3>2
  <2>4. ASSUME NEW k \in 1 .. Len(old), lr + 1 < k, k <= lr + i PROVE new[k] = old[k - 1]
    <3> DEFINE j == k - lr - 1
    <3>1. j \in 1 .. ln - 1 /\ j < i /\ k = lr + 1 + j /\ k - 1 = lr + j /\ j \in 1 .. ln
      BY <1>2, <1>5, <2>4
    <3> HIDE DEF j
    <3>2. new[lr + 1 + j] = c[j] /\ c[j] = n[j]
      BY <1>3, <1>7, <3>1
    <3>3. old[lr + j] = n[j]
      BY <1>5, <3>1
    <3>4. QED
      BY <3>1, <3>2, <3>3
  <2>5. QED
    BY <2>1, <2>2, <2>3, <2>4 DEF IsMoved
<1>9. IsCut(cut, old, lr + i)
  <2>1. Len(cut) = Len(old) - 1 /\ 1 <= lr + i /\ lr + i <= Len(old)
    BY <1>2, <1>5, <1>6
  <2>2. ASSUME NEW k \in 1 .. Len(old), k < lr + i PROVE cut[k] = old[k]
    <3>1. CASE k <= lr
      BY <1>2, <1>5, <1>6, <3>1
    <3>2. CASE k > lr
      <4> DEFINE j == k - lr
      <4>1. j \in 1 .. ln - 1 /\ j < i /\ k = lr + j /\ j \in 1 .. ln
        BY <1>2, <1>5, <2>2, <3>2
      <4> HIDE DEF j
      <4>2. cut[lr + j] = c[j] /\ c[j] = n[j]
        BY <1>3, <1>6, <4>1
      <4>3. old[lr + j] = n[j]
        BY <1>5, <4>1
      <4>4. QED
        BY <4>1, <4>2, <4>3
    <3>3. QED
      BY <1>2, <1>5, <3>1, <3>2
  <2>3. ASSUME NEW k \in 1 .. Len(old), k > lr + i PROVE cut[k - 1] = old[k]
    <3> DEFINE j == k - lr - 1
    <3>1. j \in 1 .. ln - 1 /\ j >= i /\ k - 1 = lr + j /\ k = lr + (j + 1) /\ j + 1 \in 1 .. ln
      BY <1>2, <1>5, <2>3
    <3> HIDE DEF j
    <3>2. cut[lr + j] = c[j] /\ c[j] = n[j + 1]
      BY <1>3, <1>6, <3>1
    <3>3. old[lr + (j + 1)] = n[j + 1]
      BY <1>5, <3>1
    <3>4. QED
      BY <3>1, <3>2, <3>3
  <2>4. QED
    BY <2>1, <2>2, <2>3 DEF IsCut
<1>10. QED
  BY <1>6, <1>7, <1>8, <1>9 DEF new, cut, old, ax, c, x, lr

(* The oldest event of the ring is the first in flight. *)
LEMMA HeadTaken ==
  ASSUME NEW S, NEW r \in Seq(S), NEW n \in Seq(S), r # <<>>
  PROVE  /\ Tail(r) \o n \in Seq(S) /\ IsCut(Tail(r) \o n, r \o n, 1)
         /\ (r \o n)[1] = Head(r)
<1> DEFINE lr == Len(r)
           ln == Len(n)
           tl == Tail(r)
           new == tl \o n
           old == r \o n
<1>1. /\ lr \in Nat \ {0} /\ ln \in Nat /\ tl \in Seq(S) /\ Len(tl) = lr - 1
      /\ \A k \in 1 .. lr - 1 : tl[k] = r[k + 1]
      /\ Head(r) = r[1]
  OBVIOUS
<1> HIDE DEF tl
<1>2. /\ old \in Seq(S) /\ Len(old) = lr + ln
      /\ \A k \in 1 .. lr : old[k] = r[k]
      /\ \A k \in 1 .. ln : old[lr + k] = n[k]
  OBVIOUS
<1>3. /\ new \in Seq(S) /\ Len(new) = lr - 1 + ln
      /\ \A k \in 1 .. lr - 1 : new[k] = tl[k]
      /\ \A k \in 1 .. ln : new[lr - 1 + k] = n[k]
  <2>1. tl \in Seq(S)
    BY <1>1
  <2>2. /\ new \in Seq(S) /\ Len(new) = Len(tl) + Len(n)
        /\ \A k \in 1 .. Len(tl) : new[k] = tl[k]
        /\ \A k \in 1 .. Len(n) : new[Len(tl) + k] = n[k]
    BY <2>1, Joined
  <2> HIDE DEF new
  <2>3. QED
    BY <1>1, <2>2
<1> HIDE DEF old, new, lr, ln
<1>4. ASSUME NEW k \in 1 .. Len(old), k > 1 PROVE new[k - 1] = old[k]
  <2>1. CASE k <= lr
    <3>1. k - 1 \in 1 .. lr - 1 /\ k - 1 + 1 = k /\ k \in 1 .. lr
      BY <1>1, <1>2, <1>4, <2>1
    <3>2. new[k - 1] = tl[k - 1] /\ tl[k - 1] = r[k - 1 + 1] /\ old[k] = r[k]
      BY <1>1, <1>2, <1>3, <3>1
    <3>3. QED
      BY <3>1, <3>2
  <2>2. CASE k > lr
    <3> DEFINE j == k - lr
    <3>1. j \in 1 .. ln /\ k = lr + j /\ k - 1 = lr - 1 + j
      BY <1>1, <1>2, <2>2
    <3>2. QED
      BY <1>2, <1>3, <3>1
  <2>3. QED
    BY <1>1, <1>2, <2>1, <2>2
<1>5. IsCut(new, old, 1)
  BY <1>1, <1>2, <1>3, <1>4 DEF IsCut
<1>6. old[1] = Head(r)
  BY <1>1, <1>2
<1>7. QED
  BY <1>3, <1>5, <1>6 DEF new, old, tl

(* What is sent comes last in flight. *)
LEMMA SentLast ==
  ASSUME NEW S, NEW r \in Seq(S), NEW n \in Seq(S), NEW x \in S
  PROVE  r \o Append(n, x) = Append(r \o n, x)
OBVIOUS

(* The events of packets, one by one. *)
LEMMA EventsOfFacts ==
  ASSUME NEW q \in Seq(Datagram)
  PROVE  /\ EventsOf(q) \in Seq(Events) /\ Len(EventsOf(q)) = Len(q)
         /\ \A k \in 1 .. Len(q) : EventsOf(q)[k] = q[k].event /\ q[k].event \in Events
<1> DEFINE n == Len(q)
           f == [k \in 1 .. n |-> q[k].event]
<1>1. n \in Nat /\ DOMAIN q = 1 .. n /\ \A k \in 1 .. n : q[k] \in Datagram
  OBVIOUS
<1>2. \A k \in 1 .. n : q[k].event \in Events
  BY <1>1 DEF Datagram
<1>3. EventsOf(q) = f
  BY <1>1 DEF EventsOf
<1> HIDE DEF n
<1>4. f \in Seq(Events) /\ Len(f) = n /\ \A k \in 1 .. n : f[k] = q[k].event
  BY <1>1, <1>2
<1>5. QED
  BY <1>2, <1>3, <1>4 DEF n

-----------------------------------------------------------------------------
(* The fills in flight *)

\* The positions from pos to end as the packets are booked one by one.
IsTally(u, q, pos, end) ==
  /\ u[0] = pos /\ u[Len(q)] = end
  /\ \A k \in 0 .. Len(q) : u[k] \in Account
  /\ \A k \in 1 .. Len(q) : u[k] = Booked(u[k - 1], q[k].event)

Tallies(q, pos, end) == \E u : IsTally(u, q, pos, end)

(* A tally leads from a position to a position. *)
LEMMA TallyEnds ==
  ASSUME NEW q \in Seq(Datagram), NEW pos, NEW end, Tallies(q, pos, end)
  PROVE  pos \in Account /\ end \in Account
<1>1. PICK u : IsTally(u, q, pos, end)
  BY DEF Tallies
<1>2. Len(q) \in Nat
  OBVIOUS
<1>3. 0 \in 0 .. Len(q) /\ Len(q) \in 0 .. Len(q)
  BY <1>2
<1>4. QED
  BY <1>1, <1>3 DEF IsTally

(* With nothing in flight it leads nowhere. *)
LEMMA TallyNone ==
  ASSUME NEW pos \in Account
  PROVE  Tallies(<<>>, pos, pos)
<1> DEFINE u == [k \in {0} |-> pos]
           q == <<>>
<1>1. Len(q) = 0 /\ u[0] = pos
  OBVIOUS
<1> HIDE DEF u, q
<1>2. IsTally(u, q, pos, pos)
  BY <1>1 DEF IsTally
<1>3. QED
  BY <1>2 DEF Tallies, q

(* A packet sent is booked last ... *)
LEMMA TallySent ==
  ASSUME NEW q \in Seq(Datagram), NEW pos, NEW end, Tallies(q, pos, end), NEW x \in Datagram
  PROVE  Tallies(Append(q, x), pos, Booked(end, x.event))
<1>1. PICK u : IsTally(u, q, pos, end)
  BY DEF Tallies
<1> DEFINE n == Len(q)
           new == Append(q, x)
           last == Booked(end, x.event)
           v == [k \in 0 .. n + 1 |-> IF k = n + 1 THEN last ELSE u[k]]
<1>2. /\ n \in Nat /\ Len(new) = n + 1 /\ new[n + 1] = x /\ \A k \in 1 .. n : new[k] = q[k]
  OBVIOUS
<1>3. last \in Account
  <2>1. end \in Account /\ x.event \in Events
    BY TallyEnds DEF Datagram
  <2>2. QED
    BY <2>1, BookedFacts
<1>4. /\ u[0] = pos /\ u[n] = end
      /\ \A k \in 0 .. n : u[k] \in Account
      /\ \A k \in 1 .. n : u[k] = Booked(u[k - 1], q[k].event)
  BY <1>1 DEF IsTally
<1> HIDE DEF new, n
<1>5. v[n + 1] = last /\ \A k \in 0 .. n : v[k] = u[k]
  BY <1>2
<1> HIDE DEF v
<1>6. ASSUME NEW k \in 0 .. n + 1 PROVE v[k] \in Account
  <2>1. k = n + 1 \/ k \in 0 .. n
    BY <1>2
  <2>2. QED
    BY <1>3, <1>4, <1>5, <2>1
<1>7. ASSUME NEW k \in 1 .. n + 1 PROVE v[k] = Booked(v[k - 1], new[k].event)
  <2>1. CASE k = n + 1
    <3>1. k - 1 = n /\ n \in 0 .. n
      BY <1>2, <2>1
    <3>2. v[k - 1] = end /\ new[k] = x
      BY <1>2, <1>4, <1>5, <2>1, <3>1
    <3>3. QED
      BY <1>5, <2>1, <3>2 DEF last
  <2>2. CASE k # n + 1
    <3>1. k \in 1 .. n /\ k \in 0 .. n /\ k - 1 \in 0 .. n
      BY <1>2, <2>2
    <3>2. QED
      BY <1>2, <1>4, <1>5, <3>1
  <2>3. QED
    BY <2>1, <2>2
<1>8. v[0] = pos
  BY <1>2, <1>4, <1>5
<1>9. IsTally(v, new, pos, last)
  BY <1>2, <1>5, <1>6, <1>7, <1>8 DEF IsTally
<1>10. QED
  BY <1>9 DEF Tallies, new, last

(* ... one that overtakes others is worth what it was ... *)
LEMMA TallyMoved ==
  ASSUME NEW q \in Seq(Datagram), NEW pos, NEW end, Tallies(q, pos, end),
         NEW new, NEW a \in Nat, NEW b \in Nat, IsMoved(new, q, a, b)
  PROVE  Tallies(new, pos, end)
<1>1. PICK u : IsTally(u, q, pos, end)
  BY DEF Tallies
<1> DEFINE n == Len(q)
           d == Booked(Flat, q[b].event)
           v == [k \in 0 .. n |-> IF a <= k /\ k < b THEN Plus(u[k - 1], d) ELSE u[k]]
<1>2. n \in Nat /\ \A k \in 1 .. n : q[k].event \in Events
  BY EventsOfFacts
<1>3. /\ Len(new) = n /\ 1 <= a /\ a <= b /\ b <= n
      /\ new[a] = q[b]
      /\ \A k \in 1 .. n : k < a \/ k > b => new[k] = q[k]
      /\ \A k \in 1 .. n : a < k /\ k <= b => new[k] = q[k - 1]
  BY DEF IsMoved
<1>4. /\ u[0] = pos /\ u[n] = end
      /\ \A k \in 0 .. n : u[k] \in Account
      /\ \A k \in 1 .. n : u[k] = Booked(u[k - 1], q[k].event)
  BY <1>1 DEF IsTally
<1> HIDE DEF n
<1>5. d \in Account /\ \A p \in Account : Booked(p, q[b].event) = Plus(p, d)
  <2>1. q[b].event \in Events
    BY <1>2, <1>3
  <2>2. u[0] \in Account
    BY <1>2, <1>4
  <2>3. QED
    BY <2>1, <2>2, BookedFacts
<1> HIDE DEF d
<1>6. \A k \in 0 .. n : /\ a <= k /\ k < b => v[k] = Plus(u[k - 1], d)
                        /\ ~ (a <= k /\ k < b) => v[k] = u[k]
  OBVIOUS
<1> HIDE DEF v
<1>7. ASSUME NEW k \in 0 .. n PROVE v[k] \in Account
  <2>1. CASE a <= k /\ k < b
    <3> DEFINE w == u[k - 1]
    <3>1. k - 1 \in 0 .. n
      BY <1>2, <1>3, <2>1
    <3>2. w \in Account
      BY <1>4, <3>1
    <3>3. v[k] = Plus(w, d)
      BY <1>6, <2>1
    <3> HIDE DEF w
    <3>4. Plus(w, d) \in Account
      BY <1>5, <3>2, PlusFacts
    <3>5. QED
      BY <3>3, <3>4
  <2>2. CASE ~ (a <= k /\ k < b)
    BY <1>4, <1>6, <2>2
  <2>3. QED
    BY <2>1, <2>2
<1>8. ASSUME NEW k \in 1 .. n PROVE v[k] = Booked(v[k - 1], new[k].event)
  <2>0. k \in 0 .. n /\ k - 1 \in 0 .. n
    BY <1>2
  <2>1. CASE k < a \/ k > b
    <3>1. v[k] = u[k] /\ v[k - 1] = u[k - 1]
      BY <1>2, <1>3, <1>6, <2>0, <2>1
    <3>2. QED
      BY <1>3, <1>4, <2>1, <3>1
  <2>2. CASE k = a
    <3>1. v[k - 1] = u[k - 1]
      BY <1>2, <1>3, <1>6, <2>0, <2>2
    <3>2. v[k] = Plus(u[k - 1], d)
      <4>1. CASE a < b
        BY <1>6, <2>0, <2>2, <4>1
      <4>2. CASE a = b
        <5>1. v[k] = u[k]
          BY <1>6, <2>0, <2>2, <4>2
        <5>2. u[k] = Booked(u[k - 1], q[b].event)
          BY <1>4, <2>2, <4>2
        <5>3. QED
          BY <1>4, <1>5, <2>0, <5>1, <5>2
      <4>3. QED
        BY <1>3, <4>1, <4>2
    <3>3. Booked(u[k - 1], q[b].event) = Plus(u[k - 1], d)
      BY <1>4, <1>5, <2>0
    <3>4. new[k] = q[b]
      BY <1>3, <2>2
    <3>5. QED
      BY <3>1, <3>2, <3>3, <3>4
  <2>3. CASE a < k /\ k <= b
    <3> DEFINE j == k - 1
               e == q[j].event
    <3>1. j \in 1 .. n /\ j - 1 \in 0 .. n /\ a <= j /\ j < b /\ j \in 0 .. n
      BY <1>2, <1>3, <2>3
    <3>2. new[k] = q[j] /\ e \in Events
      BY <1>2, <1>3, <2>3, <3>1
    <3>3. v[j] = Plus(u[j - 1], d) /\ u[j] = Booked(u[j - 1], e) /\ u[j - 1] \in Account /\ u[j] \in Account
      BY <1>4, <1>6, <3>1
    <3>4. v[k] = Plus(u[j], d)
      <4>1. CASE k < b
        BY <1>6, <2>0, <2>3, <4>1
      <4>2. CASE k = b
        <5>1. v[k] = u[k]
          BY <1>6, <2>0, <4>2
        <5>2. u[k] = Booked(u[k - 1], q[b].event)
          BY <1>4, <4>2
        <5>3. QED
          BY <1>5, <3>3, <5>1, <5>2
      <4>3. QED
        BY <2>3, <4>1, <4>2
    <3> HIDE DEF e
    <3>5. /\ Booked(u[j - 1], e) = Plus(u[j - 1], Booked(Flat, e))
          /\ Booked(Flat, e) \in Account
      BY <3>2, <3>3, BookedFacts
    <3>6. Booked(v[j], e) = Plus(v[j], Booked(Flat, e))
      <4>1. v[j] \in Account
        BY <1>7, <3>1
      <4>2. QED
        BY <3>2, <4>1, BookedFacts
    <3>7. Plus(Plus(u[j - 1], d), Booked(Flat, e)) = Plus(Plus(u[j - 1], Booked(Flat, e)), d)
      <4> DEFINE w == u[j - 1]
                 x == Booked(Flat, e)
      <4>1. w \in Account
        BY <3>3
      <4>2. x \in Account
        BY <3>5
      <4> HIDE DEF w, x
      <4>3. Plus(Plus(w, d), x) = Plus(Plus(w, x), d)
        BY <1>5, <4>1, <4>2, PlusFacts
      <4>4. QED
        BY <4>3 DEF w, x
    <3>8. QED
      BY <3>2, <3>3, <3>4, <3>5, <3>6, <3>7 DEF e
  <2>4. QED
    BY <1>3, <2>1, <2>2, <2>3
<1>9. v[0] = pos /\ v[n] = end
  BY <1>2, <1>3, <1>4, <1>6
<1>10. IsTally(v, new, pos, end)
  BY <1>3, <1>7, <1>8, <1>9 DEF IsTally
<1>11. QED
  BY <1>10 DEF Tallies

(* ... one that is lost is missing in the end ... *)
LEMMA TallyCut ==
  ASSUME NEW q \in Seq(Datagram), NEW pos, NEW end, Tallies(q, pos, end),
         NEW new, NEW b \in Nat, IsCut(new, q, b)
  PROVE  Tallies(new, pos, Minus(end, Booked(Flat, q[b].event)))
<1>1. PICK u : IsTally(u, q, pos, end)
  BY DEF Tallies
<1> DEFINE n == Len(q)
           d == Booked(Flat, q[b].event)
           v == [k \in 0 .. n - 1 |-> IF k < b THEN u[k] ELSE Minus(u[k + 1], d)]
<1>2. n \in Nat /\ \A k \in 1 .. n : q[k].event \in Events
  BY EventsOfFacts
<1>3. /\ Len(new) = n - 1 /\ 1 <= b /\ b <= n
      /\ \A k \in 1 .. n : k < b => new[k] = q[k]
      /\ \A k \in 1 .. n : k > b => new[k - 1] = q[k]
  BY DEF IsCut
<1>4. /\ u[0] = pos /\ u[n] = end
      /\ \A k \in 0 .. n : u[k] \in Account
      /\ \A k \in 1 .. n : u[k] = Booked(u[k - 1], q[k].event)
  BY <1>1 DEF IsTally
<1> HIDE DEF n
<1>5. d \in Account /\ \A p \in Account : Booked(p, q[b].event) = Plus(p, d)
  <2>1. q[b].event \in Events
    BY <1>2, <1>3
  <2>2. u[0] \in Account
    BY <1>2, <1>4
  <2>3. QED
    BY <2>1, <2>2, BookedFacts
<1> HIDE DEF d
<1>6. \A k \in 0 .. n - 1 : /\ k < b => v[k] = u[k]
                            /\ k >= b => v[k] = Minus(u[k + 1], d)
  BY <1>2, <1>3
<1> HIDE DEF v
<1>7. ASSUME NEW k \in 0 .. n - 1 PROVE v[k] \in Account
  <2>1. k \in 0 .. n /\ k + 1 \in 0 .. n
    BY <1>2
  <2>2. u[k] \in Account /\ u[k + 1] \in Account
    BY <1>4, <2>1
  <2>3. Minus(u[k + 1], d) \in Account
    BY <1>5, <2>2, PlusFacts
  <2>4. QED
    BY <1>3, <1>6, <2>2, <2>3
<1>8. u[b] = Plus(u[b - 1], d) /\ u[b - 1] \in Account /\ Minus(u[b], d) = u[b - 1]
  <2>1. b \in 1 .. n /\ b - 1 \in 0 .. n
    BY <1>2, <1>3
  <2>2. u[b] = Plus(u[b - 1], d) /\ u[b - 1] \in Account
    BY <1>4, <1>5, <2>1
  <2> DEFINE w == u[b - 1]
  <2>3. w \in Account
    BY <2>2
  <2> HIDE DEF w
  <2>4. Minus(Plus(w, d), d) = w
    BY <1>5, <2>3, PlusFacts
  <2>5. QED
    BY <2>2, <2>4 DEF w
<1>9. ASSUME NEW k \in 1 .. n - 1 PROVE v[k] = Booked(v[k - 1], new[k].event)
  <2>0. k \in 0 .. n - 1 /\ k - 1 \in 0 .. n - 1 /\ k \in 1 .. n /\ k + 1 \in 1 .. n
    BY <1>2
  <2>1. CASE k < b
    BY <1>3, <1>4, <1>6, <2>0, <2>1
  <2>2. CASE k >= b
    <3> DEFINE j == k + 1
               e == q[j].event
    <3>1. j - 1 = k /\ j > b /\ j \in 0 .. n /\ k \in 0 .. n
      <4>1. j = k + 1 /\ j \in 1 .. n
        BY <2>0
      <4>2. QED
        BY <1>2, <2>2, <4>1
    <3>2. new[k] = q[j] /\ e \in Events
      BY <1>2, <1>3, <2>0, <3>1
    <3>3. v[k] = Minus(u[j], d) /\ u[j] = Booked(u[k], e) /\ u[k] \in Account
      <4>1. v[k] = Minus(u[j], d)
        BY <1>6, <2>0, <2>2
      <4>2. u[j] = Booked(u[j - 1], e)
        BY <1>4, <2>0
      <4>3. QED
        BY <1>4, <3>1, <4>1, <4>2
    <3>4. v[k - 1] = Minus(u[k], d)
      <4>1. CASE k = b
        <5>1. k - 1 < b
          BY <1>3, <4>1
        <5>2. v[k - 1] = u[k - 1]
          BY <1>6, <2>0, <5>1
        <5>3. QED
          BY <1>8, <4>1, <5>2
      <4>2. CASE k # b
        <5>1. k - 1 >= b /\ k - 1 + 1 = k
          BY <1>3, <2>0, <2>2, <4>2
        <5>2. v[k - 1] = Minus(u[k - 1 + 1], d)
          BY <1>6, <2>0, <5>1
        <5>3. QED
          BY <5>1, <5>2
      <4>3. QED
        BY <4>1, <4>2
    <3> HIDE DEF e
    <3>5. /\ Booked(u[k], e) = Plus(u[k], Booked(Flat, e))
          /\ Booked(Flat, e) \in Account
      BY <3>2, <3>3, BookedFacts
    <3>6. Booked(v[k - 1], e) = Plus(v[k - 1], Booked(Flat, e))
      <4>1. v[k - 1] \in Account
        BY <1>7, <2>0
      <4>2. QED
        BY <3>2, <4>1, BookedFacts
    <3>7. Minus(Plus(u[k], Booked(Flat, e)), d) = Plus(Minus(u[k], d), Booked(Flat, e))
      BY <1>5, <3>3, <3>5, PlusFacts
    <3>8. QED
      BY <3>2, <3>3, <3>4, <3>5, <3>6, <3>7 DEF e
  <2>3. QED
    BY <1>3, <2>0, <2>1, <2>2
<1>10. v[0] = pos
  BY <1>2, <1>3, <1>4, <1>6
<1>11. v[n - 1] = Minus(end, d)
  <2>1. n - 1 \in 0 .. n - 1
    BY <1>2, <1>3
  <2>2. CASE b = n
    <3>1. v[n - 1] = u[b - 1]
      BY <1>2, <1>6, <2>1, <2>2
    <3>2. QED
      BY <1>4, <1>8, <2>2, <3>1
  <2>3. CASE b # n
    <3>1. n - 1 >= b /\ n - 1 + 1 = n
      BY <1>2, <1>3, <2>3
    <3>2. v[n - 1] = Minus(u[n - 1 + 1], d)
      BY <1>6, <2>1, <3>1
    <3>3. QED
      BY <1>4, <3>1, <3>2
  <2>4. QED
    BY <2>2, <2>3
<1>12. IsTally(v, new, pos, Minus(end, d))
  BY <1>3, <1>7, <1>9, <1>10, <1>11 DEF IsTally
<1>13. QED
  BY <1>12 DEF Tallies, d

(* ... and the first one is booked. *)
LEMMA TallyApplied ==
  ASSUME NEW q \in Seq(Datagram), NEW pos, NEW end, Tallies(q, pos, end),
         NEW new, IsCut(new, q, 1)
  PROVE  Tallies(new, Booked(pos, q[1].event), end)
<1>1. PICK u : IsTally(u, q, pos, end)
  BY DEF Tallies
<1> DEFINE n == Len(q)
           v == [k \in 0 .. n - 1 |-> u[k + 1]]
<1>2. n \in Nat
  OBVIOUS
<1>3. /\ Len(new) = n - 1 /\ 1 <= n
      /\ \A k \in 1 .. n : k > 1 => new[k - 1] = q[k]
  BY DEF IsCut
<1>4. /\ u[0] = pos /\ u[n] = end
      /\ \A k \in 0 .. n : u[k] \in Account
      /\ \A k \in 1 .. n : u[k] = Booked(u[k - 1], q[k].event)
  BY <1>1 DEF IsTally
<1> HIDE DEF n
<1>5. \A k \in 0 .. n - 1 : v[k] = u[k + 1] /\ k + 1 \in 0 .. n /\ k + 1 \in 1 .. n
  BY <1>2
<1> HIDE DEF v
<1>6. \A k \in 0 .. n - 1 : v[k] \in Account
  BY <1>4, <1>5
<1>7. ASSUME NEW k \in 1 .. n - 1 PROVE v[k] = Booked(v[k - 1], new[k].event)
  <2> DEFINE j == k + 1
  <2>1. j \in 1 .. n /\ j > 1 /\ j - 1 = k /\ k \in 0 .. n - 1 /\ k - 1 \in 0 .. n - 1 /\ k - 1 + 1 = k
    BY <1>2
  <2>2. v[k] = u[j] /\ v[k - 1] = u[k] /\ new[k] = q[j]
    BY <1>3, <1>5, <2>1
  <2>3. u[j] = Booked(u[j - 1], q[j].event)
    BY <1>4, <2>1
  <2>4. QED
    BY <2>1, <2>2, <2>3
<1>8. v[0] = Booked(pos, q[1].event)
  <2>1. 0 \in 0 .. n - 1 /\ 1 \in 1 .. n /\ 0 + 1 = 1 /\ 1 - 1 = 0
    BY <1>2, <1>3
  <2>2. v[0] = u[1] /\ u[1] = Booked(u[1 - 1], q[1].event)
    BY <1>4, <1>5, <2>1
  <2>3. QED
    BY <1>4, <2>1, <2>2
<1>9. v[n - 1] = end
  <2>1. n - 1 \in 0 .. n - 1 /\ n - 1 + 1 = n
    BY <1>2, <1>3
  <2>2. QED
    BY <1>4, <1>5, <2>1
<1>10. IsTally(v, new, Booked(pos, q[1].event), end)
  BY <1>3, <1>6, <1>7, <1>8, <1>9 DEF IsTally
<1>11. QED
  BY <1>10 DEF Tallies

(* The end of the tally is the position the strategy will know. *)
LEMMA TallyTotal ==
  ASSUME NEW q \in Seq(Datagram), NEW known \in Known, NEW end, Tallies(q, known.position, end)
  PROVE  FoldLeft(Learnt, known, EventsOf(q)).position = end
<1> DEFINE es == EventsOf(q)
           n == Len(q)
<1>1. n \in Nat /\ es \in Seq(Events) /\ Len(es) = n /\ \A k \in 1 .. n : es[k] = q[k].event
  BY EventsOfFacts
<1>2. es \in Seq(Events)
  BY <1>1
<1> HIDE DEF es, n
<1>3. PICK t : IsLearning(t, known, es) /\ FoldLeft(Learnt, known, es) = t[Len(es)]
  BY <1>2, LearningFacts
<1>4. PICK u : IsTally(u, q, known.position, end)
  BY DEF Tallies
<1> DEFINE same == {k \in 0 .. n : t[k].position = u[k]}
<1>5. 0 \in same
  BY <1>1, <1>3, <1>4 DEF IsLearning, IsTally
<1>6. ASSUME NEW k \in 1 .. n, k - 1 \in same PROVE k \in same
  <2>1. t[k] = Learnt(t[k - 1], es[k])
    BY <1>1, <1>3 DEF IsLearning
  <2>2. t[k].position = Booked(t[k - 1].position, es[k])
    BY <2>1 DEF Learnt
  <2>3. u[k] = Booked(u[k - 1], q[k].event)
    BY <1>4 DEF IsTally, n
  <2>4. QED
    BY <1>1, <1>6, <2>2, <2>3
<1> HIDE DEF same
<1>7. \A k \in 0 .. n : k \in same
  BY <1>1, <1>5, <1>6, Induct
<1>8. n \in same
  BY <1>1, <1>7
<1>9. QED
  BY <1>1, <1>3, <1>4, <1>8 DEF same, IsTally, n, es

-----------------------------------------------------------------------------
(* Our price in a snapshot *)

(* A snapshot of a book on which someone could know our orders tells the price *)
(* of each of them.                                                            *)
LEMMA OwnPriceFacts ==
  ASSUME NEW b, IsBook(b, Prices), Finite(b), NEW s \in Side, NEW known \in Int \cup BOOLEAN
  PROVE  /\ OwnPrice(ExportSide(b, s), known) \in Int \cup BOOLEAN
         /\ \A q : Knows(b, q) =>
              \A p \in DOMAIN b[s] : \A i \in DOMAIN b[s][p] :
                b[s][p][i].ours => OwnPrice(ExportSide(b, s), known) = p
<1> DEFINE rows == ExportSide(b, s)
           I == {i \in 1 .. Len(rows) : rows[i].order.ours}
<1>1. /\ rows \in Seq(Row(Prices)) /\ IsContent(rows, b, s, DOMAIN b[s])
  <2>1. IsFiniteSet(DOMAIN b[s])
    BY DEF Finite
  <2>2. Prices \in SUBSET Int
    BY FeedFacts
  <2>3. QED
    BY <2>1, <2>2, ExportContent
<1> HIDE DEF rows
<1>2. I \in SUBSET Nat /\ 0 \notin I
  OBVIOUS
<1>3. OwnPrice(rows, known) = IF I # {} THEN rows[Min(I)].price ELSE known
  BY <1>2, MinIsMember DEF OwnPrice, SelectInSeq
<1>4. I # {} => Min(I) \in I
  BY <1>2, MinIsMember
<1>5. \A i \in I : /\ rows[i].price \in DOMAIN b[s] /\ rows[i].price \in Int
                   /\ \E j \in DOMAIN b[s][rows[i].price] :
                        b[s][rows[i].price][j].ours
  <2> SUFFICES ASSUME NEW i \in I
               PROVE  /\ rows[i].price \in DOMAIN b[s] /\ rows[i].price \in Int
                      /\ \E j \in DOMAIN b[s][rows[i].price] : b[s][rows[i].price][j].ours
    OBVIOUS
  <2>1. rows[i].price \in DOMAIN b[s]
    BY <1>1 DEF IsContent
  <2>2. PICK j \in DOMAIN b[s][rows[i].price] : rows[i].order = b[s][rows[i].price][j]
    BY <1>1 DEF IsContent
  <2>3. rows[i].price \in Int
    BY <2>1, FeedFacts DEF IsBook
  <2>4. QED
    BY <2>1, <2>2, <2>3
<1>6. ASSUME NEW q, Knows(b, q), NEW p \in DOMAIN b[s], NEW i \in DOMAIN b[s][p], b[s][p][i].ours
      PROVE  OwnPrice(rows, known) = p
  <2>1. PICK k \in 1 .. Len(rows) : rows[k].order = b[s][p][i]
    BY <1>1 DEF IsContent
  <2>2. k \in I
    BY <1>6, <2>1
  <2> DEFINE m == Min(I)
  <2>3. m \in I
    BY <1>4, <2>2
  <2>4. OwnPrice(rows, known) = rows[m].price
    BY <1>3, <2>2
  <2> HIDE DEF m
  <2>5. rows[m].price \in DOMAIN b[s] /\ \E j \in DOMAIN b[s][rows[m].price] : b[s][rows[m].price][j].ours
    BY <1>5, <2>3
  <2>6. q[s] = p /\ q[s] = rows[m].price
    BY <1>6, <2>5 DEF Knows
  <2>7. QED
    BY <2>4, <2>6
<1>7. OwnPrice(rows, known) \in Int \cup BOOLEAN
  BY <1>3, <1>4, <1>5
<1>8. QED
  BY <1>6, <1>7 DEF rows

-----------------------------------------------------------------------------
(* The history of the feed *)

\* Event e keeps a book that is known by q known by what e makes of q, and the
\* sides of a book apart.
Tells(b, e, c) == /\ \A q \in Quotes : Knows(b, q) => Knows(c, Noted(q, e))
                  /\ Apart(b) => Apart(c)

\* log[k] is the event with number k and books[k] the book it happens on; book
\* is what the n events so far describe.
IsHistory(log, books, n, book) ==
  /\ n \in Nat /\ books[n] = book
  /\ \A k \in 0 .. n : /\ Sound(books[k], Prices) /\ Apart(books[k])
                       /\ \E q \in Quotes : Knows(books[k], q)
  /\ \A k \in 0 .. n - 1 : /\ log[k] \in Events
                           /\ books[k + 1] = Replay(books[k], log[k])
                           /\ Tells(books[k], log[k], books[k + 1])

\* The packets carry the events of their numbers.
Carries(log, n, packets) ==
  \A i \in 1 .. Len(packets) : /\ packets[i].seq \in 0 .. n - 1
                               /\ packets[i].event = log[packets[i].seq]

\* The snapshot is one of the book its number stands for.
IsSnapshot(books, n, snapshot) ==
  /\ snapshot.seq \in 0 .. n
  /\ snapshot.seq > 0 => /\ snapshot.bids = ExportSide(books[snapshot.seq], "Bid")
                         /\ snapshot.asks = ExportSide(books[snapshot.seq], "Ask")

\* The packets are the last ones sent, in order, and the reader has the book
\* before them and knows the orders of ours on it.
InStep(books, n, packets, book, quotes) ==
  \E k \in Nat : /\ k + Len(packets) = n
                 /\ \A i \in 1 .. Len(packets) : packets[i].seq = k + i - 1
                 /\ book = books[k] /\ Knows(books[k], quotes)

\* There is a history that explains the book, the packets and the snapshot, and
\* what a reader that is in step has replayed.
Explained(n, book, packets, snapshot, inStep, replayed, quotes) ==
  \E log, books : /\ IsHistory(log, books, n, book)
                  /\ Carries(log, n, packets)
                  /\ IsSnapshot(books, n, snapshot)
                  /\ inStep => InStep(books, n, packets, replayed, quotes)

(* At the start nothing has happened. *)
LEMMA NothingYet ==
  ASSUME NEW snapshot, snapshot.seq = 0, NEW quotes \in Quotes
  PROVE  Explained(0, EmptyBook, <<>>, snapshot, TRUE, EmptyBook, quotes)
<1> DEFINE books == [k \in {0} |-> EmptyBook]
           log == [k \in {} |-> 0]
           none == <<>>
           n == 0
           yes == TRUE
<1>1. books[0] = EmptyBook /\ Len(none) = 0 /\ 1 .. 0 = {} /\ 0 .. 0 = {0} /\ 0 .. 0 - 1 = {}
  OBVIOUS
<1>2. Sound(EmptyBook, Prices) /\ Knows(EmptyBook, quotes) /\ Apart(EmptyBook)
  BY EmptyIsSound DEF Knows, Apart, EmptyBook, Side
<1> HIDE DEF books, log, none
<1>3. IsHistory(log, books, 0, EmptyBook)
  BY <1>1, <1>2 DEF IsHistory
<1>4. Carries(log, 0, none)
  BY <1>1 DEF Carries
<1>5. IsSnapshot(books, 0, snapshot)
  BY DEF IsSnapshot
<1>6. InStep(books, 0, none, EmptyBook, quotes)
  <2>1. 0 \in Nat /\ 0 + Len(none) = 0
    BY <1>1
  <2>2. QED
    BY <1>1, <1>2, <2>1 DEF InStep
<1> HIDE DEF n, yes
<1>7. Explained(n, EmptyBook, none, snapshot, yes, EmptyBook, quotes)
  BY <1>3, <1>4, <1>5, <1>6 DEF Explained, n
<1>8. QED
  BY <1>7 DEF n, none, yes

\* The history with one more event.
IsLonger(log2, books2, log, books, n, e) ==
  /\ log2[n] = e /\ \A k \in 0 .. n - 1 : log2[k] = log[k]
  /\ \A k \in 0 .. n : books2[k] = books[k]

(* An event makes the history longer ... *)
LEMMA HistoryGrows ==
  ASSUME NEW log, NEW books, NEW n, NEW book, IsHistory(log, books, n, book),
         NEW e \in Events, Sound(Replay(book, e), Prices), Tells(book, e, Replay(book, e))
  PROVE  \E log2, books2 : /\ IsHistory(log2, books2, n + 1, Replay(book, e))
                           /\ IsLonger(log2, books2, log, books, n, e)
<1> DEFINE c == Replay(book, e)
           log2 == [k \in 0 .. n |-> IF k = n THEN e ELSE log[k]]
           books2 == [k \in 0 .. n + 1 |-> IF k = n + 1 THEN c ELSE books[k]]
<1>1. /\ n \in Nat /\ books[n] = book
      /\ \A k \in 0 .. n : /\ Sound(books[k], Prices) /\ Apart(books[k])
                           /\ \E q \in Quotes : Knows(books[k], q)
      /\ \A k \in 0 .. n - 1 : /\ log[k] \in Events
                               /\ books[k + 1] = Replay(books[k], log[k])
                               /\ Tells(books[k], log[k], books[k + 1])
  BY DEF IsHistory
<1>2. /\ log2[n] = e /\ \A k \in 0 .. n - 1 : log2[k] = log[k]
      /\ books2[n + 1] = c /\ \A k \in 0 .. n : books2[k] = books[k]
  BY <1>1
<1>3. \E q \in Quotes : Knows(c, q)
  <2>1. PICK q \in Quotes : Knows(book, q)
    <3>1. n \in 0 .. n
      BY <1>1
    <3>2. QED
      BY <1>1, <3>1
  <2>2. Noted(q, e) \in Quotes /\ Knows(c, Noted(q, e))
    BY <2>1, NotedFacts DEF Tells
  <2>3. QED
    BY <2>2
<1>4. Sound(c, Prices) /\ Tells(book, e, c) /\ Apart(c)
  <2>1. n \in 0 .. n
    BY <1>1
  <2>2. Apart(book)
    BY <1>1, <2>1
  <2>3. QED
    BY <2>2 DEF Tells
<1> HIDE DEF log2, books2
<1>5. c = Replay(book, e)
  OBVIOUS
<1> HIDE DEF c
<1>6. \A k \in 0 .. n + 1 : /\ Sound(books2[k], Prices) /\ Apart(books2[k])
                            /\ \E q \in Quotes : Knows(books2[k], q)
  <2> SUFFICES ASSUME NEW k \in 0 .. n + 1
               PROVE  Sound(books2[k], Prices) /\ Apart(books2[k]) /\ \E q \in Quotes : Knows(books2[k], q)
    OBVIOUS
  <2>1. CASE k = n + 1
    BY <1>2, <1>3, <1>4, <2>1
  <2>2. CASE k # n + 1
    <3>1. k \in 0 .. n
      BY <1>1, <2>2
    <3>2. QED
      BY <1>1, <1>2, <3>1
  <2>3. QED
    BY <2>1, <2>2
<1>7. ASSUME NEW k \in 0 .. n
      PROVE  /\ log2[k] \in Events
             /\ books2[k + 1] = Replay(books2[k], log2[k])
             /\ Tells(books2[k], log2[k], books2[k + 1])
  <2>1. CASE k = n
    <3>1. books2[k] = book /\ log2[k] = e /\ books2[k + 1] = c
      BY <1>1, <1>2, <2>1
    <3>2. QED
      BY <1>4, <1>5, <3>1
  <2>2. CASE k # n
    <3>1. k \in 0 .. n - 1 /\ k + 1 \in 0 .. n
      BY <1>1, <2>2
    <3>2. QED
      BY <1>1, <1>2, <3>1
  <2>3. QED
    BY <2>1, <2>2
<1>8. n + 1 \in Nat /\ n + 1 - 1 = n
  BY <1>1
<1>9. IsHistory(log2, books2, n + 1, c)
  BY <1>2, <1>6, <1>7, <1>8 DEF IsHistory
<1>10. IsLonger(log2, books2, log, books, n, e)
  BY <1>2 DEF IsLonger
<1>11. QED
  BY <1>5, <1>9, <1>10

(* ... which explains what it explained before. *)
LEMMA StillCarried ==
  ASSUME NEW log2, NEW books2, NEW log, NEW books, NEW n \in Nat, NEW e,
         IsLonger(log2, books2, log, books, n, e), NEW q, Carries(log, n, q),
         NEW snapshot, IsSnapshot(books, n, snapshot)
  PROVE  Carries(log2, n + 1, q) /\ IsSnapshot(books2, n + 1, snapshot)
<1>1. \A k \in 0 .. n - 1 : k \in 0 .. n + 1 - 1
  OBVIOUS
<1>2. \A k \in 0 .. n : k \in 0 .. n + 1
  OBVIOUS
<1>3. QED
  BY <1>1, <1>2 DEF IsLonger, Carries, IsSnapshot

(* An event happens, and its packet is sent ... *)
LEMMA ExplainedSent ==
  ASSUME NEW n \in Nat, NEW book, NEW q \in Seq(Datagram), NEW snapshot, NEW inStep,
         NEW replayed, NEW quotes,
         Explained(n, book, q, snapshot, inStep, replayed, quotes),
         NEW e \in Events, Sound(Replay(book, e), Prices), Tells(book, e, Replay(book, e)),
         NEW x \in Datagram, x.seq = n, x.event = e
  PROVE  Explained(n + 1, Replay(book, e), Append(q, x), snapshot, inStep, replayed, quotes)
<1>1. PICK log, books :
        /\ IsHistory(log, books, n, book) /\ Carries(log, n, q) /\ IsSnapshot(books, n, snapshot)
        /\ inStep => InStep(books, n, q, replayed, quotes)
  BY DEF Explained
<1>2. PICK log2, books2 : /\ IsHistory(log2, books2, n + 1, Replay(book, e))
                          /\ IsLonger(log2, books2, log, books, n, e)
  BY <1>1, HistoryGrows
<1> DEFINE new == Append(q, x)
           m == Len(q)
           c == Replay(book, e)
           n1 == n + 1
<1>3. m \in Nat /\ Len(new) = m + 1 /\ new[m + 1] = x /\ \A i \in 1 .. m : new[i] = q[i]
  OBVIOUS
<1>4. Carries(log2, n + 1, q) /\ IsSnapshot(books2, n + 1, snapshot)
  BY <1>1, <1>2, StillCarried
<1> HIDE DEF new, m
<1>5. Carries(log2, n1, new)
  <2> SUFFICES ASSUME NEW i \in 1 .. m + 1
               PROVE  new[i].seq \in 0 .. n1 - 1 /\ new[i].event = log2[new[i].seq]
    BY <1>3 DEF Carries
  <2>1. CASE i = m + 1
    <3>1. new[i].seq = n /\ new[i].event = e /\ n \in 0 .. n1 - 1
      BY <1>3, <2>1
    <3>2. QED
      BY <1>2, <3>1 DEF IsLonger
  <2>2. CASE i # m + 1
    <3>1. i \in 1 .. m
      BY <1>3, <2>2
    <3>2. QED
      BY <1>3, <1>4, <3>1 DEF Carries, m
  <2>3. QED
    BY <2>1, <2>2
<1>6. ASSUME inStep PROVE InStep(books2, n1, new, replayed, quotes)
  <2>1. PICK k \in Nat : /\ k + m = n
                         /\ \A i \in 1 .. m : q[i].seq = k + i - 1
                         /\ replayed = books[k] /\ Knows(books[k], quotes)
    BY <1>1, <1>6 DEF InStep, m
  <2>2. k \in 0 .. n
    BY <1>3, <2>1
  <2>3. books2[k] = books[k]
    BY <1>2, <2>2 DEF IsLonger
  <2>4. ASSUME NEW i \in 1 .. m + 1 PROVE new[i].seq = k + i - 1
    <3>1. CASE i = m + 1
      <4>1. new[i].seq = n
        BY <1>3, <3>1
      <4>2. k + i - 1 = n
        BY <1>3, <2>1, <3>1
      <4>3. QED
        BY <4>1, <4>2
    <3>2. CASE i # m + 1
      <4>1. i \in 1 .. m
        BY <1>3, <3>2
      <4>2. QED
        BY <1>3, <2>1, <4>1
    <3>3. QED
      BY <3>1, <3>2
  <2>5. k + Len(new) = n1
    BY <1>3, <2>1
  <2>6. QED
    BY <1>3, <2>1, <2>3, <2>4, <2>5 DEF InStep
<1>7. IsHistory(log2, books2, n1, c) /\ IsSnapshot(books2, n1, snapshot)
  BY <1>2, <1>4
<1> HIDE DEF n1, c
<1>8. Explained(n1, c, new, snapshot, inStep, replayed, quotes)
  BY <1>5, <1>6, <1>7 DEF Explained
<1>9. QED
  BY <1>8 DEF n1, c, new

(* ... or lost. *)
LEMMA ExplainedLost ==
  ASSUME NEW n \in Nat, NEW book, NEW q \in Seq(Datagram), NEW snapshot, NEW inStep,
         NEW replayed, NEW quotes,
         Explained(n, book, q, snapshot, inStep, replayed, quotes),
         NEW e \in Events, Sound(Replay(book, e), Prices), Tells(book, e, Replay(book, e)),
         NEW inStep2, ~ inStep2
  PROVE  Explained(n + 1, Replay(book, e), q, snapshot, inStep2, replayed, quotes)
<1>1. PICK log, books :
        IsHistory(log, books, n, book) /\ Carries(log, n, q) /\ IsSnapshot(books, n, snapshot)
  BY DEF Explained
<1>2. PICK log2, books2 : /\ IsHistory(log2, books2, n + 1, Replay(book, e))
                          /\ IsLonger(log2, books2, log, books, n, e)
  BY <1>1, HistoryGrows
<1>3. Carries(log2, n + 1, q) /\ IsSnapshot(books2, n + 1, snapshot)
  BY <1>1, <1>2, StillCarried
<1>4. QED
  BY <1>2, <1>3 DEF Explained

(* A snapshot is taken. *)
LEMMA ExplainedPublished ==
  ASSUME NEW n \in Nat, NEW book, NEW q, NEW snapshot, NEW inStep, NEW replayed, NEW quotes,
         Explained(n, book, q, snapshot, inStep, replayed, quotes),
         NEW fresh, fresh.seq = n,
         fresh.bids = ExportSide(book, "Bid"), fresh.asks = ExportSide(book, "Ask")
  PROVE  Explained(n, book, q, fresh, inStep, replayed, quotes)
<1>1. PICK log, books :
        /\ IsHistory(log, books, n, book) /\ Carries(log, n, q)
        /\ inStep => InStep(books, n, q, replayed, quotes)
  BY DEF Explained
<1>2. books[n] = book /\ n \in 0 .. n
  BY <1>1 DEF IsHistory
<1>3. IsSnapshot(books, n, fresh)
  BY <1>2 DEF IsSnapshot
<1>4. QED
  BY <1>1, <1>3 DEF Explained

(* A packet overtakes those before it, or is first anyway. *)
LEMMA ExplainedMoved ==
  ASSUME NEW n \in Nat, NEW book, NEW q \in Seq(Datagram), NEW snapshot, NEW inStep,
         NEW replayed, NEW quotes,
         Explained(n, book, q, snapshot, inStep, replayed, quotes),
         NEW new, NEW a \in Nat, NEW b \in Nat, IsMoved(new, q, a, b),
         NEW inStep2, inStep2 => inStep /\ a = b
  PROVE  Explained(n, book, new, snapshot, inStep2, replayed, quotes)
<1>1. PICK log, books :
        /\ IsHistory(log, books, n, book) /\ Carries(log, n, q) /\ IsSnapshot(books, n, snapshot)
        /\ inStep => InStep(books, n, q, replayed, quotes)
  BY DEF Explained
<1> DEFINE m == Len(q)
<1>2. m \in Nat
  OBVIOUS
<1>3. /\ Len(new) = m /\ 1 <= a /\ a <= b /\ b <= m
      /\ new[a] = q[b]
      /\ \A k \in 1 .. m : k < a \/ k > b => new[k] = q[k]
      /\ \A k \in 1 .. m : a < k /\ k <= b => new[k] = q[k - 1]
  BY DEF IsMoved
<1>4. \A i \in 1 .. m : q[i].seq \in 0 .. n - 1 /\ q[i].event = log[q[i].seq]
  BY <1>1 DEF Carries
<1> HIDE DEF m
<1>5. ASSUME NEW i \in 1 .. m PROVE \E j \in 1 .. m : new[i] = q[j]
  <2>1. CASE i < a \/ i > b
    BY <1>3, <2>1
  <2>2. CASE i = a
    <3>1. b \in 1 .. m
      BY <1>2, <1>3
    <3>2. QED
      BY <1>3, <2>2, <3>1
  <2>3. CASE a < i /\ i <= b
    <3>1. i - 1 \in 1 .. m
      BY <1>2, <1>3, <2>3
    <3>2. QED
      BY <1>3, <2>3, <3>1
  <2>4. QED
    BY <1>3, <2>1, <2>2, <2>3
<1>6. Carries(log, n, new)
  <2>1. ASSUME NEW i \in 1 .. m
        PROVE  new[i].seq \in 0 .. n - 1 /\ new[i].event = log[new[i].seq]
    <3>1. PICK j \in 1 .. m : new[i] = q[j]
      BY <1>5
    <3>2. QED
      BY <1>4, <3>1
  <2>2. QED
    BY <1>3, <2>1 DEF Carries
<1>7. ASSUME inStep2 PROVE InStep(books, n, new, replayed, quotes)
  <2>1. \A i \in 1 .. m : new[i] = q[i]
    BY <1>2, <1>3, <1>7
  <2>2. QED
    BY <1>1, <1>3, <1>7, <2>1 DEF InStep, m
<1>8. QED
  BY <1>1, <1>6, <1>7 DEF Explained

(* A packet that arrives is discarded. *)
LEMMA CutFrom ==
  ASSUME NEW q \in Seq(Datagram), NEW new, NEW b \in Nat, IsCut(new, q, b)
  PROVE  \A i \in 1 .. Len(new) : \E j \in 1 .. Len(q) : new[i] = q[j]
<1> SUFFICES ASSUME NEW i \in 1 .. Len(new) PROVE \E j \in 1 .. Len(q) : new[i] = q[j]
  OBVIOUS
<1>0. Len(q) \in Nat
  OBVIOUS
<1>1. /\ Len(new) = Len(q) - 1 /\ 1 <= b /\ b <= Len(q)
      /\ \A k \in 1 .. Len(q) : k < b => new[k] = q[k]
      /\ \A k \in 1 .. Len(q) : k > b => new[k - 1] = q[k]
  BY DEF IsCut
<1>2. CASE i < b
  <2>1. i \in 1 .. Len(q)
    BY <1>0, <1>1
  <2>2. QED
    BY <1>1, <1>2, <2>1
<1>3. CASE i >= b
  <2> DEFINE k == i + 1
  <2>1. k \in 1 .. Len(q) /\ k > b /\ k - 1 = i
    BY <1>0, <1>1, <1>3
  <2>2. new[i] = q[k]
    BY <1>1, <2>1
  <2>3. QED
    BY <2>1, <2>2
<1>4. QED
  BY <1>0, <1>1, <1>2, <1>3

(* A reader that misses a packet is not in step. *)
LEMMA ExplainedCut ==
  ASSUME NEW n \in Nat, NEW book, NEW q \in Seq(Datagram), NEW snapshot, NEW inStep,
         NEW replayed, NEW quotes,
         Explained(n, book, q, snapshot, inStep, replayed, quotes),
         NEW new, NEW b \in Nat, IsCut(new, q, b), NEW inStep2, ~ inStep2
  PROVE  Explained(n, book, new, snapshot, inStep2, replayed, quotes)
<1>1. PICK log, books :
        IsHistory(log, books, n, book) /\ Carries(log, n, q) /\ IsSnapshot(books, n, snapshot)
  BY DEF Explained
<1>2. Carries(log, n, new)
  BY <1>1, CutFrom DEF Carries
<1>3. QED
  BY <1>1, <1>2 DEF Explained

(* The first packet is replayed. *)
LEMMA ExplainedApplied ==
  ASSUME NEW n \in Nat, NEW book, NEW q \in Seq(Datagram), NEW snapshot, NEW inStep,
         NEW replayed, NEW quotes \in Quotes,
         Explained(n, book, q, snapshot, inStep, replayed, quotes),
         NEW new, IsCut(new, q, 1)
  PROVE  Explained(n, book, new, snapshot, inStep,
                   Replay(replayed, q[1].event), Noted(quotes, q[1].event))
<1>1. PICK log, books :
        /\ IsHistory(log, books, n, book) /\ Carries(log, n, q) /\ IsSnapshot(books, n, snapshot)
        /\ inStep => InStep(books, n, q, replayed, quotes)
  BY DEF Explained
<1> DEFINE m == Len(q)
           e == q[1].event
           c == Replay(replayed, e)
           r == Noted(quotes, e)
<1>2. m \in Nat
  OBVIOUS
<1>3. /\ Len(new) = m - 1 /\ 1 <= m
      /\ \A k \in 1 .. m : k > 1 => new[k - 1] = q[k]
  BY DEF IsCut
<1>4. Carries(log, n, new)
  <2>1. 1 \in Nat
    OBVIOUS
  <2>2. \A i \in 1 .. Len(new) : \E j \in 1 .. Len(q) : new[i] = q[j]
    <3> DEFINE one == 1
    <3>1. one \in Nat /\ IsCut(new, q, one)
      OBVIOUS
    <3> HIDE DEF one
    <3>2. QED
      BY <3>1, CutFrom
  <2>3. QED
    BY <1>1, <2>2 DEF Carries
<1>5. ASSUME inStep PROVE InStep(books, n, new, c, r)
  <2>1. PICK k \in Nat : /\ k + m = n
                         /\ \A i \in 1 .. m : q[i].seq = k + i - 1
                         /\ replayed = books[k] /\ Knows(books[k], quotes)
    BY <1>1, <1>5 DEF InStep
  <2> HIDE DEF m
  <2>2. k \in 0 .. n - 1 /\ 1 \in 1 .. m
    BY <1>2, <1>3, <2>1
  <2>3. q[1].seq = k
    BY <2>1, <2>2
  <2>4. e = log[k]
    BY <1>1, <2>2, <2>3 DEF Carries, m
  <2>5. books[k + 1] = c /\ Knows(books[k + 1], r)
    BY <1>1, <2>1, <2>2, <2>4 DEF IsHistory, Tells
  <2>6. ASSUME NEW i \in 1 .. m - 1 PROVE new[i].seq = k + 1 + i - 1
    <3> DEFINE j == i + 1
    <3>1. j \in 1 .. m /\ j > 1 /\ j - 1 = i
      BY <1>2
    <3>2. new[i] = q[j]
      BY <1>3, <3>1 DEF m
    <3>3. q[j].seq = k + j - 1
      BY <2>1, <3>1
    <3>4. QED
      BY <3>1, <3>2, <3>3
  <2>7. k + 1 \in Nat /\ k + 1 + Len(new) = n
    BY <1>2, <1>3, <2>1 DEF m
  <2> DEFINE k1 == k + 1
  <2>8. k1 \in Nat /\ k1 + Len(new) = n /\ books[k1] = c /\ Knows(books[k1], r)
        /\ \A i \in 1 .. Len(new) : new[i].seq = k1 + i - 1
    BY <1>3, <2>5, <2>6, <2>7 DEF m
  <2> HIDE DEF k1, c, r
  <2>9. QED
    BY <2>8 DEF InStep
<1> HIDE DEF c, r
<1>6. Explained(n, book, new, snapshot, inStep, c, r)
  BY <1>1, <1>4, <1>5 DEF Explained
<1>7. QED
  BY <1>6 DEF c, r

-----------------------------------------------------------------------------
(* What a snapshot overtakes *)

\* Every number below n that is above last is in flight or gone.
Covers(n, last, gone, packets) ==
  \A v \in 0 .. n - 1 :
    v > last => v \in gone \/ \E i \in 1 .. Len(packets) : packets[i].seq = v

(* A number sent is in flight ... *)
LEMMA CoversSent ==
  ASSUME NEW n \in Nat, NEW last, NEW gone, NEW q \in Seq(Datagram), Covers(n, last, gone, q),
         NEW x, x.seq = n
  PROVE  Covers(n + 1, last, gone, Append(q, x))
<1> DEFINE new == Append(q, x)
           m == Len(q)
<1>1. m \in Nat /\ Len(new) = m + 1 /\ new[m + 1] = x /\ \A i \in 1 .. m : new[i] = q[i]
  OBVIOUS
<1> HIDE DEF new, m
<1>2. ASSUME NEW v \in 0 .. n + 1 - 1, v > last
      PROVE  v \in gone \/ \E i \in 1 .. m + 1 : new[i].seq = v
  <2>1. CASE v = n
    <3>1. m + 1 \in 1 .. m + 1
      BY <1>1
    <3>2. QED
      BY <1>1, <2>1, <3>1
  <2>2. CASE v # n
    <3>1. v \in 0 .. n - 1
      BY <2>2
    <3>2. v \in gone \/ \E i \in 1 .. m : q[i].seq = v
      BY <1>2, <3>1 DEF Covers, m
    <3>3. \A i \in 1 .. m : i \in 1 .. m + 1
      BY <1>1
    <3>4. QED
      BY <1>1, <3>2, <3>3
  <2>3. QED
    BY <2>1, <2>2
<1> DEFINE n1 == n + 1
<1>3. \A v \in 0 .. n1 - 1 : v > last => v \in gone \/ \E i \in 1 .. Len(new) : new[i].seq = v
  BY <1>1, <1>2
<1> HIDE DEF n1
<1>4. Covers(n1, last, gone, new)
  BY <1>3 DEF Covers
<1>5. QED
  BY <1>4 DEF n1, new

(* ... a number lost is gone ... *)
LEMMA CoversLost ==
  ASSUME NEW n \in Nat, NEW last, NEW gone, NEW q, Covers(n, last, gone, q)
  PROVE  Covers(n + 1, last, gone \cup {n}, q)
<1>1. \A v \in 0 .. n + 1 - 1 : v = n \/ v \in 0 .. n - 1
  OBVIOUS
<1>2. QED
  BY <1>1 DEF Covers

(* ... a packet that overtakes others is still in flight ... *)
LEMMA CoversMoved ==
  ASSUME NEW n \in Nat, NEW last, NEW gone, NEW q \in Seq(Datagram), Covers(n, last, gone, q),
         NEW new, NEW a \in Nat, NEW b \in Nat, IsMoved(new, q, a, b)
  PROVE  Covers(n, last, gone, new)
<1> DEFINE m == Len(q)
<1>1. m \in Nat
  OBVIOUS
<1>2. /\ Len(new) = m /\ 1 <= a /\ a <= b /\ b <= m
      /\ new[a] = q[b]
      /\ \A k \in 1 .. m : k < a \/ k > b => new[k] = q[k]
      /\ \A k \in 1 .. m : a < k /\ k <= b => new[k] = q[k - 1]
  BY DEF IsMoved
<1>3. ASSUME NEW i \in 1 .. m PROVE \E j \in 1 .. m : new[j] = q[i]
  <2>1. CASE i < a \/ i > b
    BY <1>2, <2>1
  <2>2. CASE i = b
    <3>1. a \in 1 .. m
      BY <1>1, <1>2
    <3>2. QED
      BY <1>2, <2>2, <3>1
  <2>3. CASE a <= i /\ i < b
    <3> DEFINE j == i + 1
    <3>1. j \in 1 .. m /\ a < j /\ j <= b /\ j - 1 = i
      BY <1>1, <1>2, <2>3
    <3>2. new[j] = q[i]
      BY <1>2, <3>1
    <3>3. QED
      BY <3>1, <3>2
  <2>4. QED
    BY <1>2, <2>1, <2>2, <2>3
<1>4. ASSUME NEW v, \E i \in 1 .. m : q[i].seq = v PROVE \E j \in 1 .. m : new[j].seq = v
  <2>1. PICK i \in 1 .. m : q[i].seq = v
    BY <1>4
  <2>2. PICK j \in 1 .. m : new[j] = q[i]
    BY <1>3
  <2>3. QED
    BY <2>1, <2>2
<1>5. QED
  BY <1>2, <1>4 DEF Covers, m

(* What is left of the packets when the one at b is taken out. *)
LEMMA CutLeaves ==
  ASSUME NEW q \in Seq(Datagram), NEW new, NEW b \in Nat, IsCut(new, q, b)
  PROVE  \A i \in 1 .. Len(q) : i = b \/ \E j \in 1 .. Len(new) : new[j] = q[i]
<1> SUFFICES ASSUME NEW i \in 1 .. Len(q), i # b
             PROVE  \E j \in 1 .. Len(new) : new[j] = q[i]
  OBVIOUS
<1>0. Len(q) \in Nat
  OBVIOUS
<1>1. /\ Len(new) = Len(q) - 1 /\ 1 <= b /\ b <= Len(q)
      /\ \A k \in 1 .. Len(q) : k < b => new[k] = q[k]
      /\ \A k \in 1 .. Len(q) : k > b => new[k - 1] = q[k]
  BY DEF IsCut
<1>2. CASE i < b
  <2>1. i \in 1 .. Len(new)
    BY <1>0, <1>1, <1>2
  <2>2. QED
    BY <1>1, <1>2, <2>1
<1>3. CASE i > b
  <2>1. i - 1 \in 1 .. Len(new)
    BY <1>0, <1>1, <1>3
  <2>2. QED
    BY <1>1, <1>3, <2>1
<1>4. QED
  BY <1>2, <1>3

(* ... one that is discarded is gone ... *)
LEMMA CoversCut ==
  ASSUME NEW n \in Nat, NEW last, NEW gone, NEW q \in Seq(Datagram), Covers(n, last, gone, q),
         NEW new, NEW b \in Nat, IsCut(new, q, b)
  PROVE  Covers(n, last, gone \cup {q[b].seq}, new)
<1> SUFFICES ASSUME NEW v \in 0 .. n - 1, v > last, v \notin gone, v # q[b].seq
             PROVE  \E i \in 1 .. Len(new) : new[i].seq = v
  BY DEF Covers
<1>1. PICK i \in 1 .. Len(q) : q[i].seq = v
  BY DEF Covers
<1>2. PICK j \in 1 .. Len(new) : new[j] = q[i]
  BY <1>1, CutLeaves
<1>3. QED
  BY <1>1, <1>2

(* ... and one that is replayed is not above the newest. *)
LEMMA CoversApplied ==
  ASSUME NEW n \in Nat, NEW last \in Int, NEW gone, NEW q \in Seq(Datagram), Covers(n, last, gone, q),
         NEW new, IsCut(new, q, 1),
         NEW last2 \in Int, last2 >= last, last2 >= q[1].seq
  PROVE  Covers(n, last2, gone, new)
<1> DEFINE one == 1
<1>1. one \in Nat /\ IsCut(new, q, one)
  OBVIOUS
<1> HIDE DEF one
<1> SUFFICES ASSUME NEW v \in 0 .. n - 1, v > last2, v \notin gone
             PROVE  \E i \in 1 .. Len(new) : new[i].seq = v
  BY DEF Covers
<1>2. v > last
  OBVIOUS
<1>3. PICK i \in 1 .. Len(q) : q[i].seq = v
  BY <1>2 DEF Covers
<1>4. \A k \in 1 .. Len(q) : k = one \/ \E j \in 1 .. Len(new) : new[j] = q[k]
  BY <1>1, CutLeaves
<1>5. i # one
  <2>1. i # 1
    <3>1. ASSUME i = 1 PROVE FALSE
      <4>1. q[1].seq = v
        BY <1>3, <3>1
      <4>2. QED
        BY <4>1
    <3>2. QED
      BY <3>1
  <2>2. QED
    BY <2>1 DEF one
<1>6. PICK j \in 1 .. Len(new) : new[j] = q[i]
  BY <1>4, <1>5
<1>7. QED
  BY <1>3, <1>6

(* Packets in rising order, none older than the snapshot, that lack no number *)
(* from the snapshot's on, are numbered without a hole from there.           *)
LEMMA Overtaken ==
  ASSUME NEW q \in Seq(Datagram), NEW n \in Nat, NEW first \in Nat, first <= n,
         \A i \in 1 .. Len(q) : first <= q[i].seq /\ q[i].seq < n,
         \A i, j \in 1 .. Len(q) : i < j => q[i].seq < q[j].seq,
         \A v \in first .. n - 1 : \E i \in 1 .. Len(q) : q[i].seq = v
  PROVE  first + Len(q) = n /\ \A i \in 1 .. Len(q) : q[i].seq = first + i - 1
<1> DEFINE m == Len(q)
           f == [i \in 1 .. m |-> q[i].seq]
           good == {k \in 0 .. m : \A i \in 1 .. k : f[i] = first + i - 1}
<1>1. m \in Nat /\ \A i \in 1 .. m : q[i] \in Datagram
  OBVIOUS
<1>2. \A i \in 1 .. m : f[i] \in Nat /\ f[i] = q[i].seq
  BY <1>1 DEF Datagram
<1>3. \A i \in 1 .. m : first <= f[i] /\ f[i] < n
  BY <1>2
<1>4. \A i, j \in 1 .. m : i < j => f[i] < f[j]
  BY <1>2
<1>5. \A v \in first .. n - 1 : \E i \in 1 .. m : f[i] = v
  BY <1>2
<1> HIDE DEF m, f
<1>6. 0 \in good
  BY <1>1
<1>7. ASSUME NEW k \in 1 .. m, k - 1 \in good PROVE k \in good
  <2>1. \A i \in 1 .. k - 1 : f[i] = first + i - 1
    BY <1>7
  <2>2. f[k] >= first + k - 1
    <3>1. CASE k = 1
      BY <1>2, <1>3, <3>1
    <3>2. CASE k # 1
      <4>1. k - 1 \in 1 .. k - 1 /\ k - 1 \in 1 .. m /\ k - 1 < k
        BY <1>1, <3>2
      <4>2. f[k - 1] = first + (k - 1) - 1 /\ f[k - 1] < f[k]
        BY <1>4, <2>1, <4>1
      <4>3. QED
        BY <1>2, <4>2
    <3>3. QED
      BY <3>1, <3>2
  <2>3. ASSUME f[k] > first + k - 1 PROVE FALSE
    <3> DEFINE v == first + k - 1
    <3>1. v \in first .. n - 1
      BY <1>2, <1>3, <2>3
    <3>2. PICK i \in 1 .. m : f[i] = v
      BY <1>5, <3>1
    <3>3. CASE i < k
      <4>1. i \in 1 .. k - 1
        BY <3>3
      <4>2. f[i] = first + i - 1
        BY <2>1, <4>1
      <4>3. QED
        BY <3>2, <3>3, <4>2
    <3>4. CASE i = k
      BY <2>3, <3>2, <3>4
    <3>5. CASE i > k
      <4>1. f[k] < f[i]
        BY <1>4, <3>5
      <4>2. QED
        BY <1>2, <2>3, <3>2, <4>1
    <3>6. QED
      BY <3>3, <3>4, <3>5
  <2>4. f[k] = first + k - 1
    BY <1>2, <2>2, <2>3
  <2>5. QED
    <3>1. \A i \in 1 .. k : i = k \/ i \in 1 .. k - 1
      OBVIOUS
    <3>2. \A i \in 1 .. k : f[i] = first + i - 1
      BY <2>1, <2>4, <3>1
    <3>3. QED
      BY <1>1, <3>2
<1> HIDE DEF good
<1>8. \A k \in 0 .. m : k \in good
  BY <1>1, <1>6, <1>7, Induct
<1>9. \A i \in 1 .. m : f[i] = first + i - 1
  <2>1. m \in good
    BY <1>1, <1>8
  <2>2. QED
    BY <2>1 DEF good
<1>10. first + m = n
  <2>1. first + m <= n
    <3>1. CASE m = 0
      BY <3>1
    <3>2. CASE m # 0
      <4>1. m \in 1 .. m
        BY <1>1, <3>2
      <4>2. f[m] = first + m - 1 /\ f[m] < n
        BY <1>3, <1>9, <4>1
      <4>3. QED
        BY <1>1, <4>2
    <3>3. QED
      BY <3>1, <3>2
  <2>2. ASSUME first + m < n PROVE FALSE
    <3>1. first + m \in first .. n - 1
      BY <1>1, <2>2
    <3>2. PICK i \in 1 .. m : f[i] = first + m
      BY <1>5, <3>1
    <3>3. f[i] = first + i - 1
      BY <1>9
    <3>4. QED
      BY <1>1, <3>2, <3>3
  <2>3. QED
    BY <1>1, <2>1, <2>2
<1>11. QED
  BY <1>2, <1>9, <1>10 DEF m

\* What the resync makes of the belief about our quotes.
Requoted(quotes, snapshot) ==
  [quotes EXCEPT !["Bid"] = OwnPrice(snapshot.bids, @), !["Ask"] = OwnPrice(snapshot.asks, @)]

(* A snapshot replaces the book and the belief about our quotes. *)
LEMMA ExplainedRebuilt ==
  ASSUME NEW n \in Nat, NEW book, NEW q \in Seq(Datagram), NEW snapshot, NEW inStep,
         NEW replayed, NEW quotes \in Quotes,
         Explained(n, book, q, snapshot, inStep, replayed, quotes),
         NEW last \in Int, NEW gone, Covers(n, last, gone, q),
         snapshot.seq > 0, snapshot.seq > last,
         NEW inStep2,
         inStep2 => /\ \A i \in 1 .. Len(q) : q[i].seq >= snapshot.seq
                    /\ \A v \in gone : v < snapshot.seq
                    /\ \A i, j \in 1 .. Len(q) : i < j => q[i].seq < q[j].seq
  PROVE  /\ IsBook(RebuildFromResync(replayed, snapshot), Prices)
         /\ LiveBook(RebuildFromResync(replayed, snapshot))
         /\ Requoted(quotes, snapshot) \in Quotes
         /\ Explained(n, book, q, snapshot, inStep2,
                      RebuildFromResync(replayed, snapshot), Requoted(quotes, snapshot))
<1> DEFINE first == snapshot.seq
           bid == "Bid"
           ask == "Ask"
           rebuilt == RebuildFromResync(replayed, snapshot)
           r == Requoted(quotes, snapshot)
<1>1. PICK log, books :
        IsHistory(log, books, n, book) /\ Carries(log, n, q) /\ IsSnapshot(books, n, snapshot)
  BY DEF Explained
<1> DEFINE b == books[first]
<1>2. first \in 0 .. n /\ snapshot.bids = ExportSide(b, bid) /\ snapshot.asks = ExportSide(b, ask)
  BY <1>1 DEF IsSnapshot
<1>3. Sound(b, Prices) /\ \E x \in Quotes : Knows(b, x)
  BY <1>1, <1>2 DEF IsHistory
<1> HIDE DEF first, b
<1>4. IsBook(b, Prices) /\ LiveBook(b) /\ Finite(b)
  BY <1>3 DEF Sound
<1>5. rebuilt = b
  <2>1. RebuildFromResync(replayed, ExportResync(b)) = b
    <3>1. Prices \in SUBSET Int
      BY FeedFacts
    <3>2. QED
      BY <1>4, <3>1, RoundTrip
  <2>2. rebuilt = RebuildFromResync(replayed, ExportResync(b))
    BY <1>2 DEF RebuildFromResync, ExportResync
  <2>3. QED
    BY <2>1, <2>2
<1>6. bid \in Side /\ ask \in Side /\ bid # ask /\ Side = {bid, ask}
  BY DEF Side
<1> DEFINE kb == quotes[bid]
           ka == quotes[ask]
<1>7. kb \in Int \cup BOOLEAN /\ ka \in Int \cup BOOLEAN
  BY DEF Quotes
<1> DEFINE nb == OwnPrice(ExportSide(b, bid), kb)
           na == OwnPrice(ExportSide(b, ask), ka)
<1>8. r = [quotes EXCEPT ![bid] = nb, ![ask] = na]
  BY <1>2 DEF Requoted, Quotes
<1> HIDE DEF bid, ask, kb, ka
<1>9. /\ nb \in Int \cup BOOLEAN
      /\ \A x : Knows(b, x) => \A p \in DOMAIN b[bid] : \A i \in DOMAIN b[bid][p] :
                                 b[bid][p][i].ours => nb = p
  BY <1>4, <1>6, <1>7, OwnPriceFacts
<1>10. /\ na \in Int \cup BOOLEAN
       /\ \A x : Knows(b, x) => \A p \in DOMAIN b[ask] : \A i \in DOMAIN b[ask][p] :
                                  b[ask][p][i].ours => na = p
  BY <1>4, <1>6, <1>7, OwnPriceFacts
<1> HIDE DEF nb, na
<1>11. r \in Quotes /\ r[bid] = nb /\ r[ask] = na
  BY <1>6, <1>8, <1>9, <1>10 DEF Quotes, bid, ask
<1> HIDE DEF r, rebuilt
<1>12. Knows(b, r)
  BY <1>3, <1>6, <1>9, <1>10, <1>11 DEF Knows
<1>13. ASSUME inStep2 PROVE InStep(books, n, q, rebuilt, r)
  <2>1. first + Len(q) = n /\ \A i \in 1 .. Len(q) : q[i].seq = first + i - 1
    <3>1. first \in Nat /\ first <= n
      BY <1>2
    <3>2. \A i \in 1 .. Len(q) : first <= q[i].seq /\ q[i].seq < n
      <4> SUFFICES ASSUME NEW i \in 1 .. Len(q) PROVE first <= q[i].seq /\ q[i].seq < n
        OBVIOUS
      <4>1. q[i].seq \in 0 .. n - 1
        BY <1>1 DEF Carries
      <4>2. q[i].seq >= first
        BY <1>13 DEF first
      <4>3. QED
        BY <3>1, <4>1, <4>2
    <3>3. \A i, j \in 1 .. Len(q) : i < j => q[i].seq < q[j].seq
      BY <1>13
    <3>4. ASSUME NEW v \in first .. n - 1 PROVE \E i \in 1 .. Len(q) : q[i].seq = v
      <4>1. v \in 0 .. n - 1 /\ v > last /\ ~ (v < first)
        BY <3>1 DEF first
      <4>2. v \notin gone
        BY <1>13, <4>1 DEF first
      <4>3. QED
        BY <4>1, <4>2 DEF Covers
    <3>5. QED
      BY <3>1, <3>2, <3>3, <3>4, Overtaken
  <2>2. first \in Nat /\ rebuilt = books[first] /\ Knows(books[first], r)
    BY <1>2, <1>5, <1>12 DEF b
  <2>3. QED
    BY <2>1, <2>2 DEF InStep
<1>14. Explained(n, book, q, snapshot, inStep2, rebuilt, r)
  BY <1>1, <1>13 DEF Explained
<1>15. QED
  BY <1>4, <1>5, <1>11, <1>14 DEF r, rebuilt

-----------------------------------------------------------------------------
(* The invariant *)

\* Every variable has its type, and the counters their order: what was dealt with
\* is at most what was read, and that at most what was counted.
TypesHold ==
  /\ seq \in Nat /\ lastAdded \in Nat /\ IdsUpTo(truth, lastAdded)
  /\ net \in Seq(Datagram) /\ ring \in Seq(Datagram) /\ Len(ring) <= RingSize
  /\ pc \in {"drain", "check", "resync"}
  /\ expected \in Int /\ lost \in Nat /\ lastLost \in Nat /\ currentLost \in Nat
  /\ lastLost <= currentLost /\ currentLost <= lost
  /\ highest \in Nat /\ highest <= seq
  /\ newest \in Int /\ newest >= -1 /\ newest <= highest /\ newest < seq
  /\ missing \subseteq 0 .. seq - 1
  /\ synced \in BOOLEAN
  /\ IsBook(shadow, Prices) /\ position \in Account /\ quoted \in Quotes

\* The inductive invariant: every packet, number and fill is accounted for.
Inv ==
  /\ TypesHold
  /\ Covers(seq, newest, missing, InFlight)
  /\ Tallies(InFlight, position, owed)
  /\ Explained(seq, truth, InFlight, published, synced, shadow, quoted)

(* What the current state says of truth and of the packets in flight. *)
LEMMA InFlightFacts ==
  ASSUME Inv
  PROVE  /\ InFlight \in Seq(Datagram)
         /\ \A i \in 1 .. Len(InFlight) : InFlight[i].seq \in 0 .. seq - 1
         /\ Sound(truth, Prices) /\ published.seq \in 0 .. seq
<1>1. InFlight \in Seq(Datagram)
  <2>1. ring \in Seq(Datagram) /\ net \in Seq(Datagram)
    BY DEF Inv, TypesHold
  <2>2. QED
    BY <2>1, Joined DEF InFlight
<1>2. PICK log, books : /\ IsHistory(log, books, seq, truth)
                        /\ Carries(log, seq, InFlight)
                        /\ IsSnapshot(books, seq, published)
  BY DEF Inv, Explained
<1>3. Sound(truth, Prices)
  <2>1. seq \in 0 .. seq /\ books[seq] = truth
    BY <1>2 DEF IsHistory
  <2>2. QED
    BY <1>2, <2>1 DEF IsHistory
<1>4. QED
  BY <1>1, <1>2, <1>3 DEF Carries, IsSnapshot

(* It holds at the start ... *)
LEMMA InitInv ==
  ASSUME Init
  PROVE  Inv
<1> DEFINE none == <<>>
<1>0. none \in Seq(Datagram) /\ none \o none = none /\ Len(none) = 0
  OBVIOUS
<1>1. /\ seq = 0 /\ lastAdded = 0 /\ truth = EmptyBook /\ net = none /\ ring = none
      /\ pc = "drain" /\ expected = -1 /\ lost = 0 /\ lastLost = 0 /\ currentLost = 0
      /\ highest = 0 /\ newest = -1 /\ missing = {} /\ synced = TRUE
      /\ shadow = EmptyBook /\ position = Flat /\ owed = Flat
      /\ quoted = [Bid |-> 0, Ask |-> 0, have |-> FALSE] /\ published.seq = 0
  BY DEF Init, FeedInit, Handler!HandlerInit, Handler!Unknown
<1>2. Flat \in Account
  BY DEF Flat, Account
<1>3. quoted \in Quotes
  <2>1. 0 \in Int \cup BOOLEAN /\ FALSE \in Int \cup BOOLEAN
    OBVIOUS
  <2>2. \A a, b, c \in Int \cup BOOLEAN :
          [Bid |-> a, Ask |-> b, have |-> c] \in [{"Bid", "Ask", "have"} -> Int \cup BOOLEAN]
    OBVIOUS
  <2>3. QED
    BY <1>1, <2>1, <2>2 DEF Quotes
<1>4. IsBook(EmptyBook, Prices) /\ IdsUpTo(EmptyBook, 0)
  BY EmptyIsSound DEF Sound, IdsUpTo
<1>5. InFlight = none
  BY <1>0, <1>1 DEF InFlight
<1>6. TypesHold
  BY <1>0, <1>1, <1>2, <1>3, <1>4, MarketDataAssumption DEF TypesHold
<1>7. Covers(seq, newest, missing, InFlight)
  BY <1>1 DEF Covers
<1>8. Tallies(InFlight, position, owed)
  BY <1>1, <1>2, <1>5, TallyNone
<1>9. Explained(seq, truth, InFlight, published, synced, shadow, quoted)
  BY <1>1, <1>3, <1>5, NothingYet DEF none
<1>10. QED
  BY <1>6, <1>7, <1>8, <1>9 DEF Inv

(* What an event does to the exchange's side of the invariant. *)
LEMMA HappensFacts ==
  ASSUME Inv, NEW e \in Events, Happens(e)
  PROVE  /\ truth' = Replay(truth, e) /\ Sound(truth', Prices) /\ Tells(truth, e, truth')
         /\ lastAdded' \in Nat /\ IdsUpTo(truth, lastAdded)' 
<1>1. lastAdded \in Nat /\ IdsUpTo(truth, lastAdded) /\ Sound(truth, Prices)
  BY InFlightFacts DEF Inv, TypesHold
<1>2. Legal(truth, lastAdded, e) /\ truth' = Replay(truth, e) /\ lastAdded' = LatestAdd(lastAdded, e)
  BY DEF Happens
<1>3. /\ Sound(Replay(truth, e), Prices)
      /\ LatestAdd(lastAdded, e) \in Nat /\ IdsUpTo(Replay(truth, e), LatestAdd(lastAdded, e))
      /\ \A q \in Quotes : Knows(truth, q) => Knows(Replay(truth, e), Noted(q, e))
      /\ Apart(truth) => Apart(Replay(truth, e))
  BY <1>1, <1>2, LegalKept
<1>4. IdsUpTo(truth', lastAdded')
  BY <1>2, <1>3
<1>5. IdsUpTo(truth, lastAdded)'
  BY <1>4 DEF IdsUpTo
<1>6. QED
  BY <1>2, <1>3, <1>5 DEF Tells

(* ... after each action ... *)
LEMMA SendInv ==
  ASSUME Inv, NEW e \in Events, Send(e)
  PROVE  Inv'
<1> DEFINE x == Packet(e)
           q == InFlight
<1>1. /\ Happens(e) /\ seq' = seq + 1 /\ net' = Append(net, x)
      /\ owed' = Booked(owed, e)
      /\ UNCHANGED <<published, ring, missing, synced, pc, currentLost, lastLost, highest,
                     shadow, position, quoted, newest, expected, lost>>
  BY DEF Send, handlerVars, strategyVars
<1>2. seq \in Nat /\ net \in Seq(Datagram) /\ ring \in Seq(Datagram)
  BY DEF Inv, TypesHold
<1>3. x \in Datagram /\ x.seq = seq /\ x.event = e
  BY <1>2 DEF Packet, Datagram
<1>4. /\ q \in Seq(Datagram) /\ Sound(truth, Prices)
      /\ truth' = Replay(truth, e) /\ Sound(truth', Prices) /\ Tells(truth, e, truth')
      /\ lastAdded' \in Nat /\ IdsUpTo(truth, lastAdded)'
  BY <1>1, HappensFacts, InFlightFacts
<1> HIDE DEF x
<1>5. InFlight' = Append(q, x)
  BY <1>1, <1>2, <1>3, SentLast DEF InFlight
<1>6. TypesHold'
  <2>1. net' \in Seq(Datagram)
    BY <1>1, <1>2, <1>3
  <2>2. QED
    BY <1>1, <1>2, <1>4, <2>1 DEF Inv, TypesHold
<1>7. Covers(seq + 1, newest, missing, Append(q, x))
  BY <1>2, <1>3, <1>4, CoversSent DEF Inv
<1>8. Tallies(Append(q, x), position, Booked(owed, e))
  BY <1>3, <1>4, TallySent DEF Inv
<1>9. Explained(seq + 1, Replay(truth, e), Append(q, x), published, synced, shadow, quoted)
  <2>1. Explained(seq, truth, q, published, synced, shadow, quoted)
    BY DEF Inv
  <2> HIDE DEF q
  <2>2. QED
    BY <1>2, <1>3, <1>4, <2>1, ExplainedSent
<1>10. QED
  BY <1>1, <1>4, <1>5, <1>6, <1>7, <1>8, <1>9 DEF Inv, Covers, Tallies, Explained

LEMMA LoseInv ==
  ASSUME Inv, NEW e \in Events, Lose(e)
  PROVE  Inv'
<1> DEFINE q == InFlight
           no == FALSE
<1>1. /\ Happens(e) /\ seq' = seq + 1 /\ missing' = missing \cup {seq} /\ synced' = no
      /\ UNCHANGED <<published, net, ring, owed, pc, currentLost, lastLost, highest,
                     shadow, position, quoted, newest, expected, lost>>
  BY DEF Lose, handlerVars, strategyVars
<1>2. seq \in Nat
  BY DEF Inv, TypesHold
<1>3. /\ q \in Seq(Datagram) /\ Sound(truth, Prices)
      /\ truth' = Replay(truth, e) /\ Sound(truth', Prices) /\ Tells(truth, e, truth')
      /\ lastAdded' \in Nat /\ IdsUpTo(truth, lastAdded)'
  BY <1>1, HappensFacts, InFlightFacts
<1>4. InFlight' = q
  BY <1>1 DEF InFlight
<1>5. TypesHold'
  <2>1. missing' \subseteq 0 .. seq' - 1
    <3>1. \A n \in missing : n \in 0 .. seq - 1
      BY DEF Inv, TypesHold
    <3>2. missing' = missing \cup {seq} /\ seq' = seq + 1
      BY <1>1
    <3>3. \A n \in missing' : n \in 0 .. seq' - 1
      BY <1>2, <3>1, <3>2
    <3>4. QED
      BY <3>3
  <2>2. synced' \in BOOLEAN
    BY <1>1
  <2> HIDE DEF no
  <2>3. QED
    BY <1>1, <1>2, <1>3, <2>1, <2>2 DEF Inv, TypesHold
<1>6. Covers(seq + 1, newest, missing \cup {seq}, q)
  BY <1>2, CoversLost DEF Inv
<1>7. Explained(seq + 1, Replay(truth, e), q, published, no, shadow, quoted)
  <2>1. Explained(seq, truth, q, published, synced, shadow, quoted)
    BY DEF Inv
  <2>2. ~ no
    OBVIOUS
  <2> HIDE DEF q, no
  <2>3. QED
    BY <1>2, <1>3, <2>1, <2>2, ExplainedLost
<1>8. Tallies(q, position, owed)
  BY DEF Inv
<1> HIDE DEF no
<1>9. QED
  BY <1>1, <1>3, <1>4, <1>5, <1>6, <1>7, <1>8 DEF Inv, Covers, Tallies, Explained

LEMMA PublishInv ==
  ASSUME Inv, Publish
  PROVE  Inv'
<1> DEFINE fresh == [seq |-> seq, bids |-> ExportSide(truth, "Bid"), asks |-> ExportSide(truth, "Ask")]
<1>1. /\ published' = fresh
      /\ UNCHANGED <<truth, lastAdded, seq, net, ring, owed, missing, synced, pc, currentLost,
                     lastLost, highest, shadow, position, quoted, newest, expected, lost>>
  BY DEF Publish, ExportResync, handlerVars, strategyVars, feedVars
<1>2. /\ fresh.seq = seq
      /\ fresh.bids = ExportSide(truth, "Bid") /\ fresh.asks = ExportSide(truth, "Ask")
  OBVIOUS
<1> HIDE DEF fresh
<1>3. Explained(seq, truth, InFlight, fresh, synced, shadow, quoted)
  BY <1>2, ExplainedPublished DEF Inv, TypesHold
<1>4. InFlight' = InFlight
  BY <1>1 DEF InFlight
<1>5. TypesHold'
  BY <1>1 DEF Inv, TypesHold, IdsUpTo
<1>6. QED
  BY <1>1, <1>3, <1>4, <1>5 DEF Inv, Covers, Tallies, Explained

(* The count of lost events only grows. *)
LEMMA HandleFacts ==
  ASSUME expected \in Int, lost \in Nat, NEW n \in Nat, Handler!Handle(n)
  PROVE  expected' \in Int /\ lost' \in Nat /\ lost <= lost'
<1>1. expected' = Handler!NextExpected(n) /\ Handler!CountGap(n)
  BY DEF Handler!Handle
<1>2. expected' \in Int
  BY <1>1 DEF Handler!NextExpected
<1>3. lost' = lost \/ (n > expected /\ lost' = lost + (n - expected))
  BY <1>1 DEF Handler!CountGap
<1>4. QED
  BY <1>2, <1>3

LEMMA DeliverInv ==
  ASSUME Inv, NEW i \in DOMAIN net, Deliver(i)
  PROVE  Inv'
<1> DEFINE x == net[i]
           q == InFlight
           l == Len(ring)
           b == l + i
           new == InFlight'
<1>1. /\ net' = RemoveAt(net, i) /\ Handler!Handle(x.seq)
      /\ UNCHANGED <<truth, lastAdded, seq, published, pc, currentLost, lastLost, highest,
                     shadow, position, quoted, newest>>
  BY DEF Deliver, exchangeVars, feedVars, strategyVars
<1>2. /\ seq \in Nat /\ net \in Seq(Datagram) /\ ring \in Seq(Datagram) /\ l <= RingSize
      /\ expected \in Int /\ lost \in Nat /\ currentLost <= lost /\ currentLost \in Nat
      /\ synced \in BOOLEAN /\ \A n \in missing : n \in 0 .. seq - 1
  BY DEF Inv, TypesHold
<1>3. l \in Nat /\ i \in 1 .. Len(net) /\ x \in Datagram /\ b \in Nat
  BY <1>2
<1>4. x.seq \in Nat /\ x.event \in Events
  BY <1>3 DEF Datagram
<1>5. /\ q \in Seq(Datagram) /\ q[b] = x /\ x.seq \in 0 .. seq - 1
  <2>1. /\ q \in Seq(Datagram) /\ Len(q) = l + Len(net)
        /\ \A k \in 1 .. Len(net) : q[l + k] = net[k]
    BY <1>2, Joined DEF InFlight
  <2>2. b \in 1 .. Len(q)
    BY <1>3, <2>1
  <2>3. q[b] = x
    BY <1>3, <2>1
  <2>4. QED
    BY <2>1, <2>2, <2>3, InFlightFacts
<1>6. /\ net' \in Seq(Datagram)
      /\ IsMoved(Append(ring, x) \o net', q, l + 1, b) /\ IsCut(ring \o net', q, b)
  BY <1>1, <1>2, RemovedFacts, Forwarded DEF InFlight
<1>7. expected' \in Int /\ lost' \in Nat /\ currentLost' <= lost'
  <2>1. expected' \in Int /\ lost' \in Nat /\ lost <= lost'
    BY <1>1, <1>2, <1>4, HandleFacts
  <2>2. QED
    BY <1>1, <1>2, <2>1
<1>8. Explained(seq, truth, q, published, synced, shadow, quoted)
  BY DEF Inv
<1> HIDE DEF x, q, l, b
<1>9. CASE RingHasRoom
  <2>1. ring' = Append(ring, x) /\ synced' = (synced /\ i = 1) /\ missing' = missing /\ owed' = owed
    BY <1>9 DEF Deliver, x
  <2>2. IsMoved(new, q, l + 1, b)
    BY <1>6, <2>1 DEF InFlight
  <2> DEFINE a == l + 1
  <2>3. a \in Nat /\ IsMoved(new, q, a, b)
    BY <1>3, <2>2
  <2>4. synced' => synced /\ a = b
    BY <1>3, <2>1 DEF b
  <2> HIDE DEF a, new
  <2>5. Explained(seq, truth, q, published, synced, shadow, quoted) => 
        Explained(seq, truth, new, published, synced', shadow, quoted)
    BY <1>2, <1>3, <1>5, <2>3, <2>4, ExplainedMoved
  <2>6. Covers(seq, newest, missing, new)
    BY <1>2, <1>3, <1>5, <2>3, CoversMoved DEF Inv, q
  <2>7. Tallies(new, position, owed)
    BY <1>3, <1>5, <2>3, TallyMoved DEF Inv, q
  <2>8. TypesHold'
    <3>1. ring' \in Seq(Datagram) /\ Len(ring') <= RingSize
      <4>1. Len(Append(ring, x)) = l + 1 /\ Append(ring, x) \in Seq(Datagram)
        BY <1>2, <1>3 DEF l
      <4>2. l < RingSize
        BY <1>9 DEF RingHasRoom, l
      <4>3. QED
        BY <1>3, <2>1, <4>1, <4>2, MarketDataAssumption
    <3>2. synced' \in BOOLEAN
      BY <1>2, <2>1
    <3>3. QED
      BY <1>1, <1>6, <1>7, <2>1, <3>1, <3>2 DEF Inv, TypesHold, IdsUpTo
  <2>9. QED
    BY <1>1, <1>8, <2>1, <2>5, <2>6, <2>7, <2>8 DEF Inv, Covers, Tallies, Explained, new
<1>10. CASE ~ RingHasRoom
  <2> DEFINE no == FALSE
             left == Minus(owed, Booked(Flat, x.event))
  <2>1. /\ ring' = ring /\ synced' = no /\ missing' = missing \cup {x.seq}
        /\ owed' = left
    BY <1>10 DEF Deliver, x, Minus
  <2>2. IsCut(new, q, b)
    BY <1>6, <2>1 DEF InFlight
  <2>3. ~ no
    OBVIOUS
  <2> HIDE DEF new, no
  <2>4. Explained(seq, truth, new, published, no, shadow, quoted)
    BY <1>2, <1>3, <1>5, <1>8, <2>2, <2>3, ExplainedCut
  <2>5. Covers(seq, newest, missing \cup {x.seq}, new)
    <3>1. Covers(seq, newest, missing \cup {q[b].seq}, new)
      BY <1>2, <1>3, <1>5, <2>2, CoversCut DEF Inv, q
    <3>2. QED
      BY <1>5, <3>1
  <2>6. Tallies(new, position, left)
    <3>1. Tallies(new, position, Minus(owed, Booked(Flat, q[b].event)))
      BY <1>3, <1>5, <2>2, TallyCut DEF Inv, q
    <3>2. QED
      BY <1>5, <3>1
  <2>7. TypesHold'
    <3>1. \A n \in missing' : n \in 0 .. seq' - 1
      BY <1>1, <1>2, <1>5, <2>1
    <3>2. synced' \in BOOLEAN
      BY <2>1 DEF no
    <3>3. QED
      BY <1>1, <1>2, <1>6, <1>7, <2>1, <3>1, <3>2 DEF Inv, TypesHold, IdsUpTo, l
  <2> HIDE DEF left
  <2>8. QED
    BY <1>1, <2>1, <2>4, <2>5, <2>6, <2>7 DEF Inv, Covers, Tallies, Explained, new
<1>11. QED
  BY <1>9, <1>10

LEMMA ApplyInv ==
  ASSUME Inv, Apply
  PROVE  Inv'
<1> DEFINE x == Head(ring)
           e == x.event
           q == InFlight
           new == InFlight'
<1>1. /\ ring # <<>> /\ ring' = Tail(ring)
      /\ shadow' = Replay(shadow, e) /\ position' = Booked(position, e) /\ quoted' = Noted(quoted, e)
      /\ highest' = IF x.seq > highest THEN x.seq ELSE highest
      /\ newest' = IF x.seq > newest THEN x.seq ELSE newest
      /\ UNCHANGED <<truth, lastAdded, seq, published, net, expected, lost, pc, currentLost,
                     lastLost, missing, owed, synced>>
  BY DEF Apply, exchangeVars, feedVars, handlerVars
<1>2. /\ seq \in Nat /\ net \in Seq(Datagram) /\ ring \in Seq(Datagram) /\ Len(ring) <= RingSize
      /\ highest \in Nat /\ highest <= seq
      /\ newest \in Int /\ newest >= -1 /\ newest <= highest /\ newest < seq
      /\ IsBook(shadow, Prices) /\ position \in Account /\ quoted \in Quotes
  BY DEF Inv, TypesHold
<1>3. /\ Tail(ring) \o net \in Seq(Datagram) /\ IsCut(Tail(ring) \o net, ring \o net, 1)
      /\ (ring \o net)[1] = Head(ring)
  BY <1>1, <1>2, HeadTaken
<1>4. q \in Seq(Datagram) /\ q[1] = x /\ IsCut(new, q, 1)
  BY <1>1, <1>3, InFlightFacts DEF InFlight
<1>5. x \in Datagram /\ Tail(ring) \in Seq(Datagram) /\ Len(Tail(ring)) <= RingSize
  BY <1>1, <1>2, MarketDataAssumption
<1>6. e \in Events /\ x.seq \in Nat
  BY <1>5 DEF Datagram
<1>7. x.seq \in 0 .. seq - 1
  <2>1. 1 \in 1 .. Len(q)
    <3>1. 1 <= Len(q) /\ Len(q) \in Nat
      BY <1>4 DEF IsCut
    <3>2. QED
      BY <3>1
  <2>2. QED
    BY <1>4, <2>1, InFlightFacts
<1> HIDE DEF x, q, new
<1>8. Explained(seq, truth, new, published, synced, Replay(shadow, e), Noted(quoted, e))
  <2>1. Explained(seq, truth, q, published, synced, shadow, quoted)
    BY DEF Inv, q
  <2>2. Explained(seq, truth, new, published, synced,
                  Replay(shadow, q[1].event), Noted(quoted, q[1].event))
    BY <1>2, <1>4, <2>1, ExplainedApplied
  <2>3. QED
    BY <1>4, <2>2
<1>9. Tallies(new, Booked(position, e), owed)
  <2>1. Tallies(new, Booked(position, q[1].event), owed)
    BY <1>4, TallyApplied DEF Inv, q
  <2>2. QED
    BY <1>4, <2>1
<1>10. newest' \in Int /\ newest' >= newest /\ newest' >= x.seq /\ newest' < seq
  BY <1>1, <1>2, <1>6, <1>7
<1>11. highest' \in Nat /\ highest' <= seq /\ newest' <= highest'
  BY <1>1, <1>2, <1>6, <1>7
<1>12. Covers(seq, newest', missing, new)
  BY <1>2, <1>4, <1>10, CoversApplied DEF Inv, q
<1>13. IsBook(shadow', Prices) /\ position' \in Account /\ quoted' \in Quotes
  <2>1. IsBook(Replay(shadow, e), Prices)
    BY <1>2, <1>6, ReplayBook
  <2>2. Booked(position, e) \in Account
    BY <1>2, <1>6, BookedFacts
  <2>3. Noted(quoted, e) \in Quotes
    BY <1>2, <1>6, NotedFacts
  <2>4. QED
    BY <1>1, <2>1, <2>2, <2>3
<1>14. TypesHold'
  <2>1. newest' >= -1
    BY <1>2, <1>10
  <2>2. QED
    BY <1>1, <1>2, <1>5, <1>10, <1>11, <1>13, <2>1 DEF Inv, TypesHold, IdsUpTo, IsBook
<1> HIDE DEF e
<1>15. QED
  BY <1>1, <1>8, <1>9, <1>12, <1>14 DEF Inv, Covers, Tallies, Explained, new

LEMMA CheckInv ==
  ASSUME Inv, Drained \/ NoCheck \/ CheckLost
  PROVE  Inv'
<1>1. /\ UNCHANGED <<truth, lastAdded, seq, published, net, expected, lost, ring, lastLost,
                     highest, shadow, position, quoted, newest, missing, owed, synced>>
      /\ pc' \in {"drain", "check", "resync"}
      /\ currentLost' = currentLost \/ currentLost' = lost
  BY DEF Drained, NoCheck, CheckLost, exchangeVars, feedVars, handlerVars
<1>2. InFlight' = InFlight
  BY <1>1 DEF InFlight
<1>3. currentLost' \in Nat /\ lastLost' <= currentLost' /\ currentLost' <= lost'
  BY <1>1 DEF Inv, TypesHold
<1>4. TypesHold'
  BY <1>1, <1>3 DEF Inv, TypesHold, IdsUpTo, IsBook
<1>5. QED
  BY <1>1, <1>2, <1>4 DEF Inv, Covers, Tallies, Explained

LEMMA ResyncInv ==
  ASSUME Inv, Resync
  PROVE  Inv'
<1> DEFINE q == InFlight
<1>1. /\ UNCHANGED <<truth, lastAdded, seq, published, net, expected, lost, ring, currentLost,
                     position, newest, missing, owed>>
      /\ pc' = "drain" /\ lastLost' = currentLost
  BY DEF Resync, exchangeVars, feedVars, handlerVars
<1>2. InFlight' = q
  BY <1>1 DEF InFlight
<1>3. lastLost' \in Nat /\ lastLost' <= currentLost'
  BY <1>1 DEF Inv, TypesHold
<1>4. CASE Gate
  <2> DEFINE rebuilt == RebuildFromResync(shadow, published)
             r == Requoted(quoted, published)
  <2>1. /\ shadow' = rebuilt /\ highest' = published.seq /\ quoted' = r
        /\ synced' = /\ \A n \in DOMAIN InFlight : InFlight[n].seq >= published.seq
                     /\ \A n \in missing : n < published.seq
                     /\ \A n, m \in DOMAIN InFlight : n < m => InFlight[n].seq < InFlight[m].seq
    BY <1>4 DEF Resync, Requoted
  <2>2. /\ seq \in Nat /\ highest \in Nat /\ newest \in Int /\ newest <= highest
        /\ quoted \in Quotes
    BY DEF Inv, TypesHold
  <2>3. q \in Seq(Datagram) /\ published.seq \in 0 .. seq /\ DOMAIN q = 1 .. Len(q)
    BY InFlightFacts
  <2>4. published.seq > 0 /\ published.seq > newest
    BY <1>4, <2>2, <2>3 DEF Gate
  <2>5. synced' \in BOOLEAN
    BY <2>1
  <2>6. synced' => /\ \A i \in 1 .. Len(q) : q[i].seq >= published.seq
                   /\ \A v \in missing : v < published.seq
                   /\ \A i, j \in 1 .. Len(q) : i < j => q[i].seq < q[j].seq
    BY <2>1, <2>3
  <2>7. Explained(seq, truth, q, published, synced, shadow, quoted) /\ Covers(seq, newest, missing, q)
    BY DEF Inv
  <2> HIDE DEF q
  <2>8. /\ IsBook(rebuilt, Prices) /\ r \in Quotes
        /\ Explained(seq, truth, q, published, synced', rebuilt, r)
    BY <2>2, <2>3, <2>4, <2>6, <2>7, ExplainedRebuilt
  <2> HIDE DEF rebuilt, r
  <2>9. TypesHold'
    <3>1. highest' \in Nat /\ highest' <= seq /\ newest <= highest'
      BY <2>1, <2>2, <2>3, <2>4
    <3>2. IsBook(shadow', Prices) /\ quoted' \in Quotes
      BY <2>1, <2>8
    <3>3. QED
      BY <1>1, <1>3, <2>5, <3>1, <3>2 DEF Inv, TypesHold, IdsUpTo, IsBook
  <2>10. QED
    BY <1>1, <1>2, <2>1, <2>8, <2>9 DEF Inv, Covers, Tallies, Explained, q
<1>5. CASE ~ Gate
  <2>1. UNCHANGED <<shadow, highest, quoted, synced>>
    BY <1>5 DEF Resync
  <2>2. TypesHold'
    BY <1>1, <1>3, <2>1 DEF Inv, TypesHold, IdsUpTo, IsBook
  <2>3. QED
    BY <1>1, <1>2, <2>1, <2>2 DEF Inv, Covers, Tallies, Explained
<1>6. QED
  BY <1>4, <1>5

(* ... hence after each step ... *)
LEMMA StepInv ==
  ASSUME Inv, [Next]_vars
  PROVE  Inv'
<1>1. ASSUME NEW e \in Events, Send(e) PROVE Inv'
  BY <1>1, SendInv
<1>2. ASSUME NEW e \in Events, Lose(e) PROVE Inv'
  BY <1>2, LoseInv
<1>3. CASE Publish
  BY <1>3, PublishInv
<1>4. ASSUME NEW i \in DOMAIN net, Deliver(i) PROVE Inv'
  BY <1>4, DeliverInv
<1>5. CASE Apply
  BY <1>5, ApplyInv
<1>6. CASE Drained \/ NoCheck \/ CheckLost
  BY <1>6, CheckInv
<1>7. CASE Resync
  BY <1>7, ResyncInv
<1>8. CASE UNCHANGED vars
  <2>1. UNCHANGED <<truth, lastAdded, seq, published, net, expected, lost, ring, pc, currentLost,
                    lastLost, highest, shadow, position, quoted, newest, missing, owed, synced>>
    BY <1>8 DEF vars, exchangeVars, feedVars, handlerVars, strategyVars
  <2>2. InFlight' = InFlight
    BY <2>1 DEF InFlight
  <2>3. TypesHold'
    BY <2>1 DEF Inv, TypesHold, IdsUpTo, IsBook
  <2>4. QED
    BY <2>1, <2>2, <2>3 DEF Inv, Covers, Tallies, Explained
<1>9. QED
  BY <1>1, <1>2, <1>3, <1>4, <1>5, <1>6, <1>7, <1>8 DEF Next

-----------------------------------------------------------------------------
(* Theorems *)

(* ... and always. *)
LEMMA Invariance == Spec => []Inv
<1>1. Init => Inv
  BY InitInv
<1>2. Inv /\ [Next]_vars => Inv'
  BY StepInv
<1>3. QED
  BY <1>1, <1>2, PTL DEF Spec

(* In step, what is in flight takes the reader to the exchange's book, knowing *)
(* the orders of ours on it.                                                   *)
LEMMA ReplayedToTheEnd ==
  ASSUME NEW n \in Nat, NEW book, NEW q \in Seq(Datagram), NEW snapshot, NEW known \in Known,
         NEW inStep, inStep, Explained(n, book, q, snapshot, inStep, known.book, known.quoted)
  PROVE  /\ FoldLeft(Learnt, known, EventsOf(q)).book = book
         /\ Knows(book, FoldLeft(Learnt, known, EventsOf(q)).quoted)
<1> DEFINE es == EventsOf(q)
           m == Len(q)
<1>1. m \in Nat /\ es \in Seq(Events) /\ Len(es) = m /\ \A k \in 1 .. m : es[k] = q[k].event
  BY EventsOfFacts
<1>2. PICK log, books : /\ IsHistory(log, books, n, book) /\ Carries(log, n, q)
                        /\ InStep(books, n, q, known.book, known.quoted)
  BY DEF Explained
<1>3. PICK first \in Nat : /\ first + m = n
                           /\ \A i \in 1 .. m : q[i].seq = first + i - 1
                           /\ known.book = books[first] /\ Knows(books[first], known.quoted)
  BY <1>2 DEF InStep
<1>4. es \in Seq(Events)
  BY <1>1
<1> HIDE DEF es, m
<1>5. PICK t : /\ IsLearning(t, known, es) /\ \A k \in 0 .. Len(es) : t[k] \in Known
               /\ FoldLeft(Learnt, known, es) = t[Len(es)]
  BY <1>4, LearningFacts
<1> DEFINE right == {k \in 0 .. m : /\ t[k].book = books[first + k]
                                    /\ Knows(books[first + k], t[k].quoted)}
<1>6. 0 \in right
  <2>1. t[0] = known /\ first + 0 = first /\ 0 \in 0 .. m
    BY <1>1, <1>5 DEF IsLearning
  <2>2. QED
    BY <1>3, <2>1
<1>7. ASSUME NEW k \in 1 .. m, k - 1 \in right PROVE k \in right
  <2> DEFINE v == first + (k - 1)
             old == t[k - 1]
             e == log[v]
  <2>1. v \in 0 .. n - 1 /\ v + 1 = first + k /\ q[k].seq = v /\ k \in 0 .. m /\ k - 1 \in 0 .. m
    <3>1. first \in Nat /\ first + m = n /\ m \in Nat
      BY <1>1, <1>3
    <3>2. /\ v \in 0 .. n - 1 /\ v + 1 = first + k /\ v = first + k - 1
          /\ k \in 0 .. m /\ k - 1 \in 0 .. m
      BY <3>1
    <3> HIDE DEF v
    <3>3. q[k].seq = v
      BY <1>3, <3>2
    <3>4. QED
      BY <3>2, <3>3
  <2>2. old.book = books[v] /\ Knows(books[v], old.quoted)
    BY <1>7, SMTT(20)
  <2>3. es[k] = e
    BY <1>1, <1>2, <2>1 DEF Carries, m
  <2>4. old \in Known
    BY <1>1, <1>5, <2>1
  <2>5. old.quoted \in Quotes
    BY <2>4 DEF Known
  <2>6. t[k] = Learnt(old, e)
    BY <1>1, <1>5, <2>3 DEF IsLearning
  <2> HIDE DEF old, e
  <2>7. t[k].book = Replay(old.book, e) /\ t[k].quoted = Noted(old.quoted, e)
    BY <2>6 DEF Learnt
  <2>8. books[v + 1] = Replay(books[v], e) /\ Tells(books[v], e, books[v + 1])
    BY <1>2, <2>1 DEF IsHistory, e
  <2>9. Knows(books[v + 1], Noted(old.quoted, e))
    BY <2>2, <2>5, <2>8 DEF Tells
  <2>10. QED
    BY <2>1, <2>2, <2>7, <2>8, <2>9
<1> HIDE DEF right
<1>8. \A k \in 0 .. m : k \in right
  BY <1>1, <1>6, <1>7, Induct
<1>9. m \in right
  BY <1>1, <1>8
<1>10. books[n] = book
  BY <1>2 DEF IsHistory
<1>11. QED
  BY <1>1, <1>3, <1>5, <1>9, <1>10 DEF right, es

(* What the strategy knows has its type. *)
LEMMA KnowledgeFacts ==
  ASSUME Inv
  PROVE  /\ Knowledge \in Known /\ Knowledge.position = position
         /\ Knowledge.book = shadow /\ Knowledge.quoted = quoted
<1>1. shadow \in Books(Prices) /\ position \in Account /\ quoted \in Quotes
  BY BooksAreBooks DEF Inv, TypesHold
<1>2. QED
  BY <1>1 DEF Knowledge, Known

(* The strategy in step, with what is in flight. *)
LEMMA SyncedFacts ==
  ASSUME Inv, synced
  PROVE  InTheEnd.book = truth /\ Knows(truth, InTheEnd.quoted)
<1> DEFINE q == InFlight
           known == Knowledge
<1>1. q \in Seq(Datagram) /\ seq \in Nat
  BY InFlightFacts DEF Inv, TypesHold
<1>2. known \in Known /\ known.book = shadow /\ known.quoted = quoted
  BY KnowledgeFacts
<1>3. Explained(seq, truth, q, published, synced, shadow, quoted)
  BY DEF Inv
<1>4. InTheEnd = FoldLeft(Learnt, known, EventsOf(q))
  BY DEF InTheEnd
<1> HIDE DEF q, known
<1>5. Explained(seq, truth, q, published, synced, known.book, known.quoted)
  BY <1>2, <1>3
<1>6. /\ FoldLeft(Learnt, known, EventsOf(q)).book = truth
      /\ Knows(truth, FoldLeft(Learnt, known, EventsOf(q)).quoted)
  BY <1>1, <1>2, <1>5, ReplayedToTheEnd
<1>7. QED
  BY <1>4, <1>6

(* No step leaves a level of the shadow book empty. *)
LEMMA StaysLive ==
  ASSUME Inv, LiveBook(shadow), [Next]_vars
  PROVE  LiveBook(shadow)'
<1>1. CASE UNCHANGED shadow
  BY <1>1
<1>2. CASE Apply
  <2> DEFINE e == Head(ring).event
  <2>1. ring # <<>> /\ shadow' = Replay(shadow, e)
    BY <1>2 DEF Apply
  <2>2. ring \in Seq(Datagram) /\ IsBook(shadow, Prices)
    BY DEF Inv, TypesHold
  <2>3. e \in Events
    <3>1. Head(ring) \in Datagram
      BY <2>1, <2>2
    <3>2. QED
      BY <3>1 DEF Datagram
  <2> HIDE DEF e
  <2>4. QED
    BY <2>1, <2>2, <2>3, ReplayLive
<1>3. CASE Resync /\ Gate
  <2> DEFINE q == InFlight
             no == FALSE
  <2>1. shadow' = RebuildFromResync(shadow, published)
    BY <1>3 DEF Resync
  <2>2. q \in Seq(Datagram) /\ seq \in Nat /\ newest \in Int /\ quoted \in Quotes /\ ~ no
    BY InFlightFacts DEF Inv, TypesHold
  <2>3. published.seq > 0 /\ published.seq > newest
    <3>1. highest \in Nat /\ newest <= highest /\ published.seq \in Nat
      BY InFlightFacts DEF Inv, TypesHold
    <3>2. QED
      BY <1>3, <2>2, <3>1 DEF Gate
  <2>4. Explained(seq, truth, q, published, synced, shadow, quoted) /\ Covers(seq, newest, missing, q)
    BY DEF Inv
  <2> HIDE DEF q, no
  <2>5. LiveBook(RebuildFromResync(shadow, published))
    BY <2>2, <2>3, <2>4, ExplainedRebuilt
  <2>6. QED
    BY <2>1, <2>5
<1>4. QED
  BY <1>1, <1>2, <1>3 DEF Next, vars, strategyVars, Send, Lose, Publish, Deliver, Drained,
                          NoCheck, CheckLost, Resync

\* In step, the shadow book and the events in flight make the matching engine's
\* book: from the start until a loss or an overtaking, and again from a rebuild
\* of run_strategy that overtook all of them.
THEOREM Exact == Spec => []SyncedExact
<1>1. Inv => SyncedExact
  BY SyncedFacts DEF SyncedExact
<1>2. QED
  BY <1>1, Invariance, PTL

\* In step, every order of ours that rests is at the price run_strategy believes
\* quoted, or an Add in flight will say so: a rebuild finds it in the snapshot.
THEOREM Quoted == Spec => []KnowsItsQuotes
<1>1. Inv => KnowsItsQuotes
  <2>1. SUFFICES ASSUME Inv, synced PROVE
          \A s \in Side : \A p \in DOMAIN truth[s] :
            (\E i \in DOMAIN truth[s][p] : truth[s][p][i].ours) => InTheEnd.quoted[s] = p
    BY DEF KnowsItsQuotes
  <2>2. Knows(truth, InTheEnd.quoted)
    BY <2>1, SyncedFacts
  <2>3. QED
    BY <2>2 DEF Knows
<1>2. QED
  BY <1>1, Invariance, PTL

\* Each fill of ours that reaches the drain loop is booked once, in any order, and
\* whatever snapshots replace the shadow book meanwhile.
THEOREM Conserved == Spec => []PositionConserved
<1>1. Inv => PositionConserved
  <2> SUFFICES ASSUME Inv PROVE PositionConserved
    OBVIOUS
  <2> DEFINE q == InFlight
             known == Knowledge
  <2>1. q \in Seq(Datagram)
    BY InFlightFacts
  <2>2. known \in Known
    BY KnowledgeFacts
  <2>3. Tallies(q, known.position, owed)
    BY KnowledgeFacts DEF Inv
  <2>4. InTheEnd = FoldLeft(Learnt, known, EventsOf(q))
    BY DEF InTheEnd
  <2> HIDE DEF q, known
  <2>5. FoldLeft(Learnt, known, EventsOf(q)).position = owed
    BY <2>1, <2>2, <2>3, TallyTotal
  <2>6. QED
    BY <2>4, <2>5 DEF PositionConserved
<1>2. QED
  BY <1>1, Invariance, PTL

\* Every variable has its type, and no packet carries a number not emitted yet.
THEOREM Typed == Spec => []TypeOK
<1>1. Inv => TypeOK
  <2> SUFFICES ASSUME Inv PROVE TypeOK
    OBVIOUS
  <2>1. /\ seq \in Nat /\ net \in Seq(Datagram) /\ ring \in Seq(Datagram)
        /\ highest \in Nat /\ highest <= seq /\ newest \in Int /\ newest >= -1 /\ newest < seq
    BY DEF Inv, TypesHold
  <2>2. \A i \in 1 .. Len(InFlight) : InFlight[i].seq \in 0 .. seq - 1
    BY InFlightFacts
  <2>3. /\ Len(InFlight) = Len(ring) + Len(net)
        /\ \A k \in 1 .. Len(ring) : InFlight[k] = ring[k]
        /\ \A k \in 1 .. Len(net) : InFlight[Len(ring) + k] = net[k]
    BY <2>1, Joined DEF InFlight
  <2>4. Sent(ring)
    <3> SUFFICES ASSUME NEW k \in DOMAIN ring
                 PROVE  ring[k].seq \in 0 .. seq - 1 /\ ring[k].event \in Events
      BY DEF Sent
    <3>1. k \in 1 .. Len(ring) /\ k \in 1 .. Len(InFlight)
      BY <2>1, <2>3
    <3>2. ring[k].seq \in 0 .. seq - 1
      BY <2>2, <2>3, <3>1
    <3>3. ring[k].event \in Events
      <4>1. ring[k] \in Datagram
        BY <2>1, <3>1
      <4>2. QED
        BY <4>1 DEF Datagram
    <3>4. QED
      BY <3>2, <3>3
  <2>5. Sent(net)
    <3> SUFFICES ASSUME NEW k \in DOMAIN net
                 PROVE  net[k].seq \in 0 .. seq - 1 /\ net[k].event \in Events
      BY DEF Sent
    <3>1. k \in 1 .. Len(net) /\ Len(ring) + k \in 1 .. Len(InFlight)
      BY <2>1, <2>3
    <3>2. net[k].seq \in 0 .. seq - 1
      BY <2>2, <2>3, <3>1
    <3>3. net[k].event \in Events
      <4>1. net[k] \in Datagram
        BY <2>1, <3>1
      <4>2. QED
        BY <4>1 DEF Datagram
    <3>4. QED
      BY <3>2, <3>3
  <2>6. highest \in 0 .. seq /\ newest \in -1 .. seq - 1
    BY <2>1
  <2>7. IsBook(truth, Prices) /\ published.seq \in 0 .. seq
    BY InFlightFacts DEF Sound
  <2>8. QED
    BY <2>1, <2>4, <2>5, <2>6, <2>7 DEF Inv, TypesHold, TypeOK
<1>2. QED
  BY <1>1, Invariance, PTL

\* A rebuild never discards an event already replayed: the snapshot the gate of
\* run_strategy lets through was made after all of them, however late the
\* datagrams are and whenever the snapshot was published.
THEOREM NeverRollsBack == Spec => RebuildNeverRollsBack
<1>1. Inv /\ [Next]_vars => [(pc = "resync" /\ Gate) => newest < published.seq]_vars
  <2> SUFFICES ASSUME Inv, Gate PROVE newest < published.seq
    OBVIOUS
  <2>1. newest \in Int /\ highest \in Nat /\ newest <= highest /\ published.seq \in Nat
    BY InFlightFacts DEF Inv, TypesHold
  <2>2. QED
    BY <2>1 DEF Gate
<1>2. QED
  BY <1>1, Invariance, PTL DEF Spec, RebuildNeverRollsBack

\* What the strategy reads as the best prices are prices of orders: neither a lost
\* event nor one replayed twice or too late leaves a level without quantity, and a
\* rebuild of run_strategy has only levels of the matching engine.
THEOREM NoGhostLevels == Spec => []ShadowIsLive
<1>1. Init => LiveBook(shadow)
  <2>1. Sound(EmptyBook, Prices)
    BY EmptyIsSound
  <2>2. LiveBook(EmptyBook)
    BY <2>1 DEF Sound
  <2>3. QED
    BY <2>2 DEF Init
<1>2. Inv /\ LiveBook(shadow) /\ [Next]_vars => LiveBook(shadow)'
  BY StaysLive
<1>3. LiveBook(shadow) => ShadowIsLive
  BY DEF LiveBook, AllLive, ShadowIsLive
<1>4. QED
  BY <1>1, <1>2, <1>3, Invariance, PTL DEF Spec

\* In step, the shadow book is one that the matching engine had, so run_strategy
\* never sees a bid at or above an ask, also between two events of its drain loop.
THEOREM NeverCrossed == Spec => []NeverLooksCrossed
<1>1. ASSUME Inv, synced PROVE Apart(shadow)
  <2>1. PICK log, books : /\ IsHistory(log, books, seq, truth)
                          /\ InStep(books, seq, InFlight, shadow, quoted)
    BY <1>1 DEF Inv, Explained
  <2>2. PICK k \in Nat : k + Len(InFlight) = seq /\ shadow = books[k]
    BY <2>1 DEF InStep
  <2>3. k \in 0 .. seq
    <3>1. InFlight \in Seq(Datagram) /\ seq \in Nat
      BY <1>1, InFlightFacts DEF Inv, TypesHold
    <3>2. Len(InFlight) \in Nat
      BY <3>1
    <3>3. QED
      BY <2>2, <3>1, <3>2
  <2>4. QED
    BY <2>1, <2>2, <2>3 DEF IsHistory
<1>2. Inv => NeverLooksCrossed
  BY <1>1 DEF NeverLooksCrossed, Apart
<1>3. QED
  BY <1>2, Invariance, PTL
=============================================================================
