------------------------------ MODULE MarketData ------------------------------
(***************************************************************************)
(* The path of market data from the matching engine to the strategy, and   *)
(* the strategy's replay and resync of it: emit of market_sim.rs, run of   *)
(* udp_feed.rs, the md ring of main.rs, and run_strategy of main.rs up to  *)
(* the point where the tick has its mid price.                             *)
(*                                                                         *)
(* Four actors: the matching engine (FeedSource) emits events and now and  *)
(* then publishes a snapshot; the network loses or delivers them; the      *)
(* handler counts gaps and pushes to the ring; the strategy drains the     *)
(* ring and, when the handler counted new losses, asks for a rebuild.      *)
(* The strategy's shared reads (the ring, the loss counter, the snapshot)  *)
(* are one step each, as the other threads run between them.               *)
(***************************************************************************)
EXTENDS FeedSource, FiniteSets, TLC

CONSTANTS
  MaxEvents,  \* bound: the number of events emitted
  MaxLosses,  \* bound: the number of datagrams lost
  RingSize,   \* the capacity of the md ring
  Delayed     \* bound: the numbers of the datagrams others may overtake

ASSUME MarketDataAssumption ==
  MaxEvents \in Nat /\ MaxLosses \in Nat /\ RingSize \in Nat \ {0} /\ Delayed \subseteq Nat

VARIABLES
  seq,          \* FeedSender.seq
  published,    \* the shared BookResync
  net,          \* the datagrams on their way
  expected, received, gaps, lost,  \* as in FeedHandler
  ring,         \* the events in the md ring
  pc,           \* where the tick of run_strategy is
  currentLost,  \* current_lost, once read
  lastLost,     \* last_known_lost_events
  highest,      \* highest_seq_applied
  shadow,       \* shadow_book
  position,     \* inventory, cash and trades_count
  quoted,       \* our_bid_price, our_ask_price and have_quotes
  missing,      \* history: the sequence numbers that never reach the strategy
  newest,       \* history: the highest one that did
  owed,         \* history: the position of all fills that are not missing
  synced        \* history: the shadow book is the truth but for what is in flight

exchangeVars == <<feedVars, seq, published>>
handlerVars == <<expected, received, gaps, lost>>
strategyVars == <<pc, currentLost, lastLost, highest, shadow, position, quoted, newest>>
vars == <<exchangeVars, net, handlerVars, ring, strategyVars, missing, owed, synced>>

Handler == INSTANCE FeedHandler
  WITH MaxSeq <- MaxEvents, MaxReceived <- MaxEvents, first <- 0, late <- 0, seen <- {}

Packet(e) == [seq |-> seq, event |-> e]

\* What an own fill does to the strategy's position; cash is in ticks.
Booked(pos, e) ==
  IF e.kind = "Trade" /\ e.ours
  THEN LET bought == IF e.side = "Bid" THEN e.qty ELSE - e.qty
       IN  [inventory |-> pos.inventory + bought,
            cash      |-> pos.cash - bought * e.price,
            trades    |-> pos.trades + 1]
  ELSE pos

\* What an Add of our own says we have quoted.
Noted(q, e) ==
  IF e.kind = "Add" /\ e.ours THEN [q EXCEPT ![e.side] = e.price, !.have = TRUE] ELSE q

Flat == [inventory |-> 0, cash |-> 0, trades |-> 0]

Init ==
  /\ FeedInit
  /\ seq = 0 /\ published = [seq |-> 0, bids |-> <<>>, asks |-> <<>>]
  /\ net = <<>>
  /\ Handler!HandlerInit
  /\ ring = <<>>
  /\ pc = "drain" /\ currentLost = 0 /\ lastLost = 0 /\ highest = 0
  /\ shadow = EmptyBook /\ position = Flat
  /\ quoted = [Bid |-> 0, Ask |-> 0, have |-> FALSE]
  /\ missing = {} /\ newest = -1 /\ owed = Flat /\ synced = TRUE

-----------------------------------------------------------------------------
(* The matching engine and the network *)

\* emit: the sequence number advances; the datagram is sent ...
Send(e) ==
  /\ seq < MaxEvents
  /\ Happens(e)
  /\ seq' = seq + 1
  /\ net' = Append(net, Packet(e))
  /\ owed' = Booked(owed, e)
  /\ UNCHANGED <<published, handlerVars, ring, strategyVars, missing, synced>>

\* ... or is not, or gets lost on the way (drop_prob, a full socket buffer, a
\* handler that has not bound its socket yet).
Lose(e) ==
  /\ seq < MaxEvents
  /\ Cardinality(missing) < MaxLosses
  /\ Happens(e)
  /\ seq' = seq + 1
  /\ missing' = missing \cup {seq}
  /\ synced' = FALSE
  /\ UNCHANGED <<published, net, handlerVars, ring, strategyVars, owed>>

\* Step 5 of the loop in run(): the snapshot and its number, under the lock.
Publish ==
  /\ LET snapshot == ExportResync(truth)
     IN  published' = [seq |-> seq, bids |-> snapshot.bids, asks |-> snapshot.asks]
  /\ UNCHANGED <<feedVars, seq, net, handlerVars, ring, strategyVars, missing, owed, synced>>

-----------------------------------------------------------------------------
(* The feed handler *)

\* Mutant: the fullness test lets one event too many in.
RoomForOneMore == Len(ring) <= RingSize

RingHasRoom == Len(ring) < RingSize

\* A datagram arrives: it is counted, and forwarded unless the ring is full.
\* An event after a later one leaves the shadow book in doubt.
Deliver(i) ==
  LET packet == net[i]
  IN  /\ net' = RemoveAt(net, i)
      /\ Handler!Handle(packet.seq)
      /\ IF RingHasRoom
         THEN /\ ring' = Append(ring, packet)
              /\ synced' = (synced /\ i = 1)
              /\ UNCHANGED <<missing, owed>>
         ELSE /\ missing' = missing \cup {packet.seq}
              /\ owed' = [inventory |-> owed.inventory - Booked(Flat, packet.event).inventory,
                          cash      |-> owed.cash - Booked(Flat, packet.event).cash,
                          trades    |-> owed.trades - Booked(Flat, packet.event).trades]
              /\ synced' = FALSE
              /\ UNCHANGED ring
      /\ UNCHANGED <<exchangeVars, strategyVars>>

-----------------------------------------------------------------------------
(* The strategy *)

\* Mutant: events a snapshot already covers are skipped, fills and all.
SkipCovered ==
  /\ pc = "drain" /\ ring # <<>>
  /\ LET e == Head(ring).event
     IN  IF Head(ring).seq < highest THEN UNCHANGED <<shadow, position, quoted>>
         ELSE /\ shadow' = Replay(shadow, e)
              /\ position' = Booked(position, e)
              /\ UNCHANGED quoted
  /\ ring' = Tail(ring)
  /\ highest' = IF Head(ring).seq > highest THEN Head(ring).seq ELSE highest
  /\ newest' = IF Head(ring).seq > newest THEN Head(ring).seq ELSE newest
  /\ UNCHANGED <<exchangeVars, net, handlerVars, pc, currentLost, lastLost, missing, owed, synced>>

\* One turn of the drain loop: the event is replayed and, if it is an own
\* fill, booked; our own Adds say what we have quoted.
Apply ==
  /\ pc = "drain" /\ ring # <<>>
  /\ LET e == Head(ring).event
     IN  /\ shadow' = Replay(shadow, e)
         /\ position' = Booked(position, e)
         /\ quoted' = Noted(quoted, e)
  /\ ring' = Tail(ring)
  /\ highest' = IF Head(ring).seq > highest THEN Head(ring).seq ELSE highest
  /\ newest' = IF Head(ring).seq > newest THEN Head(ring).seq ELSE newest
  /\ UNCHANGED <<exchangeVars, net, handlerVars, pc, currentLost, lastLost, missing, owed, synced>>

\* The ring is found empty.
Drained ==
  /\ pc = "drain" /\ ring = <<>>
  /\ pc' = "check"
  /\ UNCHANGED <<exchangeVars, net, handlerVars, ring, currentLost, lastLost,
                 highest, shadow, position, quoted, newest, missing, owed, synced>>

\* The check interval has not elapsed: the tick goes on without a check.
NoCheck ==
  /\ pc = "check"
  /\ pc' = "drain"
  /\ UNCHANGED <<exchangeVars, net, handlerVars, ring, currentLost, lastLost,
                 highest, shadow, position, quoted, newest, missing, owed, synced>>

\* The loss counter is read.
CheckLost ==
  /\ pc = "check"
  /\ currentLost' = lost
  /\ pc' = IF lost > lastLost THEN "resync" ELSE "drain"
  /\ UNCHANGED <<exchangeVars, net, handlerVars, ring, lastLost,
                 highest, shadow, position, quoted, newest, missing, owed, synced>>

\* Mutant: a snapshot taken just before the newest event passes for newer.
GateOffByOne == published.seq >= highest /\ published.bids \o published.asks # <<>>

\* Mutant: the latest snapshot is taken as it is.
Ungated == published.bids \o published.asks # <<>>

\* is_actually_newer, and the snapshot is not empty.
Gate == published.seq > highest /\ published.bids \o published.asks # <<>>

\* Mutant: the best order of the side is taken for ours.
BestPrice(rows, known) == IF rows = <<>> THEN known ELSE rows[1].price

\* The price of the first own order of a snapshot's side, or the one known.
OwnPrice(rows, known) ==
  LET i == SelectInSeq(rows, LAMBDA row : row.order.ours)
  IN  IF i = 0 THEN known ELSE rows[i].price

InFlight == ring \o net

\* The snapshot is read and, if the gate lets it, replaces the shadow book.
\* The losses read before count as dealt with either way.
Resync ==
  /\ pc = "resync"
  /\ pc' = "drain"
  /\ lastLost' = currentLost
  /\ IF Gate
     THEN /\ shadow' = RebuildFromResync(shadow, published)
          /\ highest' = published.seq
          /\ quoted' = [quoted EXCEPT !["Bid"] = OwnPrice(published.bids, @),
                                      !["Ask"] = OwnPrice(published.asks, @)]
          /\ synced' = /\ \A n \in DOMAIN InFlight : InFlight[n].seq >= published.seq
                       /\ \A n \in missing : n < published.seq
                       /\ \A n, m \in DOMAIN InFlight :
                            n < m => InFlight[n].seq < InFlight[m].seq
     ELSE UNCHANGED <<shadow, highest, quoted, synced>>
  /\ UNCHANGED <<exchangeVars, net, handlerVars, ring, currentLost, position, newest, missing, owed>>

Next ==
  \/ \E e \in Events : Send(e)
  \/ \E e \in Events : Lose(e)
  \/ Publish
  \/ \E i \in DOMAIN net : (\A n \in 1 .. i - 1 : net[n].seq \in Delayed) /\ Deliver(i)
  \/ Apply
  \/ Drained
  \/ NoCheck
  \/ CheckLost
  \/ Resync

Spec == Init /\ [][Next]_vars

-----------------------------------------------------------------------------
(* Properties *)

Sent(packets) == \A n \in DOMAIN packets : packets[n].seq \in 0 .. seq - 1 /\ packets[n].event \in Events

\* Every variable has its type, and no packet carries a number not sent yet.
TypeOK ==
  /\ IsBook(truth, Prices) /\ IsBook(shadow, Prices) /\ lastAdded \in Nat
  /\ seq \in Nat /\ published.seq \in 0..seq
  /\ Sent(net) /\ Sent(ring) /\ Len(ring) <= RingSize
  /\ pc \in {"drain", "check", "resync"}
  /\ lastLost <= currentLost /\ currentLost <= lost
  /\ highest \in 0..seq /\ newest \in -1 .. seq - 1
  /\ missing \subseteq 0 .. seq - 1

EventsOf(packets) == [n \in DOMAIN packets |-> packets[n].event]

\* What the strategy knows, and what it knows one event later.
Knowledge == [book |-> shadow, position |-> position, quoted |-> quoted]

Learnt(known, e) ==
  [book     |-> Replay(known.book, e),
   position |-> Booked(known.position, e),
   quoted   |-> Noted(known.quoted, e)]

\* What it will know when all that is in flight has arrived.
InTheEnd == FoldLeft(Learnt, Knowledge, EventsOf(InFlight))

\* As long as nothing was lost, and again after a resync that overtook every
\* loss and nothing in flight, the shadow book is exactly the matching
\* engine's, up to the events still on their way.
SyncedExact == synced => InTheEnd.book = truth

\* In the same states the strategy knows where its orders are: an order of ours
\* that rests is at the price believed quoted, or an Add on its way will say so.
\* A lost Add leaves a wrong belief, which decides on requoting, until a resync.
KnowsItsQuotes ==
  synced =>
    \A s \in Side : \A p \in DOMAIN truth[s] :
      (\E i \in DOMAIN truth[s][p] : truth[s][p][i].ours)
        => InTheEnd.quoted[s] = p

\* Each fill of ours that reaches the strategy is booked exactly once, in the
\* inventory and in cash, also when a resync overtook it: what is booked, and
\* what is in flight, is all that was not lost.
PositionConserved == InTheEnd.position = owed

\* A rebuild never discards an event already replayed: the snapshot it takes
\* was made after all of them (the sequence gate of run_strategy).
RebuildNeverRollsBack ==
  [][(pc = "resync" /\ Gate) => newest < published.seq]_vars

\* Whatever was lost, late or refused, each level of the shadow book is one where
\* something rests: the best prices, and with them the mid price that quotes and
\* risk metrics start from, are never those of an emptied level.
ShadowIsLive ==
  \A s \in Side : \A p \in DOMAIN shadow[s] :
    shadow[s][p] # <<>> /\ \A i \in DOMAIN shadow[s][p] : shadow[s][p][i].qty > 0

\* In step, also in the middle of a replay, the shadow book is not crossed: the
\* sequence gate keeps out the "transient crossed-book artifacts" of stale snapshots.
NeverLooksCrossed ==
  synced => \A b \in DOMAIN shadow["Bid"], a \in DOMAIN shadow["Ask"] : b < a

\* A resync never leaves two copies of one order in the shadow book: the
\* sequence gate "is what makes it safe to apply".
NoOrderRestsTwice ==
  \A s \in Side : \A p \in DOMAIN shadow[s] : \A i, j \in DOMAIN shadow[s][p] :
    shadow[s][p][i].id = shadow[s][p][j].id => i = j

\* Everything sent was received or counted as lost, and applied.
CaughtUp == InFlight = <<>> /\ expected = seq

\* A loss leaves the book wrong until the next check, not longer: when a check
\* has dealt with every loss, all else was applied and a snapshot of the very
\* latest book lies there that the gate would take, the book is right.
CorrectAfterTheCheck ==
  (CaughtUp /\ lost > 0 /\ lastLost = lost /\ published.seq = seq /\ Gate)
    => shadow = truth

\* A loss of the feed shows in the counter: a book that missed something does
\* not look like one that missed nothing.
LossIsCounted == (CaughtUp /\ lost = 0) => shadow = truth
=============================================================================
