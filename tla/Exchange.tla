------------------------------- MODULE Exchange -------------------------------
(***************************************************************************)
(* The matching engine's thread: run() and place_background() of           *)
(* engine/src/market_sim.rs, around the book of module Matching.           *)
(*                                                                         *)
(* The thread refreshes background liquidity slot by slot, carries out the *)
(* commands it pops from the ring, lets a noise trader hit the book, and   *)
(* starts over.  Each of these makes a call on the book, waits for it to   *)
(* return, and emits the call's events; the feed sees them one at a time.  *)
(* The fundamental price is any member of Mids, because a Gaussian step    *)
(* may reach any price; the random choices of the loop are free choices.   *)
(* A snapshot is published at the end of an iteration (MarketData).        *)
(***************************************************************************)
EXTENDS FeedSource

CONSTANTS
  NumLevels,      \* background_levels
  QuotePrices,    \* the prices the strategy may ask for
  Mids,           \* the fundamental prices, in ticks; all above NumLevels
  BackgroundQty,  \* background_level_qty
  LotSize,        \* bid_qty and ask_qty of every Quote (OUR_LOT_SIZE)
  NoiseQty        \* noise_order_qty

ASSUME ExchangeAssumption ==
  /\ NumLevels \in Nat \ {0}
  /\ Mids # {} /\ \A m \in Mids : m \in Int /\ (m - NumLevels)..(m + NumLevels) \subseteq Prices
  /\ \A p \in QuotePrices : {p, p + 1} \subseteq Prices
  /\ {BackgroundQty, LotSize, NoiseQty} \subseteq Qtys
  /\ \A q \in Qtys : 1..q \subseteq Qtys   \* what a fill leaves of an order

VARIABLES
  book, taker, lastId,  \* as in Matching
  phase,      \* where the loop of run() is
  cursor,     \* the slot to be refreshed next
  mid,        \* the fundamental price, in ticks
  slots,      \* what each slot believes it has on the book
  own,        \* our_bid_id/our_bid_price and our_ask_id/our_ask_price
  askLeg,     \* the price of the ask a Quote in progress still has to place
  outbox      \* events of the last call not emitted yet

engineVars == <<book, taker, lastId>>
loopVars == <<phase, cursor, mid, slots, own, askLeg>>
vars == <<engineVars, loopVars, outbox, feedVars>>

Engine == INSTANCE Matching

None == [id |-> 0, price |-> 0]
OrderRef == [id : Nat, price : Prices] \cup {None}
NoLeg == [kind |-> "none"]

Slots == 1 .. 2 * NumLevels
SlotSide(k) == IF k % 2 = 1 THEN "Bid" ELSE "Ask"
SlotPrice(k) == LET depth == (k + 1) \div 2
                IN  IF SlotSide(k) = "Bid" THEN mid - depth ELSE mid + depth

\* Between two calls, with nothing left to emit.
Idle == taker = Engine!NoTaker /\ outbox = <<>>

-----------------------------------------------------------------------------
(* Cancels made on the way to something else *)

Withdraw(b, s, ref) == IF ref = None THEN b ELSE CancelOrder(b, s, ref.price, ref.id)

\* A cancel is announced only when it removed something.
Withdrawn(b, s, ref) ==
  IF ref # None /\ HasOrder(b, s, ref.price, ref.id)
  THEN <<CancelOf(s, ref.price, ref.id)>> ELSE <<>>

-----------------------------------------------------------------------------
(* The loop *)

Init ==
  /\ Engine!Init
  /\ phase = "populate" /\ cursor = 1
  /\ mid \in Mids
  /\ slots = [k \in Slots |-> None]
  /\ own = [s \in Side |-> None]
  /\ askLeg = NoLeg
  /\ outbox = <<>>
  /\ FeedInit

\* Mutant: the loop over the slots runs one too far.
OneSlotTooFar ==
  IF cursor \in Slots
  THEN cursor' = cursor + 1 /\ UNCHANGED phase
  ELSE cursor' = 1 /\ phase' = IF phase = "populate" THEN "evolve" ELSE "commands"

\* Once the last slot is done the populating loop ends, or the commands' turn comes.
NextSlot ==
  IF cursor \in Slots \ {2 * NumLevels}
  THEN cursor' = cursor + 1 /\ UNCHANGED phase
  ELSE cursor' = 1 /\ phase' = IF phase = "populate" THEN "evolve" ELSE "commands"

Evolve ==
  /\ phase = "evolve" /\ Idle
  /\ mid' \in Mids
  /\ phase' = "refresh"
  /\ UNCHANGED <<engineVars, cursor, slots, own, askLeg, outbox, feedVars>>

SkipSlot ==
  /\ phase = "refresh" /\ Idle
  /\ NextSlot
  /\ UNCHANGED <<engineVars, mid, slots, own, askLeg, outbox, feedVars>>

\* Mutant: the old order of the slot is forgotten, not cancelled.
PlaceOnTop ==
  /\ phase \in {"populate", "refresh"} /\ Idle
  /\ lastId < MaxId
  /\ slots' = [slots EXCEPT ![cursor] = None]
  /\ lastId' = lastId + 1
  /\ taker' = Engine!LimitOrder(lastId + 1, SlotSide(cursor), SlotPrice(cursor), BackgroundQty, FALSE)
  /\ UNCHANGED <<book, outbox, phase, cursor, mid, own, askLeg, feedVars>>

\* place_background: cancel the slot's order, then submit a new one around mid.
PlaceBackground ==
  /\ phase \in {"populate", "refresh"} /\ Idle
  /\ lastId < MaxId
  /\ LET s == SlotSide(cursor)
     IN  /\ book' = Withdraw(book, s, slots[cursor])
         /\ outbox' = Withdrawn(book, s, slots[cursor])
         /\ lastId' = lastId + 1
         /\ taker' = Engine!LimitOrder(lastId + 1, s, SlotPrice(cursor), BackgroundQty, FALSE)
  /\ slots' = [slots EXCEPT ![cursor] = None]
  /\ UNCHANGED <<phase, cursor, mid, own, askLeg, feedVars>>

WithdrawOwn ==
  /\ book' = Withdraw(Withdraw(book, "Bid", own["Bid"]), "Ask", own["Ask"])
  /\ outbox' = Withdrawn(book, "Bid", own["Bid"]) \o Withdrawn(book, "Ask", own["Ask"])
  /\ own' = [s \in Side |-> None]

\* The Quote command: withdraw both orders of ours, then place the bid.
Quote(bid, ask) ==
  /\ phase = "commands" /\ Idle /\ askLeg = NoLeg
  /\ lastId + 2 <= MaxId
  /\ WithdrawOwn
  /\ lastId' = lastId + 1
  /\ taker' = Engine!LimitOrder(lastId + 1, "Bid", bid, LotSize, TRUE)
  /\ askLeg' = [bid |-> bid, ask |-> ask]
  /\ UNCHANGED <<phase, cursor, mid, slots, feedVars>>

\* Mutant: the ask is placed where it was asked for.
UnsafeAsk(leg) == leg.ask

\* Mutant: an ask that would meet the bid is nudged down, not up.
AskNudgedDown(leg) == IF leg.ask > leg.bid THEN leg.ask ELSE leg.bid - 1

\* safe_ask_price: at least one tick above the bid just placed.
SafeAsk(leg) == IF leg.ask > leg.bid THEN leg.ask ELSE leg.bid + 1

\* ... and then the ask.
QuoteAsk ==
  /\ phase = "commands" /\ Idle /\ askLeg # NoLeg
  /\ lastId' = lastId + 1
  /\ taker' = Engine!LimitOrder(lastId + 1, "Ask", SafeAsk(askLeg), LotSize, TRUE)
  /\ askLeg' = NoLeg
  /\ UNCHANGED <<book, outbox, phase, cursor, mid, slots, own, feedVars>>

CancelAll ==
  /\ phase = "commands" /\ Idle /\ askLeg = NoLeg
  /\ WithdrawOwn
  /\ UNCHANGED <<taker, lastId, phase, cursor, mid, slots, askLeg, feedVars>>

\* The command ring is empty.
CommandsDone ==
  /\ phase = "commands" /\ Idle /\ askLeg = NoLeg
  /\ phase' = "noise"
  /\ UNCHANGED <<engineVars, cursor, mid, slots, own, askLeg, outbox, feedVars>>

\* A noise trader's market order, on either side.
NoiseOrder(s) ==
  /\ phase = "noise" /\ Idle
  /\ taker' = Engine!MarketOrder(s, NoiseQty)
  /\ phase' = "evolve"
  /\ UNCHANGED <<book, lastId, cursor, mid, slots, own, askLeg, outbox, feedVars>>

NoNoise ==
  /\ phase = "noise" /\ Idle
  /\ phase' = "evolve"
  /\ UNCHANGED <<engineVars, cursor, mid, slots, own, askLeg, outbox, feedVars>>

-----------------------------------------------------------------------------
(* The call in progress and its events *)

Walk ==
  /\ outbox = <<>>
  /\ Engine!FillBest
  /\ UNCHANGED <<loopVars, outbox, feedVars>>

\* The Trades of the call's fills, in the order they were executed.
TradesOf(t) ==
  [n \in DOMAIN t.fills |->
     TradeOf(Opposite(t.side), t.fills[n].price, t.fills[n].id, t.fills[n].qty, t.fills[n].ours)]

\* Mutant: the Add of a partly filled order reports the quantity submitted.
AddInFull(t) ==
  IF t.kind = "limit" /\ t.left > 0
  THEN <<AddOf(t.side, t.price, [id |-> t.id, qty |-> t.qty, ours |-> t.ours])>>
  ELSE <<>>

\* The Add of what came to rest.
AddLeft(t) ==
  IF t.kind = "limit" /\ t.left > 0
  THEN <<AddOf(t.side, t.price, [id |-> t.id, qty |-> t.left, ours |-> t.ours])>>
  ELSE <<>>

\* Mutant: the Add goes out ahead of the Trades of the same order.
AddFirst(t) == AddLeft(t) \o TradesOf(t)

Report(t) == TradesOf(t) \o AddLeft(t)

\* The caller remembers an order only when some of it rests.
Remembered(t) == IF t.left > 0 THEN [id |-> t.id, price |-> t.price] ELSE None

\* The call returns to whoever made it.
Returned ==
  /\ outbox = <<>>
  /\ Engine!Return
  /\ outbox' = Report(taker)
  /\ IF taker.kind = "limit" /\ ~ taker.ours
     THEN /\ slots' = [slots EXCEPT ![cursor] = Remembered(taker)]
          /\ NextSlot
          /\ UNCHANGED own
     ELSE /\ own' = IF taker.kind = "limit"
                    THEN [own EXCEPT ![taker.side] = Remembered(taker)] ELSE own
          /\ UNCHANGED <<slots, cursor, phase>>
  /\ UNCHANGED <<mid, askLeg, feedVars>>

\* FeedSender.emit: the next event goes out, whether or not it is delivered.
Emit ==
  /\ outbox # <<>>
  /\ outbox' = Tail(outbox)
  /\ truth' = Replay(truth, Head(outbox))
  /\ lastAdded' = LatestAdd(lastAdded, Head(outbox))
  /\ UNCHANGED <<engineVars, loopVars>>

Next ==
  \/ Evolve
  \/ SkipSlot
  \/ PlaceBackground
  \/ \E bid, ask \in QuotePrices : bid <= ask /\ Quote(bid, ask)
  \/ QuoteAsk
  \/ CancelAll
  \/ CommandsDone
  \/ \E s \in Side : NoiseOrder(s)
  \/ NoNoise
  \/ Walk
  \/ Returned
  \/ Emit

Spec == Init /\ [][Next]_vars

-----------------------------------------------------------------------------
(* Properties *)

\* Every variable has its type.
TypeOK ==
  /\ Engine!TypeOK
  /\ phase \in {"populate", "evolve", "refresh", "commands", "noise"}
  /\ cursor \in Slots /\ mid \in Mids
  /\ slots \in [Slots -> OrderRef] /\ own \in [Side -> OrderRef]
  /\ askLeg \in {NoLeg} \cup [bid : Prices, ask : Prices]
  /\ \A n \in DOMAIN outbox : outbox[n] \in Events
  /\ IsBook(truth, Prices) /\ lastAdded \in Nat

\* The handlers always know the orders they left on the book, however these
\* were partly filled or the slot was reused: an order of ours is the one
\* our_bid_id or our_ask_id names, at the price remembered for it, so a Quote
\* or a CancelAll leaves none behind; a background order is in a slot.
OrdersAreTracked ==
  \A s \in Side : \A p \in DOMAIN book[s] : \A i \in DOMAIN book[s][p] :
    LET ref == [id |-> book[s][p][i].id, price |-> p]
    IN  IF book[s][p][i].ours THEN own[s] = ref
        ELSE \E k \in Slots : SlotSide(k) = s /\ slots[k] = ref

\* No order of ours ever trades with another order of ours: what the nudge of
\* safe_ask_price is for.
NoSelfTrade ==
  (taker.kind = "limit" /\ taker.ours) =>
    \A n \in DOMAIN taker.fills : ~ taker.fills[n].ours

\* The ask leg of a Quote has traded on arrival, with the orders of others.
AskLegTraded ==
  /\ taker.kind = "limit" /\ taker.ours /\ taker.side = "Ask" /\ taker.fills # <<>>
  /\ \A n \in DOMAIN taker.fills : ~ taker.fills[n].ours

\* Of the two orders of a Quote at most one trades on arrival, whoever it trades
\* with: once the ask has traded, the bid is the order of ours that rests, with all
\* of its quantity.  So no Quote is filled on both sides by the orders of others,
\* which run_strategy would book on neither.
OneLegTrades ==
  AskLegTraded =>
    \E p \in DOMAIN book["Bid"] : \E i \in DOMAIN book["Bid"][p] :
      book["Bid"][p][i].ours /\ book["Bid"][p][i].qty = LotSize

\* The events describe the book exactly: once a call's events are out, a reader
\* who missed none has the book of the matching engine, queue order included.
ReplayFaithful == Idle => truth = book

\* A snapshot of the book, taken at any time, rebuilds the book, whatever book
\* the reader had before: BookResync loses nothing that decides anything.
ResyncRoundTrip == RebuildFromResync(truth, ExportResync(book)) = book

\* The events, one at a time, are those of FeedSource: each is legal on the
\* book the earlier ones describe, in particular at every point between the
\* events of one call.
ImplementsFeed == FeedSpec
=============================================================================
