# Verification of the market-maker engine

TLA+ models of the simulated exchange and market-making strategy in `engine/`
and `monitor/`, checked with TLC and, where it matters most, proved with TLAPS.
Paths below are relative to the repository (`src/`); `orderbook.rs` stands for
`engine/src/orderbook.rs`, and so on.

    tlc -workers 2 -config MCMatching.cfg MCMatching.tla
    tlapm MatchingProofs.tla

## 1. The system

Four threads in one process, and a relay and a dashboard outside it:

    strategy --command ring--> matching engine --UDP--> feed handler --md ring--> strategy
                                     |                       |                       |
                                     +--- BookResync ------->|---- loss counter ---->|
    strategy --Snapshot--> monitor server <--TCP--> relay.py <--WebSocket--> dashboard

| Part | State | Operations | Talks to |
|---|---|---|---|
| order book (`orderbook.rs`) | levels of each side, a FIFO queue per level | limit and market orders, cancel, replay of a trade, export and rebuild | used by two threads, one instance each |
| matching engine (`market_sim.rs`) | the ground-truth book, id counter, background slots, ids and prices of our two orders, fundamental price, feed sequence number | loop: evolve the price, refresh slots, execute commands, noise order, publish a snapshot | command ring, UDP, `BookResync` under a mutex |
| feed handler (`udp_feed.rs`) | expected sequence number, three counters | receive a datagram, count a gap, push the event | UDP, md ring, counters read by the strategy |
| ring buffer (`ringbuffer.rs`) | slots, head, tail, drop counter | `try_push`, `try_pop` | one producer thread, one consumer thread |
| strategy (`main.rs`, `quoting.rs`, `risk.rs`) | shadow book, inventory, cash, believed quotes, highest sequence applied, losses dealt with, volatility, kill switch | tick: drain and replay, resync check, risk, quote or `CancelAll` | all of the above |
| monitor server (`ipc.rs`) | connections, manual kill flag | accept; two threads per connection: one copies the snapshot under its mutex and writes it, one reads `KILL` | TCP, the mutex, the flag |
| process wiring (`main.rs`) | threads, shutdown flag | start, `--duration`, joins | all threads |
| relay (`monitor/relay.py`) | connected dashboards, engine connection, latest snapshot | read and broadcast, forward `KILL`, reconnect | TCP, WebSocket |
| dashboard (`monitor/dashboard.html`) | its connection, what it shows | show, send `KILL` | WebSocket |
| benchmark (`bench.rs`) | none kept | push and pop with retries, in two threads | ring buffer |

What is hard here, and what makes each part correct:

* **Matching.** Nested loops over levels and queues with partial fills. The book
  must never be crossed or hold a phantom level, price and time priority must
  survive cancels and partial fills, and a call must return.
* **The exchange's bookkeeping.** Slots and `our_bid_id`/`our_ask_id` outlive
  fills, cancels and earlier quotes. No order may be forgotten on the book, ours
  must not trade with ours, and the events of a call, sent one datagram at a
  time, must describe the book exactly at every point.
* **The feed.** Datagrams are lost on purpose and by accident, and may be
  reordered. The loss counter is the only trigger of a resync.
* **Replay and resync.** Events, snapshots and the loss counter reach the
  strategy on three unsynchronised paths. A snapshot must not roll back what was
  replayed, nor be replayed over; fills must be booked once.
* **The ring.** Two threads without locks, stale loads, wrapping counters.
* **Decisions.** Commands are queued, refused by a full ring and executed late,
  and what they did is read back from the feed later still. A latched kill switch
  must clear our orders all the same, for good, and quotes must catch up.
* **Quoting.** The wanted prices follow the inventory, so every fill moves them,
  and rounding to ticks may collapse them; the bid must never pass the ask.
* **Monitoring, shutdown.** `KILL` goes through three processes, any of which may
  be gone; the strategy shares a mutex with a thread that writes to a connection
  which may be full; the relay's tasks share a set across their awaits. The
  strategy must never wait for the monitor, a `KILL` must arrive, the screen must
  catch up, and the process must end.

`PROJECT.json` lists every hazard with its line and the properties that cover it.

## 2. The modules

| Module | Models | Checked by |
|---|---|---|
| `OrderBook` | the book as a value and every operation of `orderbook.rs` on it except the matching loops | `matching`, `exchange`, `market_data`, `resync_*`, `loss_at_start` (`Strategy` uses its sides only) |
| `Matching` | the ground-truth book and its calls, one step per fill | `matching` |
| `PriceTime` | *abstract*: a set of orders, a call is one step | refined by `Matching` |
| `MatchingRefinement` | the mapping from `Matching` to `PriceTime`, and the refinement as a property | `matching` |
| `FeedSource` | *abstract*: an exchange that emits one legal event per step | refined by `Exchange`; drives `MarketData` |
| `Exchange` | the matching-engine thread: `run` and `place_background`, calling `Matching` | `exchange` |
| `FeedHandler` | the gap detection of `udp_feed.rs` | `feed_handler` |
| `MarketData` | `FeedSource`, network, `FeedHandler`, md ring and the replay half of `run_strategy`, composed | `market_data`, `resync_*`, `loss_at_start` |
| `RingBuffer` | `try_push` and `try_pop`, one step per shared access | `ring_buffer` |
| `BoundedQueue` | *abstract*: a bounded FIFO queue | refined by `RingBuffer` |
| `Bench` | the two threads of `bench.rs` on `RingBuffer`, with their fairness | `ring_buffer` |
| `Quoting` | `quote()` and `price_to_ticks` in fixed point, operators only | `strategy`, `strategy_breach` |
| `Strategy` | the decision half of `run_strategy`, `KillSwitch.evaluate`, the command ring, the execution of commands and the fills of our orders, composed, on `Quoting` | `strategy`, `strategy_breach` |
| `Ipc` | the engine process as the monitor sees it: threads, shutdown, joins, manual kill, the snapshot's mutex, the TCP server | part of `Monitor` |
| `Monitor` | `Ipc`, the relay's tasks and the dashboards, composed | `monitor`, `relay_dies` |
| `OrderBookProofs` | lemmas about the operators of `OrderBook`, used by the next three | TLAPS |
| `MatchingProofs`, `ExchangeProofs`, `MarketDataProofs`, `FeedHandlerProofs`, `RingBufferProofs`, `StrategyProofs`, `MonitorProofs` | theorems about the module each is named for (`StrategyProofs` also about `Quoting`, `RingBufferProofs` also about `Bench` and `BoundedQueue`) | TLAPS |

How state and actions correspond to the code:

* **`OrderBook`.** A side of the book is a partial function from prices to
  queues; its domain is the key set of the `BTreeMap`, so a level left empty
  would be visible. An order keeps id, remaining quantity and `is_ours`; side
  and price are where it is stored, the timestamp decides nothing. The rows of
  `export_resync` are in the order of its iterators, so the round trip says
  something about queue order.
* **`Matching`.** `taker` holds the arguments and locals of the call in progress.
  `FillBest` is one turn of the inner loop with the outer loop's choice of level;
  `Return` is the end of the loops, the resting of a remainder and the return.
  `execute_market_order` lists its levels before walking them; as nothing else
  touches the book during a call, that is the best level of each turn.
* **`PriceTime`.** `Allocations` says what a fair share-out of an incoming quantity is,
  without saying how it is found: nobody trades while something is left of an order
  ahead. `MatchingRefinement` gives the fills of the call in progress back to their
  orders, so that the abstract orders change only when the call returns.
* **`Exchange`.** `phase` is the position in the loop of `run`, `cursor` the slot
  being refreshed (odd slots are bids, even ones asks, deeper with the number,
  the order of the code's loop). A Quote is two calls: `Quote` withdraws both
  orders and submits the bid, `QuoteAsk` the ask. `Returned` is what the caller
  does with the fills. `outbox` holds the events a call still has to emit; `Emit`
  sends one. Where the code alternates cancels and their events, the model
  cancels in one step and sends afterwards, always before the next call: no
  other thread sees the book in between.
* **`FeedHandler`.** `Handle` is the loop body from the decoded packet to the
  counters; the push is in `MarketData`.
* **`MarketData`.** One action per access to state another thread writes: a pop
  (`Apply`, `Drained`), the read of the loss counter (`CheckLost`), the copy of
  the snapshot (`Resync`; the gate, the rebuild and the update of
  `last_known_lost_events` touch only the strategy's own state and belong to the
  same step). Time is abstracted: a check happens or not at each tick, a snapshot
  is published at any time. `Lose` is every way an event disappears before the
  handler reads it. The md ring is a sequence of bounded length, which is what
  `RingBuffer` is shown to implement.
* **`RingBuffer`.** `pushes` and `pops` count the stores to `tail` and `head`
  without wrapping. A load of the other side's counter returns any store from the
  last one seen to the latest. `popsKnown` and `pushesKnown` say after which
  stores a thread is ordered by happens-before.
* **`Strategy`.** `Tick(breach)` is the loop body from the risk metrics to the
  push, `Read` one turn of the drain loop on an event of our orders,
  `ExecuteQuote` and `ExecuteCancelAll` the two arms of the engine's command
  loop, `Hit` a fill of an order of ours that rests. Of the book only our own
  orders are kept: how much of a new order trades on arrival is a free choice,
  for at most one of the two legs because the book is uncrossed (`Exchange`
  models the whole calls). `PriceOn` is `safe_ask_price`. `market` is what
  `quote()` is given besides the inventory, and changes at any time; `Wanted` is
  what it returns, in ticks. So a fill that the strategy reads moves the prices it
  wants next, as in the code. Whether drawdown or
  VaR is beyond its limit is the argument of `Tick`; inventory is computed.
  `held` is our position as the exchange knows it, `inventory` as the strategy
  books it. The feed of this module loses nothing, to separate its questions
  from those of `MarketData`.
* **`Bench`.** `TryPop` is `LoadTail` behind the consumer's `received <
  n_messages`. A retry after a refusal may carry another value, so the engine's
  own producers, which give a refused message up, are clients of the same kind.
* **`Quoting`.** Prices and spreads count `1/SubTicks` of a tick; `variance`
  stands for `gamma * sigma^2`, `BaseSpread` for the term of `quote()` that does
  not depend on the market. `RoundUp` and `PriceToTicks` are `f64::round`, half
  away from zero.
* **`Ipc`.** Of the four threads the matching engine is not listed: it stops as
  the feed handler does. `tick` splits the strategy's loop at the mutex;
  `handler` is at the top of its loop, has the mutex (`locked`) or is about to
  write, and `payload` is its copy. A connection is in the listener's queue
  (`backlog`), open, closed by the engine (`eof`) or by the relay (`hungup`); it
  holds `PipeSize` snapshots, after which a write blocks, and the line `KILL`.
  `Die` is the end of the process, by the return of `main` (`Exit`) or a signal
  (`Crash`): connection threads are not joined and end with it. `Restart` starts it
  anew. A `KILL` that nobody reads is gone with the connection.
* **`Monitor`.** The relay is single-threaded, so one action is what a task does
  between two awaits. `todo` and `size` are the iterator of `for ws in
  dashboard_clients`: the next turn compares the size of the set with that at
  the start, and a client added meanwhile may or may not be met. `Sent` is the
  return of `ws.send`, on which a slow browser keeps the broadcast waiting.
  `SetChanged` is the `RuntimeError`, which only the `finally` of
  `engine_reader_loop` sees. `Forward` drops a `KILL` while the engine is not
  connected, as the code does.

## 3. What the runs show

| Run | Question | Properties |
|---|---|---|
| `matching` | do the loops implement price-time priority? | `TypeOK`, `Uncrossed`, `LevelsAreLive`, `TimePriority`, `NoTradeThrough`, `ImplementsPriceTime`, `CallsReturn` |
| `exchange` | does the engine keep track of every order, and does its feed describe its book? | `TypeOK`, `OrdersAreTracked`, `NoSelfTrade`, `ReplayFaithful`, `ResyncRoundTrip`, `OneLegTrades`, `ImplementsFeed` |
| `feed_handler` | do the counters account for every sequence number? | `TypeOK`, `GapAccounting`, `LossNeverUnderstated` |
| `market_data` | what can the strategy count on of its shadow book, its believed quotes and its position? | `TypeOK`, `SyncedExact`, `KnowsItsQuotes`, `PositionConserved`, `RebuildNeverRollsBack`, `ShadowIsLive`, `NeverLooksCrossed` |
| `ring_buffer` | is the ring race-free, and a queue, and does a caller that retries get everything through? | `TypeOK`, `NoDataRace`, `ImplementsQueue`, `EverythingArrives` |
| `strategy` | does the kill switch clear our orders for good, and do quotes catch up with the market and with our fills? | `TypeOK`, `KillIsFinal`, `KillIsEffective`, `QuotesSettle`, `NoQuoteAfterTheTrip` |
| `monitor` | can the monitor harm the strategy, does `KILL` arrive, does the process end, is the screen right in the end? | `TypeOK`, `OneConnection`, `KillHasReader`, `StrategyNeverWaits`, `EngineStops`, `KillTakesEffect`, `ScreenCatchesUp` |

`OneConnection` is also what makes the model of one connection enough: the engine
serves each connection by two threads that end on their own, and the relay opens
the next one only after the end of the last, which it sees when both have gone.

`OneLegTrades` is what `Strategy` assumes of the engine: that of the two legs of a Quote
at most one trades as it arrives. It speaks of an ask that traded with others only;
that it never trades with ours is `NoSelfTrade`, and neither property implies the
other: without the nudge of `safe_ask_price` only `NoSelfTrade` fails, while an ask
nudged down may trade with others after the bid has. `NoQuoteAfterTheTrip` bounds what a trip leaves
behind: no more Quotes are executed after it than the command ring holds.
`ShadowIsLive` holds through every loss and rebuild; `NeverLooksCrossed` only while
the strategy is in step, and a lost Cancel or Trade does cross the shadow book.

The runs also show two behaviours that nothing in the documentation rules out.
After a fill of one side the believed price stays what it was, so the strategy
requotes only when a wanted price moves by a tick (`QuotesSettle` therefore
speaks of orders that rest, not of both sides being quoted). And while rounding
collapses the wanted prices, the ask is placed one tick higher than asked for,
so every tick finds a difference and pushes another Quote.

Five runs check what the documentation says and find a counterexample in what
the code does:

* `resync_twice` (`NoOrderRestsTwice`). An Add is in flight; an earlier loss is
  counted; a snapshot that already contains the Add's order is newer than all
  the strategy has replayed, so the gate lets it replace the shadow book; then
  the Add is popped and its order rests a second time. The gate compares the
  snapshot with what was replayed, but nothing compares what is replayed later
  with the snapshot. `README.md:116-117` calls the gate what makes the resync safe.
* `resync_refused` (`CorrectAfterTheCheck`). A check that finds only a stale
  snapshot still stores `current_lost` in `last_known_lost_events`
  (`main.rs:218`). No later check looks again until another packet is lost, and
  a snapshot of the very latest book, which the gate would take, is never used.
  `README.md:276-279` says the window is bounded by one check interval.
* `loss_at_start` (`LossIsCounted`). The handler takes the first number it sees
  as the start of the feed (`udp_feed.rs:70-72`). Events lost before it, for
  example those sent before the feed thread bound its socket, are not counted and
  trigger no resync. `README.md:64-66` says gaps are counted.
* `strategy_breach` (`BreachTrips`). A Quote that reaches the engine after the
  market moved trades on arrival. Its Trades name the order that rested, which
  is not ours, and the strategy books only Trades with `resting_is_ours`
  (`main.rs:174`); a leg that trades completely sends no Add either. Two such
  bids take the position to twice the lot, beyond the limit of the run, while
  `inventory` is still 0 and the kill switch does not trip.
  `README.md:209-210` says it latches on the first breach of the inventory limit.
* `relay_dies` (`Reconnects`). While `broadcast` waits in `ws.send`, a dashboard
  connects or leaves, the one being sent to included; the iterator of `for ws in
  dashboard_clients` (`relay.py:35`) then raises `RuntimeError`, which
  `engine_reader_loop` does not catch. The task ends, the relay goes on serving
  dashboards, and nothing connects to the engine again, although it listens.
  `relay.py:45-47` says the loop maintains the connection and reconnects.

Two behaviours of the feed are outside what the documentation speaks of. An event
the full md ring refuses (`udp_feed.rs:89`) has been counted as received, so no
resync follows; `SyncedExact` and `PositionConserved` hold because their history
variables know of it. And a late datagram is replayed although it was counted as
lost: a Cancel before its Add leaves an order that is gone, until the next resync.

## 4. Bounds

* `matching`: three limit orders on three ticks, quantities 0 to 2, any number
  of market orders and cancels. Three orders are the fewest that give a walk over
  two levels, over two orders of one level, and a partial fill that rests;
  quantity 0 is the call that trades nothing.
* `exchange`: one background level on each side, two fundamental prices a tick
  apart (so a refreshed slot may cross an old one), background bids at 2 and 3 and asks
  at 4 and 5; quote prices 2 and 4, six order ids, background 3, lot 2, noise 1: the
  quantities make every order fill partly. A bid at 4 meets a background ask, and the
  ask of a Quote that collapsed at 2, nudged to 3, a background bid, so either leg
  may trade on arrival.
  Six ids allow the two populating orders, one or two quotes and refreshes
  before, between and after them. The code has five levels and unbounded ids.
* `feed_handler`: six datagrams with numbers 0 to 6.
* `market_data`: three events, two ids, two ticks, two losses on the wire, a ring of
  one, and datagrams 0 and 1 may be overtaken by later ones (`Delayed`), so that an
  Add can arrive after its Trade or Cancel; snapshots and checks without bound. Three
  events are an Add, something that changes it and something that shows the gap;
  with two losses any two of them may disappear, and a ring of one refuses
  every event that comes before the last was popped. The violation runs have their own
  bounds, with a ring that never fills, so that the ring plays no part in their
  counterexamples.
* `ring_buffer`: four slots, counters that wrap after eight, ten pushes: the
  counters wrap and every slot is reused at least once. The count of refused
  pushes stops at its bound and the push is still refused, so retries go on.
* `strategy`, `strategy_breach`: a calm market whose two wanted prices round to
  one tick, and a volatile one where each fill moves both by a tick; lot 1, inventory limit 1, a ring of two, two fills, at most three
  events on their way. Two fills are the fewest that pass the limit; a ring of
  two fills up and holds a stale Quote in front of a `CancelAll`. With lot 1 an
  order fills at once; partial fills are the business of `exchange`. A run with
  lot 2 (598 364 states) gives the same results.

* `monitor`, `relay_dies`: one dashboard connection, one restart of the engine, a
  connection that holds one snapshot. A leave while the broadcast waits is enough
  to change the set; one snapshot is enough to block a write; one restart is
  enough to show a state of an engine that is gone. Reconnections of the relay, clicks
  and snapshots are not bounded.

Deadlock is checked everywhere but in `feed_handler`, where the network may go
silent, and in the two monitor runs, where the engine may be down with its
restarts used up and the relay's reader dead.

## 5. Assumptions about the environment

* Fairness in `matching`: the thread inside a call keeps running (`WF` on
  `FillBest` and on `Return`), since the call has no wait in it.
* Fairness in `strategy`: `WF` on `Tick(NoReason)`, `Execute` and `Read`. The
  strategy's loop ticks every 10 ms, the engine's loop empties the command ring
  every 4 ms, and each tick drains the md ring, until shutdown. Fairness is on the
  tick that sees no breach: until a tick trips the switch every tick is one, and
  afterwards the argument no longer matters, so the loop gives just that. The
  market, the other traders and the monitor are not fair.
* Fairness in `ring_buffer`: `WF` on the two threads, which loop until they are
  done, and `SF` on a load that returns the latest store: a thread that tries
  again and again is not shown the same old value for ever, which is what
  coherence gives in practice. Without it both could spin for ever.
* Fairness in `monitor`: `WF` on the loop of every thread and on each task of the
  relay. `SF` on `PublishSnapshot`: a connection's thread takes the mutex again and
  again, but sleeps 50 ms without it after each copy, so a waiting strategy gets
  it. A send to a browser that no longer reads is ended by the keepalive of the
  WebSocket library, so the relay's loop does not wait there for ever. Nobody has to open,
  close or click anything, the time of `--duration` need not elapse, and crashes
  and restarts need not happen.
* Accepted sockets block, as on Linux, where they do not inherit the mode of the
  listener.
* The network of `market_data` keeps order, as loopback UDP does, but for the
  datagrams of `Delayed`. The handler alone is checked against any order and
  against duplicates.
* The Quotes of `exchange` have `bid <= ask`. That `quote()`, rounded to ticks,
  asks for nothing else is proved (`StrategyProofs!QuoteOrdered`).
* `FeedSource`'s snapshots may be taken between any two events. The code takes
  them between two iterations; more instants only give more behaviours.
* Prices and quantities are unbounded integers in the proofs; the simulated
  prices are far from the limits of `i64`.

## 6. What is proved

Every invariant and every step property that a passing run checks is also a theorem,
as are the three refinements, `ImplementsPriceTime`, `ImplementsFeed` and
`ImplementsQueue`: for every value of the constants, under the named assumptions of the modules (each says what its
constants are; TLC evaluates them in every run). Two are more than types: a quantity
that may be asked for may also be left over (`ExchangeAssumption`; a quantity is any
`u64` in the code), and there are finitely many sockets, none of them named `"none"`
(`MonitorAssumption`). `Typed` is the type invariant of its module.

**Operators (`OrderBookProofs`).** A book is `Sound` when it is typed, each level holds
orders and each order something to trade, queues are in order of arrival, an id
rests at one place, and the levels are finitely many. Every operation goes through
`SetQueue`. Those that take away *thin* the book (`Thinned`: each queue embeds, in
order, in the old one) and those that rest an order under a new id *extend* it
(`Extended`); both keep it sound. `RoundTrip` says that `RebuildFromResync` of
`ExportResync` is the book itself, from any finite book with no empty level:
`Ascending` lists each price once, `FlattenSeq` is the concatenation the export
means, and resting the rows one by one extends a prefix of the book. The library's
induction theorems cannot be used (see section 7); where an argument is by
induction it goes through `Induct`, the least counterexample of a set of naturals.
`FoldExists` does the same for the recursive functions inside the folds.

**`MatchingProofs`.**

* `Live`, `ArrivalOrder`, `NeverTradesThrough`: the inductive invariant `BookInv` says
  that the book is sound, that every resting id was handed out, and that the order of
  a limit call in progress is younger than every order resting, so that what is left
  of it may go last in its queue. `LevelsAreLive` is not inductive without the types
  nor they without it (a fill takes an existing front order of positive quantity). No
  trade-through follows: later fills only deplete the side, and the newest fill takes
  the oldest order of the best level.
* `NeverCrossed`: fills and cancels only remove levels. A remainder rests only when no
  opposing level is marketable, which is exactly that its price does not cross.
* `NeverStuck`, `EveryFillCounts`: a call in progress is over or has a best level to trade
  at (levels are finitely many, so there is a best one, and it is marketable if any
  is), and each step returns or leaves less to trade (no order with
  nothing left rests). This is all of `CallsReturn` but the fairness of the thread.
* `PriceTimePriority`: the refinement `ImplementsPriceTime`. `WalkInv` says that the call's
  fills name each order once, all within its limit, that an order still rests after a
  fill only if the fill used up the call's quantity, and that what the fills took and
  what is left of the call make that quantity. So a fill is a stutter (what the book
  loses, the fills give back), and at the return the fills are an allocation: taken
  in order because the walk always took the oldest order of the best level, and
  complete because it ended with no eligible order or no quantity left. The
  sums of `PriceTime` are the library's folds over a set in any order; `SumUnique` shows
  that the order does not matter, and the walk then adds one fill at a time.
* `OneAllocation`: there is only one allocation of a quantity among the orders a call may
  trade with. Of two, one would give less to some order, hence nothing to those
  behind it and no more to those ahead, and would leave some of the quantity although
  that order wants it. So `PriceTime` prescribes the outcome of each call.

**`ExchangeProofs`.** `Inv` has three parts. `TypesHold`; `BookHolds`: the book is sound
and the order of the call in progress has the latest id and is not on it;
`CallerHolds`: what the caller keeps ready for the call that runs (a slot is empty
while its order is placed, no order of ours is on a side where a Quote is about to
place one, the ask leg is above the bid that rests).

* `Tracked`: `OrdersAreTracked`. An order comes to rest only by a return, where the
  caller notes it in the slot or side that `CallerHolds` says is free; orders
  that leave take no other reference with them.
* `OursNeverMeet`: `NoSelfTrade`. An order of ours on the opposing side is the one `own`
  names, by `OrdersAreTracked`; there is none there during the bid's call, and during
  the ask's it is below the nudged price.
* `Faithful` and `ImplementsFeedSource`: `ReplayFaithful` and the refinement of
  `FeedSource`. `Explained` says that the events not sent yet (of a call in
  progress, the Trades of its fills) form a *trail*: a sequence of books that starts at
  the book a reader has, ends at the engine's, and takes a legal event at each
  step. A call appends to the trail, `Emit` takes its head. That an event is
  legal needs most of the rest: a Cancel that its order rests, an Add that its id is
  new, that it does not cross and that no second order of ours is on its side, a Trade
  that it names the front of the best level.
* `OneLegAtMost`: `OneLegTrades`. `LegsHold` follows a Quote through its two calls, on a
  book that is not crossed. A bid that trades meets an ask at or below its price, so
  every other bid is below it, and the ask leg, which `safe_ask_price` puts above it,
  finds nobody. A bid that does not trade rests whole, and stays so while the ask
  leg trades, because no order of ours trades with ours (`NoSelfTrade`).
* `RoundTrips`: `ResyncRoundTrip`, in every reachable state. `BookIsSound` is what the other
  theorems rest on.

**`MarketDataProofs`.** `Inv` has, besides the types, three parts that each say where
something is that was sent.

* `Explained`: there is a history of the feed, the book before each number, that explains
  every packet and the published snapshot. While the strategy is in step, the
  packets in flight are the events from some point of the history to its end, in order,
  and the shadow book is the book at that point. `Exact` (`SyncedExact`) and
  `Quoted` (`KnowsItsQuotes`) follow by replaying them. A rebuild starts from
  the history's book at the snapshot's number, by `RoundTrip`.
* `Tallies`: the fills in flight, booked one after the other, lead from the position
  to the one owed. A rebuild touches neither side, a loss takes its fill out of
  both. `Conserved` is `PositionConserved`.
* `Covers`: each number above the newest replayed is in flight or known to be
  missing. It is what lets the test of a rebuild in step (nothing in flight or
  missing is newer than the snapshot) conclude that the packets in flight are all of the
  rest.

`NeverRollsBack` needs only that `highest_seq_applied` is never below the newest number
replayed. `NeverCrossed` (`NeverLooksCrossed`) adds to the history that none of its books is
crossed, each event being legal; in step the shadow book is one of them.
`NoGhostLevels` (`ShadowIsLive`) needs no history: every operation of a replay or a
rebuild leaves no empty level if there was none, whatever it is applied to.

**`FeedHandlerProofs`.** `Accounting` and `NeverUnderstated`: the invariant adds that the
first number is below the expectation and that all numbers between that were
counted as lost bound the missing ones; a gap of `n` numbers adds at most `n` missing.

**`RingBufferProofs`.** `RaceFreedom`: `RingInv` relates the wrapped counters to the
unbounded `pushes` and `pops`, and orders `popsSeen <= pops <= pushesSeen <= pushes <=
popsSeen + Capacity`. The lemmas on remainders show that `wrapping_sub` recovers their
distance and that two counters less than a capacity apart have different slots.
`RingIsAQueue`: `QueueInv` adds that the slot at `pushes` holds a value once it is
written and that the value read is the one in the oldest slot. Under the mapping
`Contents` (the slots from `pops` to `pushes`) the store to `tail` is the abstract
push and the store to `head` the abstract pop; every other step is a stutter.
`BenchIsAClient`: the benchmark's specification implies the ring's.

**`StrategyProofs`.** `QuoteOrdered` and `SkewsAgainstInventory`: the bid pushed is never
above the ask, and a longer inventory never asks for higher prices. Both rest on
`price_to_ticks` being monotone, also through zero, where the rounding changes
direction. `Final`: `Quiet` (tripped, no Quote in the ring, nothing resting) is
preserved by every step: the latch keeps the switch tripped, so a tick can only
append a `CancelAll`; no Quote is there to be executed; what does not rest cannot
be hit. Reaching `Quiet` is liveness (`KillIsEffective`); its safety half is
`TripDrainsTheRing` (`NoQuoteAfterTheTrip`): after the trip no step adds a Quote to the ring,
and each one executed is one less.

**`MonitorProofs`.** `Inv` splits the type into the engine, the wire, the reader task and the
dashboards, and adds `OneConnection` and where the reader task reads. A thread of the
engine is on a connection that was accepted: when the relay opens another this
stays so because the threads of the last have gone, and those go one by one.
`KillIsRead`: `KillHasReader`, the safety half of `KillTakesEffect`. `Attended` adds that a
connection in the backlog still has its listener and has brought the relay
nothing (so no broadcast can fail meanwhile), and that on an open one the reader
stays until it has set the flag: it leaves at an end of file only when no `KILL` is
left to read. `NobodyIsForgotten`: an open dashboard is in `dashboard_clients` and has its
handler (`NobodyForgotten`), because what a broadcast means to discard is closed and
stays closed. No run checks it, as the run has one dashboard.

## 7. What is only model-checked

* Liveness: `CallsReturn`, `EverythingArrives`, `KillIsEffective`, `QuotesSettle`,
  `StrategyNeverWaits`, `EngineStops`, `KillTakesEffect`, `ScreenCatchesUp`. Fairness and
  `ENABLED` are out of the prover's reach.
* The five violations are counterexamples of TLC and need no proof.

The library's theorems on induction take an operator as a parameter, which the
provers cannot instantiate. Lemmas by induction are therefore stated about a set of
naturals (`Induct`), and what is recursive stays inside folds, which expand to
recursive functions.

## 8. Plan

Built so far, in this order: `OrderBook` and `Matching` (everything else rests
on them), `Exchange`, `FeedHandler`, `MarketData`, `RingBuffer`, `Strategy`, then
`Bench`, `Ipc`, `Monitor` and `Quoting`; then the proofs, from the operators of the book
up to the composition with the network. Next:

1. `Strategy` on a feed that loses events: `MarketData` shows when a resync makes
   the believed prices true again (`KnowsItsQuotes`), not what is quoted until then.
2. `Strategy`'s engine shown to be an abstraction of `Exchange`; so far `OneLegTrades`
   proves what it assumes of a Quote.

## 9. Not modelled

* Floating point. `Quoting` computes in fixed point; `VolEstimator` and the formulas
  of VaR, ES and drawdown in `compute_risk` are inputs of `Strategy`, which may take
  any value at any tick.
* JSON, the system calls of the sockets and terminal output; a malformed datagram
  is one that never came. An error of `accept` or a failing `try_clone` (the
  connection is dropped, the loop goes on).
* Real time: intervals of 4, 5, 10, 20 and 50 ms become free choices, so nothing
  here says how soon something happens.
* The single-threaded round trip and the statistics of `bench.rs`; the rendering of
  `dashboard.html`; a browser that reconnects is a new connection, and the relay
  itself is not restarted. `run.sh` matters for its signals only.
