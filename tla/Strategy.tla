------------------------------- MODULE Strategy -------------------------------
(***************************************************************************)
(* The decisions of the strategy and what becomes of them: run_strategy of *)
(* main.rs from the mid price on, the KillSwitch of risk.rs, the command   *)
(* ring, and the execution of the commands in market_sim.rs.               *)
(*                                                                         *)
(* Four actors: the market moves the mid price and its variance, and the   *)
(* quoting model turns them and the inventory into wanted prices; the      *)
(* strategy reads the events of its own orders and ticks; the matching     *)
(* engine executes commands, late and one at a time; others trade with     *)
(* what rests.  The monitor may set the manual kill at any time.           *)
(*                                                                         *)
(* Of the book only our own orders are kept, so how much of a new order    *)
(* trades at once is a free choice.  Of the risk metrics only the          *)
(* inventory is kept; a drawdown or a VaR beyond its limit may be seen at  *)
(* any tick.  The feed loses nothing here (MarketData has the losses).     *)
(***************************************************************************)
EXTENDS Quoting

CONSTANTS
  Markets,         \* mid, variance and time left: all that quote() is given besides the inventory
  LotSize,         \* OUR_LOT_SIZE
  InventoryLimit,  \* max_abs_inventory
  CmdRingSize,     \* the capacity of the command ring
  MaxFills,        \* bound: the number of our fills
  MaxFeed          \* bound: the number of our events on their way

ASSUME StrategyAssumption ==
  /\ Markets # {} /\ Markets \subseteq [mid : Int, variance : Nat, timeLeft : Int]
  /\ LotSize \in Nat \ {0} /\ CmdRingSize \in Nat \ {0}
  /\ InventoryLimit \in Nat /\ MaxFills \in Nat /\ MaxFeed \in Nat

VARIABLES
  market,     \* mid, sigma and time_remaining of the next tick
  inventory,  \* inventory
  quoted,     \* our_bid_price, our_ask_price
  have,       \* have_quotes
  killed,     \* KillSwitch.triggered
  manual,     \* manual_kill
  cmds,       \* the command ring
  resting,    \* what of our orders is on the book
  feed,       \* the events of our orders on their way to the strategy
  held,       \* history: our position, as the exchange knows it
  fills       \* bound: the number of our fills so far

strategyVars == <<inventory, quoted, have, killed>>
marketVars == <<resting, feed, held, fills>>
vars == <<market, strategyVars, manual, cmds, marketVars>>

NoReason == "none"
Reasons == {"Manual", "InventoryLimit", "Drawdown", "ValueAtRisk"}

\* What a tick may see beyond its limit, besides the inventory.
Breaches == {NoReason, "Drawdown", "ValueAtRisk"}

NoOrder == [price |-> 0, qty |-> 0]
Nothing == [s \in Side |-> NoOrder]

QuoteOf(t) == [kind |-> "Quote", at |-> t]
CancelAll == [kind |-> "CancelAll"]
Commands == [kind : {"Quote"}, at : [Side -> Int]] \cup {CancelAll}

\* A fill of qty on side s moves the position.
Signed(s, qty) == IF s = "Bid" THEN qty ELSE - qty

Init ==
  /\ market \in Markets
  /\ inventory = 0
  /\ quoted = [s \in Side |-> 0] /\ have = FALSE
  /\ killed = NoReason /\ manual = FALSE
  /\ cmds = <<>>
  /\ resting = Nothing /\ feed = <<>>
  /\ held = 0 /\ fills = 0

-----------------------------------------------------------------------------
(* The strategy *)

\* The mid price, the volatility or the time left changes.
Move ==
  /\ market' \in Markets
  /\ UNCHANGED <<strategyVars, manual, cmds, marketVars>>

\* The monitor receives the line KILL.
ManualKill ==
  /\ manual' = TRUE
  /\ UNCHANGED <<market, strategyVars, cmds, marketVars>>

\* The drain loop reads the next event of an order of ours.
Read ==
  /\ feed # <<>>
  /\ LET e == Head(feed)
     IN  IF e.kind = "Add"
         THEN /\ quoted' = [quoted EXCEPT ![e.side] = e.price]
              /\ have' = TRUE
              /\ UNCHANGED inventory
         ELSE /\ inventory' = inventory + Signed(e.side, e.qty)
              /\ UNCHANGED <<quoted, have>>
  /\ feed' = Tail(feed)
  /\ UNCHANGED <<market, killed, manual, cmds, resting, held, fills>>

\* Mutant: the switch is evaluated anew at every tick.
Unlatched(breach) ==
  IF manual THEN "Manual"
  ELSE IF inventory \notin -InventoryLimit .. InventoryLimit THEN "InventoryLimit"
  ELSE breach

\* KillSwitch.evaluate: the first reason found stays.
Evaluate(breach) ==
  IF killed # NoReason THEN killed
  ELSE IF manual THEN "Manual"
  ELSE IF inventory \notin -InventoryLimit .. InventoryLimit THEN "InventoryLimit"
  ELSE breach

\* Mutant: the ring takes one command too many.
PushAnyway(c) == cmds' = IF Len(cmds) <= CmdRingSize THEN Append(cmds, c) ELSE cmds

\* try_push: a full ring refuses the command, and nobody looks at the result.
Push(c) == cmds' = IF Len(cmds) < CmdRingSize THEN Append(cmds, c) ELSE cmds

\* The prices quote() asks for; once rounded to ticks they may be equal.
Wanted == QuoteTicks(market.mid, inventory, market.variance, market.timeLeft)

\* Mutant: the ask is not compared.
RequoteOnBid == ~ have \/ quoted["Bid"] # Wanted["Bid"]

\* should_requote
ShouldRequote == ~ have \/ quoted # Wanted

\* Mutant: CancelAll is sent once, when the switch trips.
CancelOnce ==
  /\ IF killed = NoReason THEN Push(CancelAll) ELSE UNCHANGED cmds
  /\ have' = FALSE

\* While the switch is tripped every tick asks for the orders to be withdrawn.
StandDown == Push(CancelAll) /\ have' = FALSE

Requote ==
  /\ IF ShouldRequote THEN Push(QuoteOf(Wanted)) ELSE UNCHANGED cmds
  /\ UNCHANGED have

\* One tick, from the risk metrics to the push.
Tick(breach) ==
  /\ killed' = Evaluate(breach)
  /\ IF killed' # NoReason THEN StandDown ELSE Requote
  /\ UNCHANGED <<market, inventory, quoted, manual, marketVars>>

-----------------------------------------------------------------------------
(* The matching engine *)

\* safe_ask_price: the ask stays above the bid.
PriceOn(t, s) == IF s = "Ask" /\ t["Ask"] <= t["Bid"] THEN t["Bid"] + 1 ELSE t[s]

\* The remainder of a new order rests, and is announced by an Add.
Placed(t, taken) ==
  [s \in Side |->
     IF taken[s] < LotSize THEN [price |-> PriceOn(t, s), qty |-> LotSize - taken[s]]
     ELSE NoOrder]

AddsOf(t, taken) ==
  LET Add(s) == IF taken[s] < LotSize
                THEN <<[kind |-> "Add", side |-> s, price |-> PriceOn(t, s)]>>
                ELSE <<>>
  IN  Add("Bid") \o Add("Ask")

\* The Quote at the head of the ring: the orders on the book are replaced.  An
\* order may trade at once; only one of the two can, as the book is uncrossed.
\* The Trades of such fills name the order that rested, which is not ours.
ExecuteQuote ==
  /\ cmds # <<>> /\ Head(cmds).kind = "Quote"
  /\ Len(feed) + 2 <= MaxFeed
  /\ \E s \in Side, qty \in 0..LotSize :
       LET taken == [x \in Side |-> IF x = s THEN qty ELSE 0]
       IN  /\ qty > 0 => fills < MaxFills
           /\ fills' = IF qty > 0 THEN fills + 1 ELSE fills
           /\ resting' = Placed(Head(cmds).at, taken)
           /\ feed' = feed \o AddsOf(Head(cmds).at, taken)
           /\ held' = held + Signed(s, qty)
  /\ cmds' = Tail(cmds)
  /\ UNCHANGED <<market, strategyVars, manual>>

ExecuteCancelAll ==
  /\ cmds # <<>> /\ Head(cmds).kind = "CancelAll"
  /\ resting' = Nothing
  /\ cmds' = Tail(cmds)
  /\ UNCHANGED <<market, strategyVars, manual, feed, held, fills>>

\* Someone trades with an order of ours that rests.
Hit(s, qty) ==
  /\ qty <= resting[s].qty
  /\ fills < MaxFills /\ Len(feed) < MaxFeed
  /\ fills' = fills + 1
  /\ resting' = [resting EXCEPT ![s] =
                   IF qty = @.qty THEN NoOrder ELSE [price |-> @.price, qty |-> @.qty - qty]]
  /\ feed' = Append(feed, [kind |-> "Trade", side |-> s, qty |-> qty])
  /\ held' = held + Signed(s, qty)
  /\ UNCHANGED <<market, strategyVars, manual, cmds>>

Execute == ExecuteQuote \/ ExecuteCancelAll

Next ==
  \/ Move
  \/ ManualKill
  \/ Read
  \/ \E breach \in Breaches : Tick(breach)
  \/ Execute
  \/ \E s \in Side, qty \in 1..LotSize : Hit(s, qty)

Spec == Init /\ [][Next]_vars

\* The two loops keep running, and the feed is read.  A tick that sees no breach is
\* every tick until one trips the switch, and every tick after that.
FairSpec == Spec /\ WF_vars(Tick(NoReason)) /\ WF_vars(Execute) /\ WF_vars(Read)

-----------------------------------------------------------------------------
(* Properties *)

Event ==
  [kind : {"Add"}, side : Side, price : Int]
    \cup [kind : {"Trade"}, side : Side, qty : 1..LotSize]

\* Every variable has its type, and the command ring its capacity.
TypeOK ==
  /\ market \in Markets
  /\ inventory \in Int /\ held \in Int /\ fills \in Nat
  /\ quoted \in [Side -> Int] /\ have \in BOOLEAN
  /\ killed \in Reasons \cup {NoReason} /\ manual \in BOOLEAN
  /\ cmds \in Seq(Commands) /\ Len(cmds) <= CmdRingSize
  /\ resting \in [Side -> [price : Int, qty : 0..LotSize]]
  /\ feed \in Seq(Event)

\* The switch has tripped and nothing of ours is left on the book or on its way there.
Quiet ==
  /\ killed # NoReason
  /\ \A n \in DOMAIN cmds : cmds[n].kind # "Quote"
  /\ resting = Nothing

\* Once the kill switch has done its work it is final: no later tick, event or
\* command puts an order of ours on the book again.
KillIsFinal == [][Quiet => Quiet']_vars

Quotes == {n \in DOMAIN cmds : cmds[n].kind = "Quote"}

\* A trip leaves behind the Quotes that are in the ring already and no more: each
\* that is executed later is one less, whatever the strategy, which evaluates the
\* switch anew at every tick, reads in between.  So after a trip at most
\* CmdRingSize Quotes place orders.
NoQuoteAfterTheTrip ==
  [][killed # NoReason =>
       IF ExecuteQuote THEN Cardinality(Quotes') < Cardinality(Quotes)
       ELSE Cardinality(Quotes') <= Cardinality(Quotes)]_vars

\* The kill switch does its work: whatever quotes the ring still holds, and even
\* if the ring is full when it trips, our orders leave the book for good.
KillIsEffective == killed # NoReason ~> [](resting = Nothing)

\* At the price asked for, or a tick above the bid if the ask was not.
RestsWhereWanted ==
  \A s \in Side : resting[s] # NoOrder => resting[s].price \in {Wanted[s], PriceOn(Wanted, s)}

\* Quotes catch up with the market and with our own fills, which move the wanted
\* prices by the inventory: once the market stays, late commands, refused ones and
\* late events leave no order of ours at another price.
QuotesSettle ==
  (<>[][market' = market]_vars /\ [](killed = NoReason)) => <>[]RestsWhereWanted

\* The switch trips on a breach of the inventory limit: a tick that has read
\* every event of our orders does not leave a position beyond the limit unnoticed.
BreachTrips ==
  [][((\E breach \in Breaches : Tick(breach)) /\ feed = <<>> /\ held \notin -InventoryLimit .. InventoryLimit)
       => killed' # NoReason]_vars
=============================================================================
