---------------------------- MODULE StrategyProofs ----------------------------
(***************************************************************************)
(* Proofs about Strategy.tla and the quoting model it uses: the prices     *)
(* pushed are ordered and inventory moves them against itself, and the     *)
(* kill switch is final and lets no Quote into the ring, for every market, *)
(* every lot, limit, resolution and base spread, and every ring size.      *)
(***************************************************************************)
EXTENDS Strategy, FiniteSetTheorems, TLAPS

-----------------------------------------------------------------------------
(* Rounding *)

\* Division with remainder.
LEMMA DivMod ==
  ASSUME NEW n \in Int, NEW k \in Nat \ {0}
  PROVE  n \div k \in Int /\ n % k \in 0 .. k - 1 /\ n = (n \div k) * k + (n % k)
<1>1. n \div k \in Int
  OBVIOUS
<1>2. n % k \in 0 .. k - 1
  OBVIOUS
<1>3. n = (n \div k) * k + (n % k)
  OBVIOUS
<1>4. QED
  BY <1>1, <1>2, <1>3

\* A positive multiple of k is at least k.
LEMMA Multiple ==
  ASSUME NEW k \in Nat \ {0}, NEW q \in Int, q >= 1
  PROVE  q * k >= k
OBVIOUS

\* Division by k is monotone.
LEMMA DivMonotone ==
  ASSUME NEW m \in Int, NEW n \in Int, NEW k \in Nat \ {0}, m <= n
  PROVE  m \div k <= n \div k
<1> DEFINE a == m \div k
           b == n \div k
           x == m % k
           y == n % k
<1>1. a \in Int /\ x \in 0 .. k - 1 /\ m = a * k + x
  BY DivMod
<1>2. b \in Int /\ y \in 0 .. k - 1 /\ n = b * k + y
  BY DivMod
<1> HIDE DEF a, b, x, y
<1>3. SUFFICES ASSUME a > b PROVE FALSE
  BY <1>1, <1>2 DEF a, b
<1>4. a - b >= 1 /\ a - b \in Int
  BY <1>1, <1>2, <1>3
<1>5. (a - b) * k >= k
  BY <1>4, Multiple
<1>6. (a - b) * k = m - n + y - x
  BY <1>1, <1>2
<1>7. QED
  BY <1>1, <1>2, <1>5, <1>6

\* round() of a price that is not negative.
LEMMA RoundUpMonotone ==
  ASSUME NEW x \in Int, NEW y \in Int, x <= y
  PROVE  RoundUp(x) \in Int /\ RoundUp(x) <= RoundUp(y)
<1>1. 2 * SubTicks \in Nat \ {0} /\ SubTicks \in Nat
  BY QuotingAssumption
<1>2. 2 * x + SubTicks \in Int /\ 2 * y + SubTicks \in Int /\ 2 * x + SubTicks <= 2 * y + SubTicks
  BY <1>1
<1>3. QED
  BY <1>1, <1>2, DivMonotone, DivMod DEF RoundUp

\* Nothing is rounded below 0.
LEMMA RoundUpPositive ==
  ASSUME NEW x \in Nat
  PROVE  RoundUp(x) >= 0
<1> DEFINE n == 2 * x + SubTicks
           k == 2 * SubTicks
<1>1. n \in Nat /\ k \in Nat \ {0}
  BY QuotingAssumption
<1>2. 0 \div k <= n \div k
  BY <1>1, DivMonotone
<1>3. 0 \div k = 0
  BY <1>1
<1>4. QED
  BY <1>2, <1>3 DEF RoundUp

\* price_to_ticks never swaps two prices.
LEMMA PriceToTicksMonotone ==
  ASSUME NEW x \in Int, NEW y \in Int, x <= y
  PROVE  PriceToTicks(x) \in Int /\ PriceToTicks(x) <= PriceToTicks(y)
<1>1. /\ RoundUp(x) \in Int /\ RoundUp(- x) \in Int
      /\ RoundUp(y) \in Int /\ RoundUp(- y) \in Int
  BY RoundUpMonotone
<1>2. CASE x >= 0
  BY <1>1, <1>2, RoundUpMonotone DEF PriceToTicks
<1>3. CASE x < 0 /\ y < 0
  <2>1. RoundUp(- y) <= RoundUp(- x)
    BY RoundUpMonotone
  <2>2. QED
    BY <1>1, <1>3, <2>1 DEF PriceToTicks
<1>4. CASE x < 0 /\ y >= 0
  <2>1. RoundUp(- x) >= 0 /\ RoundUp(y) >= 0
    BY <1>4, RoundUpPositive
  <2>2. QED
    BY <1>1, <1>4, <2>1 DEF PriceToTicks
<1>5. QED
  BY <1>2, <1>3, <1>4

-----------------------------------------------------------------------------
(* The quotes *)

\* The parts of quote() are integers, the spread and the risk not negative.
LEMMA Parts ==
  ASSUME NEW mid \in Int, NEW stock \in Int, NEW variance \in Nat, NEW timeLeft \in Int
  PROVE  /\ Risk(variance, timeLeft) \in Nat
         /\ ReservationPrice(mid, stock, variance, timeLeft) \in Int
         /\ HalfSpread(variance, timeLeft) \in Nat
<1>1. AtLeastZero(timeLeft) \in Nat
  BY DEF AtLeastZero
<1>2. Risk(variance, timeLeft) \in Nat
  BY <1>1 DEF Risk
<1>3. ReservationPrice(mid, stock, variance, timeLeft) \in Int
  BY <1>2 DEF ReservationPrice
<1>4. (Risk(variance, timeLeft) + BaseSpread) \div 2 \in Int
  BY <1>2, QuotingAssumption
<1>5. QED
  BY <1>2, <1>3, <1>4 DEF HalfSpread, AtLeastZero

\* Both prices are ticks.
THEOREM QuoteTicksType ==
  ASSUME NEW mid \in Int, NEW stock \in Int, NEW variance \in Nat, NEW timeLeft \in Int
  PROVE  QuoteTicks(mid, stock, variance, timeLeft) \in [Side -> Int]
<1>1. \A s \in Side : Quoted(mid, stock, variance, timeLeft)[s] \in Int
  <2>1. /\ ReservationPrice(mid, stock, variance, timeLeft) \in Int
        /\ HalfSpread(variance, timeLeft) \in Nat
    BY Parts
  <2>2. QED
    BY <2>1 DEF Quoted
<1>2. \A s \in Side : PriceToTicks(Quoted(mid, stock, variance, timeLeft)[s]) \in Int
  BY <1>1, PriceToTicksMonotone
<1>3. QED
  BY <1>2 DEF QuoteTicks

\* The bid pushed is never above the ask pushed, whatever rounding does.
THEOREM QuoteOrdered ==
  ASSUME NEW mid \in Int, NEW stock \in Int, NEW variance \in Nat, NEW timeLeft \in Int
  PROVE  QuoteTicks(mid, stock, variance, timeLeft)["Bid"]
           <= QuoteTicks(mid, stock, variance, timeLeft)["Ask"]
<1> DEFINE q == Quoted(mid, stock, variance, timeLeft)
<1>1. q["Bid"] \in Int /\ q["Ask"] \in Int /\ q["Bid"] <= q["Ask"]
  <2>1. /\ ReservationPrice(mid, stock, variance, timeLeft) \in Int
        /\ HalfSpread(variance, timeLeft) \in Nat
    BY Parts
  <2>2. QED
    BY <2>1 DEF Quoted, Side
<1>2. PriceToTicks(q["Bid"]) <= PriceToTicks(q["Ask"])
  BY <1>1, PriceToTicksMonotone
<1>3. QED
  BY <1>2 DEF QuoteTicks, Side

\* Multiplication by a risk that is not negative is monotone.
LEMMA TimesMonotone ==
  ASSUME NEW m \in Int, NEW n \in Int, NEW k \in Nat, m <= n
  PROVE  m * k <= n * k
<1>1. n - m \in Nat /\ (n - m) * k \in Nat
  OBVIOUS
<1>2. (n - m) * k = n * k - m * k
  OBVIOUS
<1>3. QED
  BY <1>1, <1>2

\* The longer the inventory, the lower both prices: the quotes lean against it,
\* which the tests of quoting.rs check at one point.
THEOREM SkewsAgainstInventory ==
  ASSUME NEW mid \in Int, NEW short \in Int, NEW long \in Int, short <= long,
         NEW variance \in Nat, NEW timeLeft \in Int, NEW s \in Side
  PROVE  QuoteTicks(mid, long, variance, timeLeft)[s]
           <= QuoteTicks(mid, short, variance, timeLeft)[s]
<1> DEFINE p == Quoted(mid, short, variance, timeLeft)[s]
           q == Quoted(mid, long, variance, timeLeft)[s]
           r == Risk(variance, timeLeft)
<1>1. r \in Nat /\ HalfSpread(variance, timeLeft) \in Nat
  BY Parts
<1>2. short * r <= long * r /\ short * r \in Int /\ long * r \in Int
  BY <1>1, TimesMonotone
<1> HIDE DEF r
<1>3. /\ ReservationPrice(mid, long, variance, timeLeft) = mid - long * r
      /\ ReservationPrice(mid, short, variance, timeLeft) = mid - short * r
  BY DEF ReservationPrice, r
<1>4. q \in Int /\ p \in Int /\ q <= p
  BY <1>1, <1>2, <1>3 DEF Quoted
<1> HIDE DEF p, q
<1>5. PriceToTicks(q) <= PriceToTicks(p)
  BY <1>4, PriceToTicksMonotone
<1>6. QED
  BY <1>5 DEF QuoteTicks, p, q

-----------------------------------------------------------------------------
(* The strategy *)

\* The wanted prices are ticks.
LEMMA WantedType ==
  ASSUME TypeOK
  PROVE  Wanted \in [Side -> Int]
<1>1. market.mid \in Int /\ market.variance \in Nat /\ market.timeLeft \in Int /\ inventory \in Int
  BY StrategyAssumption DEF TypeOK
<1>2. QED
  BY <1>1, QuoteTicksType DEF Wanted

\* The parts of the type that the steps share.
LEMMA Commanded ==
  ASSUME TypeOK, NEW c \in Commands, Push(c)
  PROVE  cmds' \in Seq(Commands) /\ Len(cmds') <= CmdRingSize
<1>1. CASE Len(cmds) < CmdRingSize
  <2>1. cmds' = Append(cmds, c) /\ cmds \in Seq(Commands)
    BY <1>1 DEF Push, TypeOK
  <2>2. cmds' \in Seq(Commands) /\ Len(cmds') = Len(cmds) + 1
    BY <2>1
  <2>3. QED
    BY <1>1, <2>1, <2>2, StrategyAssumption
<1>2. CASE ~ (Len(cmds) < CmdRingSize)
  BY <1>2 DEF Push, TypeOK
<1>3. QED
  BY <1>1, <1>2

\* Taking a command off the ring.
LEMMA Popped ==
  ASSUME TypeOK, cmds # <<>>, cmds' = Tail(cmds)
  PROVE  /\ cmds' \in Seq(Commands) /\ Len(cmds') <= CmdRingSize
         /\ Head(cmds) \in Commands
         /\ \A n \in DOMAIN cmds' : n + 1 \in DOMAIN cmds /\ cmds'[n] = cmds[n + 1]
<1>1. cmds \in Seq(Commands) /\ Len(cmds) <= CmdRingSize /\ CmdRingSize \in Nat
  BY StrategyAssumption DEF TypeOK
<1>2. /\ Tail(cmds) \in Seq(Commands) /\ Len(Tail(cmds)) = Len(cmds) - 1
      /\ Head(cmds) \in Commands
      /\ \A n \in 1..Len(Tail(cmds)) : n + 1 \in 1..Len(cmds) /\ Tail(cmds)[n] = cmds[n + 1]
  BY <1>1
<1>3. QED
  BY <1>1, <1>2

\* What the events of a new order are.
LEMMA Announced ==
  ASSUME NEW t \in [Side -> Int], NEW taken \in [Side -> 0..LotSize]
  PROVE  AddsOf(t, taken) \in Seq(Event) /\ Placed(t, taken) \in [Side -> [price : Int, qty : 0..LotSize]]
<1>1. t \in [Side -> Int] /\ LotSize \in Nat
  BY StrategyAssumption
<1>2. \A s \in Side : PriceOn(t, s) \in Int
  BY <1>1 DEF PriceOn, Side
<1>3. Placed(t, taken) \in [Side -> [price : Int, qty : 0..LotSize]]
  BY <1>1, <1>2 DEF Placed, NoOrder
<1>4. \A s \in Side : [kind |-> "Add", side |-> s, price |-> PriceOn(t, s)] \in Event
  BY <1>2 DEF Event
<1>5. AddsOf(t, taken) \in Seq(Event)
  BY <1>4 DEF AddsOf, Side
<1>6. QED
  BY <1>3, <1>5

-----------------------------------------------------------------------------
(* Type correctness *)

LEMMA TypeInit ==
  ASSUME Init
  PROVE  TypeOK
<1> USE StrategyAssumption DEF Init
<1>1. cmds \in Seq(Commands) /\ Len(cmds) <= CmdRingSize /\ feed \in Seq(Event)
  OBVIOUS
<1>2. resting \in [Side -> [price : Int, qty : 0..LotSize]]
  BY DEF Nothing, NoOrder
<1>3. /\ market \in Markets
      /\ inventory \in Int /\ held \in Int /\ fills \in Nat
      /\ quoted \in [Side -> Int]
  OBVIOUS
<1>4. have \in BOOLEAN /\ killed \in Reasons \cup {NoReason} /\ manual \in BOOLEAN
  BY Zenon
<1>5. QED
  BY <1>1, <1>2, <1>3, <1>4 DEF TypeOK

LEMMA TypeStep ==
  ASSUME TypeOK, [Next]_vars
  PROVE  TypeOK'
<1> USE StrategyAssumption
<1>1. CASE Move
  BY <1>1 DEF Move, TypeOK, strategyVars, marketVars
<1>2. CASE ManualKill
  BY <1>2 DEF ManualKill, TypeOK, strategyVars, marketVars
<1>3. CASE Read
  <2>1. Head(feed) \in Event /\ Tail(feed) \in Seq(Event)
    BY <1>3 DEF Read, TypeOK
  <2>2. CASE Head(feed).kind = "Add"
    <3>1. Head(feed).side \in Side /\ Head(feed).price \in Int
      BY <2>1, <2>2 DEF Event
    <3>2. QED
      BY <1>3, <2>1, <2>2, <3>1 DEF Read, TypeOK
  <2>3. CASE Head(feed).kind # "Add"
    <3>1. Head(feed).side \in Side /\ Head(feed).qty \in 1..LotSize
      BY <2>1, <2>3 DEF Event
    <3>2. Signed(Head(feed).side, Head(feed).qty) \in Int
      BY <3>1 DEF Signed
    <3>3. QED
      BY <1>3, <2>1, <2>3, <3>2 DEF Read, TypeOK
  <2>4. QED
    BY <2>2, <2>3
<1>4. ASSUME NEW breach \in Breaches, Tick(breach)
      PROVE  TypeOK'
  <2>1. killed' \in Reasons \cup {NoReason}
    BY <1>4 DEF Tick, Evaluate, TypeOK, Reasons, Breaches
  <2>2. cmds' \in Seq(Commands) /\ Len(cmds') <= CmdRingSize /\ have' \in BOOLEAN
    <3>1. CancelAll \in Commands /\ QuoteOf(Wanted) \in Commands
      BY WantedType DEF Commands, QuoteOf
    <3>2. CASE killed' # NoReason
      BY <1>4, <3>1, <3>2, Commanded DEF Tick, StandDown
    <3>3. CASE killed' = NoReason
      BY <1>4, <3>1, <3>3, Commanded DEF Tick, Requote, TypeOK
    <3>4. QED
      BY <3>2, <3>3
  <2>3. QED
    BY <1>4, <2>1, <2>2 DEF Tick, TypeOK, marketVars
<1>5. CASE ExecuteQuote
  <2>1. /\ cmds' \in Seq(Commands) /\ Len(cmds') <= CmdRingSize
        /\ Head(cmds) \in Commands
    BY <1>5, Popped DEF ExecuteQuote
  <2>2. Head(cmds).at \in [Side -> Int]
    BY <1>5, <2>1 DEF ExecuteQuote, Commands, QuoteOf, CancelAll
  <2>3. PICK s \in Side, qty \in 0..LotSize :
          LET taken == [x \in Side |-> IF x = s THEN qty ELSE 0]
          IN  /\ fills' = IF qty > 0 THEN fills + 1 ELSE fills
              /\ resting' = Placed(Head(cmds).at, taken)
              /\ feed' = feed \o AddsOf(Head(cmds).at, taken)
              /\ held' = held + Signed(s, qty)
    BY <1>5 DEF ExecuteQuote
  <2> DEFINE taken == [x \in Side |-> IF x = s THEN qty ELSE 0]
  <2>4. taken \in [Side -> 0..LotSize]
    OBVIOUS
  <2> HIDE DEF taken
  <2>5. AddsOf(Head(cmds).at, taken) \in Seq(Event) /\ resting' \in [Side -> [price : Int, qty : 0..LotSize]]
    BY <2>2, <2>3, <2>4, Announced DEF taken
  <2>6. feed' \in Seq(Event)
    BY <2>3, <2>5 DEF taken, TypeOK
  <2>7. held' \in Int /\ fills' \in Nat
    BY <2>3 DEF Signed, TypeOK
  <2>8. QED
    BY <1>5, <2>1, <2>5, <2>6, <2>7 DEF ExecuteQuote, TypeOK, strategyVars
<1>6. CASE ExecuteCancelAll
  <2>1. cmds' \in Seq(Commands) /\ Len(cmds') <= CmdRingSize
    BY <1>6, Popped DEF ExecuteCancelAll
  <2>2. Nothing \in [Side -> [price : Int, qty : 0..LotSize]]
    BY DEF Nothing, NoOrder
  <2>3. QED
    BY <1>6, <2>1, <2>2 DEF ExecuteCancelAll, TypeOK, strategyVars
<1>7. ASSUME NEW s \in Side, NEW qty \in 1..LotSize, Hit(s, qty)
      PROVE  TypeOK'
  <2>1. resting' \in [Side -> [price : Int, qty : 0..LotSize]]
    <3>1. resting[s] \in [price : Int, qty : 0..LotSize] /\ qty <= resting[s].qty
      BY <1>7 DEF Hit, TypeOK
    <3> DEFINE r == IF qty = resting[s].qty THEN NoOrder
                    ELSE [price |-> resting[s].price, qty |-> resting[s].qty - qty]
    <3>2. r \in [price : Int, qty : 0..LotSize]
      BY <3>1 DEF NoOrder
    <3>3. resting' = [resting EXCEPT ![s] = r]
      BY <1>7 DEF Hit
    <3> HIDE DEF r
    <3>4. QED
      BY <3>2, <3>3 DEF TypeOK
  <2>2. [kind |-> "Trade", side |-> s, qty |-> qty] \in Event
    BY DEF Event
  <2>3. feed' \in Seq(Event)
    BY <1>7, <2>2 DEF Hit, TypeOK
  <2>4. held' \in Int /\ fills' \in Nat
    BY <1>7 DEF Hit, Signed, TypeOK
  <2>5. QED
    BY <1>7, <2>1, <2>3, <2>4 DEF Hit, TypeOK, strategyVars
<1>8. CASE UNCHANGED vars
  BY <1>8 DEF vars, strategyVars, marketVars, TypeOK
<1>9. QED
  BY <1>1, <1>2, <1>3, <1>4, <1>5, <1>6, <1>7, <1>8 DEF Next, Execute

-----------------------------------------------------------------------------
(* The switch is final *)

LEMMA QuietStep ==
  ASSUME TypeOK, Quiet, [Next]_vars
  PROVE  Quiet'
<1> USE DEF Quiet
<1>1. CASE Move \/ ManualKill
  BY <1>1 DEF Move, ManualKill, strategyVars, marketVars
<1>2. CASE Read
  BY <1>2 DEF Read
<1>3. ASSUME NEW breach \in Breaches, Tick(breach)
      PROVE  Quiet'
  <2>1. killed' = killed
    BY <1>3 DEF Tick, Evaluate
  <2>2. Push(CancelAll) /\ resting' = resting
    BY <1>3, <2>1 DEF Tick, StandDown, marketVars
  <2>3. \A n \in DOMAIN cmds' : cmds'[n].kind # "Quote"
    <3>1. CASE Len(cmds) < CmdRingSize
      <4>1. cmds' = Append(cmds, CancelAll) /\ cmds \in Seq(Commands)
        BY <2>2, <3>1 DEF Push, TypeOK
      <4>2. CancelAll.kind # "Quote"
        BY DEF CancelAll
      <4>3. \A n \in 1..Len(cmds) + 1 : cmds'[n] = IF n <= Len(cmds) THEN cmds[n] ELSE CancelAll
        BY <4>1
      <4>4. DOMAIN cmds' = 1..Len(cmds) + 1 /\ DOMAIN cmds = 1..Len(cmds) /\ Len(cmds) \in Nat
        BY <4>1
      <4>5. QED
        BY <4>2, <4>3, <4>4
    <3>2. CASE ~ (Len(cmds) < CmdRingSize)
      BY <2>2, <3>2 DEF Push
    <3>3. QED
      BY <3>1, <3>2
  <2>4. QED
    BY <2>1, <2>2, <2>3
<1>4. CASE ExecuteQuote
  <2>1. 1 \in DOMAIN cmds /\ Head(cmds) = cmds[1]
    BY <1>4 DEF ExecuteQuote, TypeOK
  <2>2. QED
    BY <1>4, <2>1 DEF ExecuteQuote
<1>5. CASE ExecuteCancelAll
  BY <1>5, Popped DEF ExecuteCancelAll, strategyVars
<1>6. ASSUME NEW s \in Side, NEW qty \in 1..LotSize, Hit(s, qty)
      PROVE  FALSE
  <2>1. resting[s].qty = 0
    BY DEF Nothing, NoOrder
  <2>2. QED
    BY <1>6, <2>1, StrategyAssumption DEF Hit
<1>7. CASE UNCHANGED vars
  BY <1>7 DEF vars, strategyVars, marketVars
<1>8. QED
  BY <1>1, <1>2, <1>3, <1>4, <1>5, <1>6, <1>7 DEF Next, Execute

-----------------------------------------------------------------------------
(* A trip leaves no more Quotes behind than the ring holds *)

\* The Quotes of the ring are finitely many.
LEMMA QuotesFinite ==
  ASSUME TypeOK
  PROVE  IsFiniteSet(Quotes) /\ Cardinality(Quotes) \in Nat
<1>1. Quotes \in SUBSET (1..Len(cmds)) /\ Len(cmds) \in Nat
  BY DEF TypeOK, Quotes
<1>2. IsFiniteSet(1..Len(cmds))
  BY <1>1, FS_Interval
<1>3. IsFiniteSet(Quotes)
  BY <1>1, <1>2, FS_Subset
<1>4. QED
  BY <1>3, FS_CardinalityType

\* A command taken off the ring adds no Quote, and is one less if it was one.
LEMMA QuotesPopped ==
  ASSUME TypeOK, cmds # <<>>, cmds' = Tail(cmds)
  PROVE  /\ Cardinality(Quotes') <= Cardinality(Quotes)
         /\ Head(cmds).kind = "Quote" => Cardinality(Quotes') < Cardinality(Quotes)
<1> DEFINE Old == Quotes
           New == Quotes'
           Rest == Old \ {1}
           up == [n \in New |-> n + 1]
<1>1. cmds \in Seq(Commands) /\ cmds' \in Seq(Commands)
  BY Popped DEF TypeOK
<1>2. New \subseteq Nat \ {0}
  BY <1>1 DEF Quotes
<1>3. \A n \in New : n + 1 \in Rest
  <2> SUFFICES ASSUME NEW n \in New PROVE n + 1 \in Rest
    OBVIOUS
  <2>1. n \in DOMAIN cmds' /\ cmds'[n].kind = "Quote" /\ n \in Nat \ {0}
    BY <1>2 DEF Quotes
  <2>2. n + 1 \in DOMAIN cmds /\ cmds'[n] = cmds[n + 1]
    BY <2>1, Popped
  <2>3. QED
    BY <2>1, <2>2 DEF Quotes
<1>4. IsFiniteSet(Old) /\ Cardinality(Old) \in Nat
  BY QuotesFinite
<1>5. 1 \in Old <=> Head(cmds).kind = "Quote"
  BY <1>1 DEF Quotes
<1> HIDE DEF Old, New
<1>6. IsFiniteSet(Rest) /\ Cardinality(Rest) = IF 1 \in Old THEN Cardinality(Old) - 1 ELSE Cardinality(Old)
  BY <1>4, FS_RemoveElement
<1>7. up \in Injection(New, Rest)
  BY <1>2, <1>3 DEF Injection, IsInjective
<1> HIDE DEF up, Rest
<1>8. IsFiniteSet(New) /\ Cardinality(New) <= Cardinality(Rest)
  BY <1>6, <1>7, FS_Injection
<1>9. Cardinality(New) \in Nat
  BY <1>8, FS_CardinalityType
<1>10. /\ Cardinality(New) <= Cardinality(Old)
       /\ Head(cmds).kind = "Quote" => Cardinality(New) < Cardinality(Old)
  BY <1>4, <1>5, <1>6, <1>8, <1>9
<1>11. QED
  BY <1>10 DEF Old, New

\* Asking for the orders to be withdrawn adds no Quote.
LEMMA QuotesWithdrawn ==
  ASSUME TypeOK, Push(CancelAll)
  PROVE  Quotes' = Quotes
<1>1. CASE Len(cmds) < CmdRingSize
  <2>1. cmds' = Append(cmds, CancelAll) /\ cmds \in Seq(Commands)
    BY <1>1 DEF Push, TypeOK
  <2>2. /\ DOMAIN cmds' = DOMAIN cmds \cup {Len(cmds) + 1}
        /\ cmds'[Len(cmds) + 1] = CancelAll
        /\ \A n \in DOMAIN cmds : cmds'[n] = cmds[n]
    BY <2>1
  <2>3. CancelAll.kind # "Quote"
    BY DEF CancelAll
  <2>4. QED
    BY <2>2, <2>3 DEF Quotes
<1>2. CASE ~ (Len(cmds) < CmdRingSize)
  BY <1>2 DEF Push, Quotes
<1>3. QED
  BY <1>1, <1>2

LEMMA TripStep ==
  ASSUME TypeOK, killed # NoReason, [Next]_vars
  PROVE  IF ExecuteQuote THEN Cardinality(Quotes') < Cardinality(Quotes)
         ELSE Cardinality(Quotes') <= Cardinality(Quotes)
<1>1. CASE ExecuteQuote
  BY <1>1, QuotesPopped DEF ExecuteQuote
<1>2. ASSUME ~ ExecuteQuote
      PROVE  Cardinality(Quotes') <= Cardinality(Quotes)
  <2>1. ASSUME UNCHANGED cmds
        PROVE  Cardinality(Quotes') <= Cardinality(Quotes)
    <3>1. Quotes' = Quotes
      BY <2>1 DEF Quotes
    <3>2. QED
      BY <3>1, QuotesFinite
  <2>2. CASE Move \/ ManualKill \/ Read \/ UNCHANGED vars
    BY <2>1, <2>2 DEF Move, ManualKill, Read, vars
  <2>3. ASSUME NEW breach \in Breaches, Tick(breach)
        PROVE  Cardinality(Quotes') <= Cardinality(Quotes)
    <3>1. killed' = killed
      BY <2>3 DEF Tick, Evaluate
    <3>2. Quotes' = Quotes
      BY <2>3, <3>1, QuotesWithdrawn DEF Tick, StandDown
    <3>3. QED
      BY <3>2, QuotesFinite
  <2>4. CASE ExecuteCancelAll
    BY <2>4, QuotesPopped DEF ExecuteCancelAll
  <2>5. ASSUME NEW s \in Side, NEW qty \in 1..LotSize, Hit(s, qty)
        PROVE  Cardinality(Quotes') <= Cardinality(Quotes)
    BY <2>1, <2>5 DEF Hit
  <2>6. QED
    BY <1>2, <2>2, <2>3, <2>4, <2>5 DEF Next, Execute
<1>3. QED
  BY <1>1, <1>2

\* The types of Strategy hold, and the command ring never exceeds its capacity.
THEOREM Typed == Spec => []TypeOK
<1>1. Init => TypeOK
  BY TypeInit
<1>2. TypeOK /\ [Next]_vars => TypeOK'
  BY TypeStep
<1>3. QED
  BY <1>1, <1>2, PTL DEF Spec

\* Once the kill switch of risk.rs has cleared the ring and the book of our
\* orders, no step of the strategy, the engine or the market brings one back.
THEOREM Final == Spec => KillIsFinal
<1>1. TypeOK /\ [Next]_vars => [Quiet => Quiet']_vars
  BY QuietStep
<1>2. QED
  BY <1>1, Typed, PTL DEF Spec, KillIsFinal

\* Once the kill switch of risk.rs has tripped, no tick of run_strategy adds a
\* Quote to the ring: those pushed before, at most as many as the ring holds, are
\* the last that place orders.
THEOREM TripDrainsTheRing == Spec => NoQuoteAfterTheTrip
<1>1. TypeOK /\ [Next]_vars
        => [killed # NoReason =>
              IF ExecuteQuote THEN Cardinality(Quotes') < Cardinality(Quotes)
              ELSE Cardinality(Quotes') <= Cardinality(Quotes)]_vars
  BY TripStep
<1>2. QED
  BY <1>1, Typed, PTL DEF Spec, NoQuoteAfterTheTrip
=============================================================================
