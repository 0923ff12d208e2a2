-------------------------------- MODULE Quoting --------------------------------
(***************************************************************************)
(* AvellanedaStoikov::quote of quoting.rs and price_to_ticks of main.rs in *)
(* fixed point: prices and spreads are whole numbers of 1/SubTicks of a    *)
(* tick, and variance stands for gamma * sigma^2.  The volatility estimate *)
(* itself is an input.                                                     *)
(***************************************************************************)
EXTENDS OrderBook

CONSTANTS
  SubTicks,   \* the resolution: units per tick
  BaseSpread  \* (2 / gamma) * ln(1 + gamma / kappa)

ASSUME QuotingAssumption == SubTicks \in Nat \ {0} /\ BaseSpread \in Nat

\* max(0.0)
AtLeastZero(x) == IF x > 0 THEN x ELSE 0

\* What one unit of inventory moves the prices by.
Risk(variance, timeLeft) == variance * AtLeastZero(timeLeft)

ReservationPrice(mid, inventory, variance, timeLeft) ==
  mid - inventory * Risk(variance, timeLeft)

HalfSpread(variance, timeLeft) == AtLeastZero((Risk(variance, timeLeft) + BaseSpread) \div 2)

\* quote()
Quoted(mid, inventory, variance, timeLeft) ==
  LET price == ReservationPrice(mid, inventory, variance, timeLeft)
      half  == HalfSpread(variance, timeLeft)
  IN  [s \in Side |-> IF s = "Bid" THEN price - half ELSE price + half]

\* round(): to the nearest tick, half away from zero.
RoundUp(x) == (2 * x + SubTicks) \div (2 * SubTicks)

PriceToTicks(x) == IF x >= 0 THEN RoundUp(x) ELSE - RoundUp(- x)

\* bid_ticks and ask_ticks
QuoteTicks(mid, inventory, variance, timeLeft) ==
  [s \in Side |-> PriceToTicks(Quoted(mid, inventory, variance, timeLeft)[s])]
=============================================================================
