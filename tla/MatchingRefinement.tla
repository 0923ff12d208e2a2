-------------------------- MODULE MatchingRefinement --------------------------
(***************************************************************************)
(* How Matching implements PriceTime.  The abstract orders are those on    *)
(* the book with the fills of the call in progress given back, so that a   *)
(* call takes effect when it returns.                                      *)
(***************************************************************************)
EXTENDS Matching

\* The fills of the call in progress.
Fills == IF taker = NoTaker THEN <<>> ELSE taker.fills

\* What a list of fills takes from order id.
TakenIn(fills, id) ==
  SumFunctionOnSet([n \in DOMAIN fills |-> fills[n].qty],
                   {n \in DOMAIN fills : fills[n].id = id})

\* An order of side s and price p of which qty is left, as it was before the fills.
Was(fills, s, p, id, qty, ours) ==
  [id |-> id, side |-> s, price |-> p, qty |-> qty + TakenIn(fills, id), ours |-> ours]

\* The orders on book b, as they were before the fills.
OnBook(b, fills) ==
  UNION {UNION {{LET o == b[s][p][i] IN Was(fills, s, p, o.id, o.qty, o.ours)
                 : i \in DOMAIN b[s][p]} : p \in DOMAIN b[s]} : s \in Side}

\* The orders of side s that the fills have used up: of these nothing is left.
UsedUp(b, fills, s) ==
  {Was(fills, s, fills[n].price, fills[n].id, 0, fills[n].ours) :
     n \in {m \in DOMAIN fills : \A o \in OnBook(b, fills) : o.id # fills[m].id}}

Orders == OnBook(book, Fills) \cup UsedUp(book, Fills, Opposing)

Abstract == INSTANCE PriceTime WITH orders <- Orders, Ids <- 1..MaxId

\* Every call does to the resting orders exactly what price-time priority
\* says, in one step: the matching loop implements PriceTime.
ImplementsPriceTime == Abstract!Spec
=============================================================================
