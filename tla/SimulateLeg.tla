---------------------------- MODULE SimulateLeg ----------------------------
(***************************************************************************)
(* simulate_leg: how the F-02 simulation fills one leg from a snapshot of  *)
(* the book (crates/core/src/simulation.rs).                               *)
(*                                                                         *)
(* The loop over the levels is the state machine: one step per level, then *)
(* the step that builds the SimLegResult.  Prices and quantities are       *)
(* decimals in the code and integers here; the divisions that round are    *)
(* kept, with the basis points expressed in fractions of Unit.             *)
(***************************************************************************)
EXTENDS Integers, Sequences, Sums

CONSTANTS
    Unit,   \* the denominator of basis points, 10000 in the code
    Inputs  \* the legs to fill

\* adverse and take are adverse_move_bps and competitor_take_bps.
InputType ==
    [side : {"Asks", "Bids"}, levels : Seq([price : Nat \ {0}, quantity : Nat \ {0}]),
     requested : Nat \ {0}, step : Nat \ {0}, tick : Nat \ {0}, min_quantity : Nat \ {0},
     adverse : 0 .. Unit, take : 0 .. Unit]

SimulateLegAssumption == Unit \in Nat \ {0} /\ Inputs \subseteq InputType

VARIABLES
    leg,       \* the leg being filled
    next,      \* the level the loop looks at next
    remaining, \* what is still to be filled
    filled,
    quote_amount,
    last_fill_price,
    pc         \* "loop", or "done" with the result in filled and quote_amount

vars == <<leg, next, remaining, filled, quote_amount, last_fill_price, pc>>

-----------------------------------------------------------------------------

\* offset_level_price: a buyer's price is raised and rounded up to the tick, a
\* seller's lowered and rounded down.
OffsetLevelPrice(l, price) ==
    IF l.side = "Asks"
    THEN ((price * (Unit + l.adverse) + Unit * l.tick - 1) \div (Unit * l.tick)) * l.tick
    ELSE ((price * (Unit - l.adverse)) \div (Unit * l.tick)) * l.tick

\* Mutant of Available: rounded to the nearest step.
Available_RoundsToNearest(l, level) ==
    ((2 * level.quantity * (Unit - l.take) + Unit * l.step) \div (2 * Unit * l.step)) * l.step

\* What the competitor leaves of a level, rounded down to the quantity step.
Available(l, level) == ((level.quantity * (Unit - l.take)) \div (Unit * l.step)) * l.step

Least(a, b) == IF a <= b THEN a ELSE b

Init ==
    /\ leg \in Inputs
    /\ next = 1
    /\ remaining = leg.requested
    /\ filled = 0
    /\ quote_amount = 0
    /\ last_fill_price = 0
    /\ pc = "loop"

\* One round of the loop that fills.
TakeLevel ==
    /\ pc = "loop"
    /\ next <= Len(leg.levels)
    /\ remaining # 0
    /\ LET take == Least(remaining, Available(leg, leg.levels[next]))
       IN  /\ take > 0
           /\ quote_amount' =
                 quote_amount + take * OffsetLevelPrice(leg, leg.levels[next].price)
           /\ filled' = filled + take
           /\ remaining' = remaining - take
    /\ last_fill_price' = OffsetLevelPrice(leg, leg.levels[next].price)
    /\ next' = next + 1
    /\ UNCHANGED <<leg, pc>>

\* The competitor has left nothing of the level.
SkipLevel ==
    /\ pc = "loop"
    /\ next <= Len(leg.levels)
    /\ remaining # 0
    /\ Available(leg, leg.levels[next]) = 0
    /\ next' = next + 1
    /\ UNCHANGED <<leg, remaining, filled, quote_amount, last_fill_price, pc>>

\* The loop is over.  A fill below the venue's minimum is reported as no fill.
Finish ==
    /\ pc = "loop"
    /\ next > Len(leg.levels) \/ remaining = 0
    /\ filled' = IF filled < leg.min_quantity THEN 0 ELSE filled
    /\ pc' = "done"
    /\ UNCHANGED <<leg, next, remaining, quote_amount, last_fill_price>>

Next == TakeLevel \/ SkipLevel \/ Finish

Spec == Init /\ [][Next]_vars

-----------------------------------------------------------------------------
\* What the levels before the k-th leave available to the leg.
AvailableBefore(k) ==
    SumOver([j \in DOMAIN leg.levels |-> Available(leg, leg.levels[j])], 1 .. k - 1)

\* What a leg that sweeps the book from its best level takes of the k-th level.
ShareOf(k) ==
    LET before == Least(leg.requested, AvailableBefore(k))
    IN  Least(leg.requested, AvailableBefore(k + 1)) - before

\* Every variable stays in its range.
TypeOK ==
    /\ leg \in Inputs
    /\ next \in 1 .. Len(leg.levels) + 1
    /\ remaining \in 0 .. leg.requested
    /\ filled \in 0 .. leg.requested
    /\ quote_amount \in Nat
    /\ last_fill_price \in Nat
    /\ pc \in {"loop", "done"}

\* F02-R02: the leg gets what the levels looked at so far offer after the
\* competitor, best level first, never more than requested and never more than
\* the book's own quantities.
FillIsSweep ==
    pc = "loop" =>
        /\ filled = Least(leg.requested, AvailableBefore(next))
        /\ filled + remaining = leg.requested
        /\ \A k \in 1 .. Len(leg.levels) : ShareOf(k) <= leg.levels[k].quantity

\* F02-R03 and design D2: every unit is paid at the price of the level it comes
\* from, moved to the disadvantage of the leg: a buyer pays at least, a seller
\* gets at most what the book said, in whole ticks.
PricedAdversely ==
    LET SumOfLevels(f) == SumOver(f, 1 .. next - 1)
        book == SumOfLevels([k \in DOMAIN leg.levels |-> ShareOf(k) * leg.levels[k].price])
    IN  /\ quote_amount = SumOfLevels([k \in DOMAIN leg.levels |->
                              ShareOf(k) * OffsetLevelPrice(leg, leg.levels[k].price)])
        /\ last_fill_price % leg.tick = 0
        /\ IF leg.side = "Asks" THEN quote_amount >= book ELSE quote_amount <= book

\* F-02 design, D2: a leg below the minimum quantity is rejected whole, without a
\* trade.  No amount may be left on a leg without a fill.
RejectedLegIsEmpty == pc = "done" /\ filled = 0 => quote_amount = 0

\* F02-R01: the price of a simulated buy is at least the worst price swept, with
\* its adverse offset.  The price booked is quote_amount / filled.
PricedAtWorst ==
    pc = "done" /\ leg.side = "Asks" /\ filled > 0 => quote_amount >= filled * last_fill_price
=============================================================================
