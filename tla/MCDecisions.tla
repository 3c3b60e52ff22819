----------------------------- MODULE MCDecisions -----------------------------
(***************************************************************************)
(* An instance of Decisions for TLC.                                       *)
(***************************************************************************)
EXTENDS Decisions, TLC

CONSTANTS r1, r2, x, y

L(p, q) == [price |-> p, quantity |-> q]

\* Five books: one crossed, one too thin on one side.
MCBooks == {
    [bids |-> <<L(108, 2)>>, asks |-> <<L(101, 2)>>],
    [bids |-> <<L(99, 2)>>, asks |-> <<L(101, 2)>>],
    [bids |-> <<L(104, 1), L(103, 1)>>, asks |-> <<L(105, 1), L(106, 1)>>],
    [bids |-> <<L(103, 1), L(101, 1)>>, asks |-> <<L(104, 1), L(105, 2)>>],
    [bids |-> <<L(99, 1)>>, asks |-> <<L(100, 1), L(102, 2)>>]}

ReadOnly(b, s) == [credentials |-> "set", error |-> FALSE, reading |-> TRUE,
                   scopes |-> {}, buy |-> b, sell |-> s]

\* No answer, an error, a key that can withdraw, and rates that are equal or far
\* apart for the two sides.
MCAnswers == {
    [credentials |-> "missing"], [credentials |-> "set", error |-> TRUE],
    ReadOnly(10, 10), ReadOnly(190, 10), ReadOnly(10, 190),
    [ReadOnly(10, 10) EXCEPT !.scopes = {"withdraw"}]}

MCStrategy == [min_net_profit |-> 1, min_net_bps |-> 50, latency_loss_bps |-> 1,
               risk_buffer_bps |-> 1, rebalance_cost |-> 0, other_direct_cost |-> 1]

\* A notional limit at one venue that some of the books exceed.
MCSpecs == [v \in {"binance", "bybit"} |->
    [quantity_step |-> 1, min_quantity |-> 1, max_quantity |-> 9, min_notional |-> 10,
     max_notional |-> IF v = "binance" THEN 211 ELSE 900]]

\* A book side from its best price on: asks rise, bids fall.
Book(side, quantities) ==
    [k \in 1 .. Len(quantities) |->
        [price |-> IF side = "Asks" THEN 4 + k ELSE 8 - k, quantity |-> quantities[k]]]

\* Up to two levels of any of three quantities, or three levels of two.
Shapes == UNION {[1 .. n -> {1, 3, 4}] : n \in 1 .. 2} \cup [1 .. 3 -> {1, 3}]

\* Requested quantities are aligned to the step and not below the minimum, which
\* validate_pair checks before an opportunity is accepted.
MCInputs ==
    {[side |-> side, levels |-> Book(side, q), requested |-> r, step |-> s, tick |-> t,
      min_quantity |-> m, adverse |-> a, take |-> c] :
        side \in {"Asks", "Bids"}, q \in Shapes,
        r \in {2, 4}, s \in {1, 2}, t \in {1, 2}, m \in {1, 2},
        a \in {0, 1}, c \in {0, 1, 4}}

\* Two runs, which may start in the same millisecond, in the same direction, with
\* the same content.
MCSimulations == {r1, r2}
MCContents == {x, y}

RunSymmetry == Permutations(MCSimulations) \cup Permutations(MCContents)
=============================================================================
