------------------------------- MODULE MCFacts -------------------------------
(***************************************************************************)
(* An instance of Facts for TLC.                                           *)
(***************************************************************************)
EXTENDS Facts, TLC

CONSTANTS i1, i2, venue, o1, o2, q1, q2, p1

\* Two orders of quantity 2 at one venue, each of which may be told the id of the
\* other.
MCVenueOf == [i \in {i1, i2} |-> venue]
MCOrdered == [i \in {i1, i2} |-> 2]

\* On one order id a trade of 1, the same trade key with other content, and a trade of
\* 2 that exceeds the order with the first but not alone; on the other id a trade
\* under the same trade id, and a report of nothing.
MCTrades ==
    LET Trade(order, id, quantity, content) ==
            [venue |-> venue, order |-> order, id |-> id, quantity |-> quantity,
             content |-> content]
    IN  {Trade(o1, 1, 1, 1), Trade(o1, 1, 1, 2), Trade(o1, 2, 2, 1), Trade(o2, 1, 1, 1),
        Trade(o2, 2, 0, 1)}

\* A generous and a tight set of limits for one plan.
MCLimits == {[target |-> 2, max_exposure |-> 4, budget |-> 3],
             [target |-> 2, max_exposure |-> 1, budget |-> 2]}

\* Every pair of fills up to one beyond the target, at one or two per unit.
MCEvaluations ==
    [leg_a : 0 .. 3, leg_b : 0 .. 3, exposure_per_unit : {1, 2}, cost_per_unit : {0, 1}]

\* Two commands asked for under one request id, a third under its own, one of
\* them short-lived.
MCRequests == {[command |-> "k1", request |-> "q1", expires |-> 2],
               [command |-> "k2", request |-> "q1", expires |-> 3],
               [command |-> "k3", request |-> "q2", expires |-> 2]}

Line(d, asset, n) == [account |-> "acc", asset |-> asset, direction |-> d, amount |-> n]
Both(asset, n) == <<Line("DEBIT", asset, n), Line("CREDIT", asset, n)>>

\* e1 twice with other lines, its key under another id, its id under another
\* key, an event balanced over two assets but in neither, and one whose line
\* names another account.
MCEvents == {[id |-> "e1", key |-> "b1", account |-> "acc", lines |-> Both("BTC", 1)],
             [id |-> "e1", key |-> "b1", account |-> "acc", lines |-> Both("BTC", 2)],
             [id |-> "e2", key |-> "b1", account |-> "acc", lines |-> Both("USD", 1)],
             [id |-> "e1", key |-> "b2", account |-> "acc", lines |-> Both("USD", 2)],
             [id |-> "e3", key |-> "b3", account |-> "acc",
              lines |-> <<Line("DEBIT", "BTC", 1), Line("CREDIT", "USD", 1)>>],
             [id |-> "e4", key |-> "b4", account |-> "other", lines |-> Both("BTC", 1)]}

\* Two runs in one millisecond, and a third under the first one's id.
MCRuns == {[id |-> "r1", at |-> 1], [id |-> "r2", at |-> 1], [id |-> "r1", at |-> 2]}
MCSnapshots == {[id |-> "s1", at |-> 1, content |-> 1], [id |-> "s1", at |-> 1, content |-> 2],
                [id |-> "s2", at |-> 1, content |-> 1], [id |-> "s2", at |-> 2, content |-> 1]}

\* Amounts around the tolerance, zero, none at all and a negative one.
MCHoldings == UNION {[D -> {0, 1, 2, 3}] : D \in {{"BTC"}, {}}}
              \cup {[a \in {"BTC", "USD"} |-> IF a = "BTC" THEN n ELSE 1 - n] : n \in 0 .. 2}

MCSymmetry ==
    Permutations(Cores) \cup Permutations(Results)
    \cup Permutations({i1, i2}) \cup Permutations({q1, q2})
=============================================================================
