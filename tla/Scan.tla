-------------------------------- MODULE Scan --------------------------------
(***************************************************************************)
(* The decision the observer takes about one pair on each scan tick, and   *)
(* what it rests on: the two live books, the instrument filters, the       *)
(* account metadata loaded on another tick of the same loop, and the clock *)
(* (crates/core/src/scan.rs, market.rs, instrument.rs, account/).          *)
(*                                                                         *)
(* Prices and quantities are decimals in the code and integers here.       *)
(* Profit is kept times Bps, so that nothing is divided: the code divides  *)
(* by 10000 and by the cost, which decides the same way.                   *)
(***************************************************************************)
EXTENDS Integers, Sequences, Sums

CONSTANTS
    Books,        \* the snapshots the venues' messages can add up to, valid or not
    Quantity,     \* the pair's quantity
    Strategy,     \* StrategyConfig, its bps fields in units of 1 / Bps
    Specs,        \* the venues' instrument filters
    Eligible,     \* the venues whose region and account the owner has confirmed
    Answers,      \* what a venue can answer to the two signed requests
    FallbackRate, \* fallback_taker_fee_rate, in units of 1 / Bps
    Bps,          \* BPS_DENOMINATOR
    MaxAge,       \* max_snapshot_age_ms
    MaxSkew,      \* max_pair_skew_ms
    MaxFeeAge,    \* max_fee_age_ms
    MaxTime       \* bound: the clock stops here

Venues == {"binance", "bybit"}
Other(v) == CHOOSE w \in Venues : w # v

\* What an API key may do besides reading.
Scopes == {"trade", "withdraw"}

-----------------------------------------------------------------------------
\* validate_static: what the instruments of a pair were held to before the loop.
ValidateStatic(spec) ==
    /\ spec.quantity_step > 0 /\ spec.min_quantity > 0 /\ spec.min_notional >= 0
    /\ Quantity >= spec.min_quantity
    /\ Quantity <= spec.max_quantity
    /\ Quantity % spec.quantity_step = 0

\* validate_non_negative of each field of the strategy, and a positive quantity.
ValidateConfig ==
    /\ Quantity \in Nat \ {0}
    /\ \A f \in DOMAIN Strategy : Strategy[f] \in Nat
    /\ DOMAIN Strategy = {"min_net_profit", "min_net_bps", "latency_loss_bps",
                          "risk_buffer_bps", "rebalance_cost", "other_direct_cost"}

\* OrderBookSnapshot: a side is a list of levels, of any price and any quantity.
Levels == Seq([price : Int, quantity : Int])
BookType == [bids : Levels, asks : Levels]

\* An answer: no environment variable, one of the two, an error of either request
\* (a rate outside [0, 1) is one), or what the key may do and the taker rates.
AnswerType ==
    [credentials : {"missing", "incomplete"}]
    \cup [credentials : {"set"}, error : {TRUE}]
    \cup [credentials : {"set"}, error : {FALSE}, reading : BOOLEAN,
          scopes : SUBSET Scopes, buy : 0 .. Bps - 1, sell : 0 .. Bps - 1]

\* Bybit has one rate for both sides.
AnswersOf(v) == {a \in Answers : v = "bybit" /\ "buy" \in DOMAIN a => a.buy = a.sell}

\* What the two venues can answer to one refresh.
Refreshes == {a \in [Venues -> Answers] : \A v \in Venues : a[v] \in AnswersOf(v)}

ScanAssumption ==
    /\ ValidateConfig
    /\ Books \subseteq BookType
    /\ Answers \subseteq AnswerType
    /\ \A v \in Venues : ValidateStatic(Specs[v])
    /\ Eligible \subseteq Venues
    /\ {Bps, MaxAge, MaxSkew, MaxFeeAge, MaxTime} \subseteq Nat \ {0}
    /\ FallbackRate \in 0 .. Bps - 1

VARIABLES
    now,      \* the host's clock
    feed,     \* per venue, the status the live feed last published
    answer,   \* per venue, the answer to the last refresh
    asked,    \* when that refresh was asked for
    phase,    \* "loop", "refresh" while the accounts are loaded, "failed"
    decision  \* what this step hands to the archive and the engine, if anything

vars == <<now, feed, answer, asked, phase, decision>>

\* No decision is being handed on.
NoDecision == [accepted |-> {}]

-----------------------------------------------------------------------------
(* market.rs *)

Least(a, b) == IF a <= b THEN a ELSE b

\* One turn of the loop of sweep: as much of the level as there still is to fill.
SweepLevel(s, level) ==
    LET taken == Least(s.remaining, level.quantity)
    IN  [quote |-> s.quote + taken * level.price, remaining |-> s.remaining - taken]

\* sweep: what the target costs or yields level by level, and what is left of it.
Sweep(levels, target) ==
    LET after[n \in 0 .. Len(levels)] ==
            IF n = 0 THEN [quote |-> 0, remaining |-> target]
            ELSE SweepLevel(after[n - 1], levels[n])
    IN  after[Len(levels)]

ValidLevels(levels, descending) ==
    /\ \A i \in DOMAIN levels : levels[i].price > 0 /\ levels[i].quantity > 0
    /\ \A i \in 1 .. Len(levels) - 1 :
          IF descending THEN levels[i].price > levels[i + 1].price
          ELSE levels[i].price < levels[i + 1].price

\* validate: neither side is empty, both are strictly sorted, they do not cross.
ValidBook(b) ==
    /\ b.bids # <<>> /\ b.asks # <<>>
    /\ ValidLevels(b.bids, TRUE)
    /\ ValidLevels(b.asks, FALSE)
    /\ b.bids[1].price < b.asks[1].price

-----------------------------------------------------------------------------
(* account/mod.rs *)

\* FeeSchedule::fallback
Fallback == [buy |-> FallbackRate, sell |-> FallbackRate, actual |-> FALSE, expires |-> 0]

\* The rejections a key that can do more than read brings with it.  Binance's
\* read_only is derived from the scopes; Bybit's is a field of the answer.
PermissionRejections(v, a) ==
    IF v = "binance"
    THEN (IF a.reading /\ a.scopes = {} THEN {} ELSE {"not_read_only"})
         \cup (IF a.scopes = {} THEN {} ELSE {"forbidden_scope"})
    ELSE (IF a.reading THEN {} ELSE {"not_read_only"})
         \cup (IF "withdraw" \in a.scopes THEN {"forbidden_scope"} ELSE {})

EligibilityRejections(v) == IF v \in Eligible THEN {} ELSE {"not_eligible"}

\* load_binance, load_bybit and failed_account_data: the account metadata an
\* answer asked for at that time gives.
AccountData(v, a, at) ==
    CASE a.credentials = "missing" ->
            [fee |-> Fallback, rejections |-> EligibilityRejections(v) \cup {"no_credentials"}]
      [] a.credentials = "incomplete" ->
            [fee |-> Fallback, rejections |-> {"refresh_failed"}]
      [] OTHER ->
            IF a.error
            THEN [fee |-> Fallback, rejections |-> {"refresh_failed"}]
            ELSE [fee |-> [buy |-> a.buy, sell |-> a.sell, actual |-> TRUE,
                           expires |-> at + MaxFeeAge],
                  rejections |-> EligibilityRejections(v) \cup PermissionRejections(v, a)]

\* The account metadata the scans use.
Account(v) == AccountData(v, answer[v], asked)

\* Mutant of AdmissionRejections: the age of the fee is not looked at.
AdmissionRejections_NoExpiry(v) ==
    Account(v).rejections \cup (IF Account(v).fee.actual THEN {} ELSE {"fee_unavailable"})

\* admission_rejections
AdmissionRejections(v) ==
    Account(v).rejections
    \cup (IF ~Account(v).fee.actual THEN {"fee_unavailable"} ELSE {})
    \cup (IF Account(v).fee.actual /\ now > Account(v).fee.expires THEN {"fee_expired"} ELSE {})

-----------------------------------------------------------------------------
(* scan.rs *)

Age(v) == now - feed[v].received
Skew == LET d == feed["binance"].received - feed["bybit"].received
        IN  IF d < 0 THEN -d ELSE d

FreshnessRejections ==
    (IF \E v \in Venues : Age(v) > MaxAge THEN {"stale_snapshot"} ELSE {})
    \cup (IF Skew > MaxSkew THEN {"skewed_pair"} ELSE {})

\* order_rejection_reasons: the quantity passed validate_static, the notional
\* depends on the book.
OrderRejections(v, notional) ==
    (IF notional < Specs[v].min_notional THEN {"below_min_notional"} ELSE {})
    \cup (IF notional > Specs[v].max_notional THEN {"above_max_notional"} ELSE {})

\* evaluate_direction: buying at one venue and selling at the other, times Bps.
Cost(buy) == Sweep(feed[buy].book.asks, Quantity)
Proceeds(buy) == Sweep(feed[Other(buy)].book.bids, Quantity)

\* Mutant of Fees: the venues' rates are swapped.
Fees_Swapped(buy, cost, proceeds) ==
    cost * Account(Other(buy)).fee.buy + proceeds * Account(buy).fee.sell

Fees(buy, cost, proceeds) ==
    cost * Account(buy).fee.buy + proceeds * Account(Other(buy)).fee.sell

AdmissionProfit(buy, cost, proceeds) ==
    LET expected_net_profit ==
            Bps * (proceeds - cost) - Fees(buy, cost, proceeds)
            - cost * Strategy.latency_loss_bps
            - Bps * (Strategy.rebalance_cost + Strategy.other_direct_cost)
    IN  expected_net_profit - cost * Strategy.risk_buffer_bps

RejectionReasons(buy) ==
    LET cost == Cost(buy).quote
        proceeds == Proceeds(buy).quote
        profit == AdmissionProfit(buy, cost, proceeds)
    IN  FreshnessRejections
        \cup (UNION {AdmissionRejections(v) : v \in Venues})
        \cup OrderRejections(buy, cost)
        \cup OrderRejections(Other(buy), proceeds)
        \cup (IF profit < Bps * Strategy.min_net_profit THEN {"profit_below_minimum"} ELSE {})
        \cup (IF profit < cost * Strategy.min_net_bps THEN {"bps_below_minimum"} ELSE {})

-----------------------------------------------------------------------------
Down == [state |-> "down"]
Status == {Down} \cup [state : {"valid"}, book : Books, received : 0 .. MaxTime]

\* The loop starts when both feeds have been VALID and the accounts were asked for.
Init ==
    /\ now = 0
    /\ feed \in [Venues -> [state : {"valid"}, book : {b \in Books : ValidBook(b)},
                           received : {0}]]
    /\ answer \in Refreshes
    /\ asked = 0
    /\ phase = "loop"
    /\ decision = NoDecision

Tick ==
    /\ now < MaxTime
    /\ now' = now + 1
    /\ decision' = NoDecision
    /\ UNCHANGED <<feed, answer, asked, phase>>

\* A feed publishes a snapshot (LocalOrderBook has validated it) or withdraws it.
Publish(v, s) ==
    /\ s = Down \/ (s.state = "valid" /\ s.received = now /\ ValidBook(s.book))
    /\ feed' = [feed EXCEPT ![v] = s]
    /\ decision' = NoDecision
    /\ UNCHANGED <<now, answer, asked, phase>>

\* The account tick: the loop waits for both venues and scans nothing meanwhile.
AccountTick ==
    /\ phase = "loop"
    /\ phase' = "refresh"
    /\ asked' = now
    /\ decision' = NoDecision
    /\ UNCHANGED <<now, feed, answer>>

AccountsLoaded(a) ==
    /\ phase = "refresh"
    /\ answer' = a
    /\ phase' = "loop"
    /\ decision' = NoDecision
    /\ UNCHANGED <<now, feed, asked>>

\* The scan tick with a feed that is not VALID: a health event, no decision.
Skip ==
    /\ phase = "loop"
    /\ \E v \in Venues : feed[v].state # "valid"
    /\ decision' = NoDecision
    /\ UNCHANGED <<now, feed, answer, asked, phase>>

\* scan_pair looks at both directions, named by the venue that buys.
Accepted == {v \in Venues : RejectionReasons(v) = {}}

\* What the scan has read and what it has found.
DecisionEvent ==
    [at |-> now, asked |-> asked, feed |-> feed, answer |-> answer, accepted |-> Accepted]

\* The scan tick with both books: one decision per direction.
Decide ==
    /\ phase = "loop"
    /\ \A v \in Venues : feed[v].state = "valid"
    /\ \A v \in Venues : Cost(v).remaining = 0 /\ Proceeds(v).remaining = 0
    /\ decision' = DecisionEvent
    /\ UNCHANGED <<now, feed, answer, asked, phase>>

\* A side of a book is thinner than the quantity: sweep fails, the error leaves
\* the loop, and with it the observation of every pair.
TooThin ==
    /\ phase = "loop"
    /\ \A v \in Venues : feed[v].state = "valid"
    /\ \E v \in Venues : Cost(v).remaining > 0 \/ Proceeds(v).remaining > 0
    /\ phase' = "failed"
    /\ decision' = NoDecision
    /\ UNCHANGED <<now, feed, answer, asked>>

Next ==
    \/ Tick
    \/ \E v \in Venues, s \in Status : Publish(v, s)
    \/ AccountTick
    \/ \E a \in Refreshes : AccountsLoaded(a)
    \/ Skip
    \/ Decide
    \/ TooThin

Spec == Init /\ [][Next]_vars

-----------------------------------------------------------------------------
\* What the levels before the i-th hold.
Before(levels, i) == SumOver([j \in DOMAIN levels |-> levels[j].quantity], 1 .. i - 1)

\* The price the k-th unit of a quantity fetches from a side of a book.
UnitPrice(levels, k) ==
    LET i == CHOOSE j \in DOMAIN levels :
                Before(levels, j) < k /\ k <= Before(levels, j) + levels[j].quantity
    IN  levels[i].price

\* What the units of a quantity are worth, each less or plus the bps given.
Worth(levels, bps) ==
    SumOver([k \in 1 .. Quantity |-> UnitPrice(levels, k) * (Bps + bps)], 1 .. Quantity)

\* An opportunity that was accepted pays: bought and sold unit by unit from the
\* books it was decided on, each leg with the rate its own venue charges for that
\* side, and with every cost of the strategy set aside, it still earns the
\* minimum profit and the minimum rate on what was spent.
AcceptedPaysOff ==
    decision # NoDecision =>
        \A buy \in decision.accepted :
            LET sell == Other(buy)
                d == decision
                asks == d.feed[buy].book.asks
                spent == Worth(asks, 0)
                net == Worth(d.feed[sell].book.bids, -d.answer[sell].sell)
                       - Worth(asks, d.answer[buy].buy + Strategy.latency_loss_bps
                                     + Strategy.risk_buffer_bps)
                       - Bps * (Strategy.rebalance_cost + Strategy.other_direct_cost)
            IN  /\ net >= Bps * Strategy.min_net_profit
                /\ Bps * net >= spent * Strategy.min_net_bps

\* Buying here and selling there, and the reverse, are never both accepted: a
\* valid book is not crossed and no cost of the strategy is negative.
OneDirection == decision # NoDecision => decision.accepted # Venues

\* What is accepted was admitted: when it was decided both books were fresh and of
\* about the same time, and both venues had answered, no longer ago than the fee's
\* age, with an actual rate and a read-only key that cannot withdraw, for an owner
\* who is eligible.
AcceptedIsAdmitted ==
    (decision # NoDecision /\ decision.accepted # {}) =>
        /\ \A v \in Venues :
             /\ decision.feed[v].received + MaxAge >= decision.at
             /\ decision.answer[v].credentials = "set"
             /\ ~decision.answer[v].error
             /\ decision.answer[v].reading
             /\ "withdraw" \notin decision.answer[v].scopes
             /\ v \in Eligible
        /\ \A v, w \in Venues : decision.feed[v].received <= decision.feed[w].received + MaxSkew
        /\ decision.asked + MaxFeeAge >= decision.at

\* Every variable stays in its range.
TypeOK ==
    /\ now \in 0 .. MaxTime
    /\ feed \in [Venues -> Status]
    /\ asked \in 0 .. MaxTime
    /\ phase \in {"loop", "refresh", "failed"}
=============================================================================
