---------------------------- MODULE SimulationRun ----------------------------
(***************************************************************************)
(* run_simulation_run: one F-02 run from its funds to its report           *)
(* (crates/core/src/simulation.rs).                                        *)
(*                                                                         *)
(* A run drives the three cores one after the other, each call of theirs   *)
(* being a transaction: one step here.  An error of any step ends the run  *)
(* with whatever it has written so far.  Runs of the continuous engine and *)
(* of the smoke command proceed side by side, and every identifier of a    *)
(* run is made from the millisecond it starts in: the run id and the       *)
(* intents from the stamp alone, the account and the plan from the stamp   *)
(* and the direction.  The orders are those of OrderProtocol, which        *)
(* OrderFacts implements; ReservationLedger's part is reduced to funds     *)
(* that suffice or do not, and the decision to what CompletedIsMatched     *)
(* lets ExecutionFacts decide.                                             *)
(***************************************************************************)
EXTENDS Integers

CONSTANTS
    Runs,
    Contents, \* what else runs differ in: their venues, assets and quantities
    Target,   \* the quantity of each leg
    MaxClock, \* bound: the milliseconds
    None

Legs == {"buy", "sell"}
Stamps == 1 .. MaxClock
Keys == [stamp : Stamps, dir : {"a", "b"}] \* of an account and of its plan
Intents == [stamp : Stamps, leg : Legs]
Trades == [venue : Legs, order : Intents, id : {"trade"}, quantity : 1 .. Target]
States == {"PLANNED", "COMPLETED", "COMPENSATION_PLANNED", "MANUAL_REQUIRED"}

RunAssumption ==
    /\ Target \in Nat \ {0}
    /\ MaxClock \in Nat \ {0}
    /\ None \notin States

VARIABLES
    clock,
    run,     \* the local state of each run
    funds,   \* whether the balances of an account suffice for a content, once set
    plans,   \* the reserved plans
    facts,   \* the execution state of each plan
    submission, cancel, order, trades, \* of OrderProtocol
    reports  \* simulation_runs

orders == <<submission, cancel, order, trades>>
vars == <<clock, run, funds, plans, facts, orders, reports>>

Orders == INSTANCE OrderProtocol WITH
    VenueOf <- [i \in Intents |-> i.leg], OrderIds <- Intents

KeyOf(r) == [stamp |-> run[r].stamp, dir |-> run[r].dir]
IntentOf(r, l) == [stamp |-> run[r].stamp, leg |-> l]
At(r, pc) == run[r].pc = pc
Go(r, pc) == run' = [run EXCEPT ![r].pc = pc]

-----------------------------------------------------------------------------
Init ==
    /\ clock = 1
    /\ run = [r \in Runs |-> [pc |-> "off", stamp |-> 1, dir |-> "a",
                              content |-> None,
                              accepted |-> {}, fill |-> [l \in Legs |-> 0]]]
    /\ funds = [k \in Keys |-> [c \in Contents |-> None]]
    /\ plans = {}
    /\ facts = [k \in Keys |-> None]
    /\ Orders!Init
    /\ reports = {}

Tick ==
    /\ clock < MaxClock
    /\ clock' = clock + 1
    /\ UNCHANGED <<run, funds, plans, facts, orders, reports>>

Start(r, d, c) ==
    /\ At(r, "off")
    /\ run' = [run EXCEPT ![r].pc = "fund", ![r].stamp = clock, ![r].dir = d, ![r].content = c]
    /\ UNCHANGED <<clock, funds, plans, facts, orders, reports>>

Known(r) == {p \in plans : p.key = KeyOf(r)}
SameKnown(r) == {p \in Known(r) : p.content = run[r].content}

\* set_paper_balance for both legs.  It is refused while a plan has a reservation
\* on the balance: then the run can only fail.
Fund(r, enough) ==
    /\ At(r, "fund")
    /\ SameKnown(r) = {}
    /\ funds' = [funds EXCEPT ![KeyOf(r)][run[r].content] = enough]
    /\ Go(r, "precheck")
    /\ UNCHANGED <<clock, plans, facts, orders, reports>>

Suffice(r) == funds[KeyOf(r)][run[r].content] = TRUE

\* The two balances are read before anything is reserved.  What another run has
\* reserved since is missing from them.
Precheck(r) ==
    /\ At(r, "precheck")
    /\ \/ Suffice(r) /\ Go(r, "reserve")
       \/ (~Suffice(r) \/ SameKnown(r) # {}) /\ Go(r, "reject")
    /\ UNCHANGED <<clock, funds, plans, facts, orders, reports>>

\* reserve_plan: the plan, its intents and its reservations enter the database
\* together.  Intents of another plan's stamp make it fail.
Reserve(r) ==
    /\ At(r, "reserve")
    /\ Known(r) = {}
    /\ Suffice(r)
    /\ \A p \in plans : p.key.stamp # run[r].stamp
    /\ plans' = plans \cup {[key |-> KeyOf(r), content |-> run[r].content, by |-> r]}
    /\ Go(r, "initialize")
    /\ UNCHANGED <<clock, funds, facts, orders, reports>>

\* Mutant of Replay: the answer's idempotent_replay is not looked at.
Replay_Continues(r) ==
    /\ At(r, "reserve")
    /\ SameKnown(r) # {}
    /\ Go(r, "initialize")
    /\ UNCHANGED <<clock, funds, plans, facts, orders, reports>>

\* reserve_plan finds the same request: the run ends with a report of that.
Replay(r) ==
    /\ At(r, "reserve")
    /\ SameKnown(r) # {}
    /\ Go(r, "replay")
    /\ UNCHANGED <<clock, funds, plans, facts, orders, reports>>

\* ExecutionCore::initialize_plan
Initialize(r) ==
    /\ At(r, "initialize")
    /\ facts' = [facts EXCEPT ![KeyOf(r)] = IF @ = None THEN "PLANNED" ELSE @]
    /\ Go(r, "submit_buy")
    /\ UNCHANGED <<clock, funds, plans, orders, reports>>

-----------------------------------------------------------------------------
\* submit_and_confirm, leg by leg, and the fills

SubmitStep == [buy |-> "submit_buy", sell |-> "submit_sell"]
AnswerStep == [buy |-> "answer_buy", sell |-> "answer_sell"]
QueryStep == [buy |-> "query_buy", sell |-> "query_sell"]
BookStep == [buy |-> "book_buy", sell |-> "book_sell"]
AfterConfirm == [buy |-> "submit_sell", sell |-> "match"]
AfterBook == [buy |-> "book_sell", sell |-> "evaluate"]

\* ensure_intent and submit_started
Submit(r, l) ==
    /\ At(r, SubmitStep[l])
    /\ Orders!Submit(IntentOf(r, l))
    /\ Go(r, AnswerStep[l])
    /\ UNCHANGED <<clock, funds, plans, facts, reports>>

\* The venue's answer, or the query after it was lost, binds the order.
Confirm(r, l) ==
    /\ At(r, AnswerStep[l]) \/ At(r, QueryStep[l])
    /\ Orders!Bind(IntentOf(r, l), IntentOf(r, l))
    /\ run' = [run EXCEPT ![r].pc = AfterConfirm[l], ![r].accepted = @ \cup {l}]
    /\ UNCHANGED <<clock, funds, plans, facts, reports>>

LoseAnswer(r, l) ==
    /\ At(r, AnswerStep[l])
    /\ Orders!LoseAnswer(IntentOf(r, l))
    /\ Go(r, QueryStep[l])
    /\ UNCHANGED <<clock, funds, plans, facts, reports>>

\* query_result(NotFound) leaves the order unknown; the run goes on.
NotFound(r, l) ==
    /\ At(r, QueryStep[l])
    /\ Go(r, AfterConfirm[l])
    /\ UNCHANGED <<clock, funds, plans, facts, orders, reports>>

\* simulate_leg for both legs, whatever became of their orders.
Match(r, buy, sell) ==
    /\ At(r, "match")
    /\ run' = [run EXCEPT ![r].pc = "book_buy", ![r].fill = [buy |-> buy, sell |-> sell]]
    /\ UNCHANGED <<clock, funds, plans, facts, orders, reports>>

TradeOf(r, l, quantity) ==
    [venue |-> l, order |-> IntentOf(r, l), id |-> "trade", quantity |-> quantity]

RecordTrade(r, l) ==
    /\ At(r, BookStep[l])
    /\ l \in run[r].accepted
    /\ run[r].fill[l] > 0
    /\ Orders!Book(IntentOf(r, l), TradeOf(r, l, run[r].fill[l]))
    /\ Go(r, AfterBook[l])
    /\ UNCHANGED <<clock, funds, plans, facts, reports>>

\* No fill, or an order that is unknown: a warning at most.
SkipTrade(r, l) ==
    /\ At(r, BookStep[l])
    /\ l \notin run[r].accepted \/ run[r].fill[l] = 0
    /\ Go(r, AfterBook[l])
    /\ UNCHANGED <<clock, funds, plans, facts, orders, reports>>

-----------------------------------------------------------------------------
\* The evaluation and the report

\* ExecutionCore::evaluate with the simulated fills.
Evaluate(r, state) ==
    /\ At(r, "evaluate")
    /\ facts[KeyOf(r)] \in {"PLANNED", "COMPENSATION_PLANNED"}
    /\ IF run[r].fill["buy"] = run[r].fill["sell"] THEN state = "COMPLETED"
       ELSE state \in {"COMPENSATION_PLANNED", "MANUAL_REQUIRED"}
    /\ facts' = [facts EXCEPT ![KeyOf(r)] = state]
    /\ Go(r, "persist")
    /\ UNCHANGED <<clock, funds, plans, orders, reports>>

\* persist_simulation_run: the first report of a run id stays.
Persist(r) ==
    /\ run[r].pc \in {"reject", "replay", "persist"}
    /\ reports' = IF \E q \in reports : q.key.stamp = run[r].stamp THEN reports
                  ELSE reports \cup
                       {[by |-> r, key |-> KeyOf(r), kind |-> run[r].pc, fill |-> run[r].fill,
                         state |-> IF At(r, "persist") THEN facts[KeyOf(r)] ELSE "PLANNED"]}
    /\ Go(r, "done")
    /\ UNCHANGED <<clock, funds, plans, facts, orders>>

\* A call fails, the worker is aborted or the process dies.
Fail(r) ==
    /\ run[r].pc \notin {"off", "done", "failed"}
    /\ Go(r, "failed")
    /\ UNCHANGED <<clock, funds, plans, facts, orders, reports>>

Next ==
    \/ Tick
    \/ \E r \in Runs :
          \/ \E d \in {"a", "b"}, c \in Contents : Start(r, d, c)
          \/ \E enough \in BOOLEAN : Fund(r, enough)
          \/ Precheck(r) \/ Reserve(r) \/ Replay(r) \/ Initialize(r)
          \/ \E l \in Legs : Submit(r, l) \/ Confirm(r, l) \/ LoseAnswer(r, l)
                             \/ NotFound(r, l) \/ RecordTrade(r, l) \/ SkipTrade(r, l)
          \/ \E buy, sell \in 0 .. Target : Match(r, buy, sell)
          \/ \E state \in States : Evaluate(r, state)
          \/ Persist(r) \/ Fail(r)

Spec == Init /\ [][Next]_vars

-----------------------------------------------------------------------------
Steps ==
    {"off", "fund", "precheck", "reject", "reserve", "replay", "initialize", "match",
     "evaluate", "persist", "done", "failed"}
    \cup {f[l] : f \in {SubmitStep, AnswerStep, QueryStep, BookStep}, l \in Legs}

\* Every variable stays in its range.
TypeOK ==
    /\ clock \in Stamps
    /\ run \in [Runs -> [pc : Steps, stamp : Stamps, dir : {"a", "b"},
                         content : Contents \cup {None}, accepted : SUBSET Legs,
                         fill : [Legs -> 0 .. Target]]]
    /\ funds \in [Keys -> [Contents -> BOOLEAN \cup {None}]]
    /\ plans \subseteq [key : Keys, content : Contents, by : Runs]
    /\ facts \in [Keys -> States \cup {None}]
    /\ submission \in [Intents -> {"NOT_SENT", "IN_FLIGHT", "UNKNOWN", "ACCEPTED"}]
    /\ cancel \in [Intents -> {"NONE"}]
    /\ order \in [Intents -> Intents \cup {None}]
    /\ trades \subseteq [intent : Intents, trade : Trades]
    /\ reports \subseteq [by : Runs, key : Keys, kind : {"reject", "replay", "persist"},
                          fill : [Legs -> 0 .. Target], state : States]

\* The steps in which a run writes to the plan it has reserved.
Driving(r) == run[r].pc \notin {"off", "fund", "precheck", "reject", "reserve", "replay",
                                "done", "failed"}

\* Two runs never drive the same plan or the same orders, even when their
\* identifiers collide: a plan is driven by the run that reserved it, and by that
\* one only as long as it has not failed.
OneDriver ==
    \A r, q \in Runs : (r # q /\ Driving(r) /\ Driving(q)) =>
        run[r].stamp # run[q].stamp

\* Wherever a run fails, what it leaves can be explained: a trade has its order, an
\* order was submitted for a plan whose limits are fixed, and a plan is evaluated
\* only after both its orders were sent and answered or queried.
FactsInOrder ==
    /\ \A t \in trades : order[t.intent] = t.trade.order
    /\ \A i \in Intents : submission[i] # "NOT_SENT" =>
          \E p \in plans : p.key.stamp = i.stamp /\ facts[p.key] # None
    /\ \A k \in Keys : facts[k] # None =>
          /\ \E p \in plans : p.key = k
          /\ facts[k] # "PLANNED" => \A l \in Legs :
                submission[[stamp |-> k.stamp, leg |-> l]] \in {"ACCEPTED", "UNKNOWN"}

Booked(k, l) == {t.trade.quantity : t \in {u \in trades : u.intent = [stamp |-> k.stamp, leg |-> l]}}

\* F02-R06 to R08: what a report says can be read back from the facts.  A full
\* report has the plan, the state and, for each order known to be accepted, the
\* fill of the facts; a rejected or replayed one comes from a run that has
\* reserved nothing.
ReportsMatchFacts ==
    \A q \in reports :
        IF q.kind = "persist"
        THEN /\ \E p \in plans : p.key = q.key /\ p.by = q.by
             /\ facts[q.key] = q.state
             /\ \A l \in Legs : submission[[stamp |-> q.key.stamp, leg |-> l]] = "ACCEPTED" =>
                   Booked(q.key, l) = (IF q.fill[l] > 0 THEN {q.fill[l]} ELSE {})
        ELSE \A p \in plans : p.by # q.by

\* B-03 requirements: an unknown state is not passed off as matched.  A completed
\* plan has the same fills booked on both its legs.
CompletedIsBooked ==
    \A k \in Keys : facts[k] = "COMPLETED" => Booked(k, "buy") = Booked(k, "sell")

\* F-02 design, section 2 and D5: every run has names of its own, made of the
\* stamp and the direction, so every run that ends has its report.
DoneIsReported == \A r \in Runs : At(r, "done") => \E q \in reports : q.by = r
=============================================================================
