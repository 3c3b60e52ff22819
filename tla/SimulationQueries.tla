------------------------- MODULE SimulationQueries -------------------------
(***************************************************************************)
(* The dashboard's queries (crates/core/src/simulation_query.rs) beside the *)
(* simulated runs they report on (simulation.rs).                           *)
(*                                                                         *)
(* A query is one read-only transaction of several statements.  The         *)
(* transaction is READ COMMITTED: each statement sees what was committed    *)
(* when it began, so the parts of one answer are of different moments.      *)
(* A run commits its plan, its trades and its decision, then its row of     *)
(* simulation_runs; the row bears the time the run began, so that rows may  *)
(* be inserted behind others.  Of the balances, those of one run are here,  *)
(* not those of the overview.                                               *)
(***************************************************************************)
EXTENDS Integers, Sequences, SequencesExt, FiniteSets

CONSTANTS
    MaxRuns,    \* bound: runs, numbered by the time they begin
    PageSize,   \* limit of a page of runs
    Day,        \* DAY_MS, in runs
    Dense,      \* below so many points a ridge bucket is sparse (8)
    Funds,      \* what a run is given, in legs
    None

VARIABLES
    facts,      \* of each run: [step, filled, booked, event]: how many of its two legs the
                \* simulation filled, and how many of them are booked as trades
    rows,       \* simulation_runs, the runs in it with what they say of themselves
    query       \* the query in progress: its kind, its next statement, what it has read

vars == <<facts, rows, query>>

QueriesAssumption ==
    /\ {MaxRuns, PageSize, Dense, Funds} \subseteq Nat
    /\ Day \in Nat \ {0}
    /\ None \notin {"COMPLETED", "COMPENSATION_DECIDED"}

Runs == 1 .. MaxRuns
Idle == [kind |-> "none"]

Init ==
    /\ facts = [r \in Runs |-> [step |-> "off", filled |-> 0, booked |-> 0, event |-> None]]
    /\ rows = {}
    /\ query = Idle

-----------------------------------------------------------------------------
(* A run; an error of any of its steps leaves it where it is.               *)

\* Runs of the engine and of the smoke command begin side by side.
Begin(r) ==
    /\ facts[r].step = "off" /\ \A s \in 1 .. r - 1 : facts[s].step # "off"
    /\ facts' = [facts EXCEPT ![r].step = "begun"]
    /\ UNCHANGED <<rows, query>>

Reserve(r) ==
    /\ facts[r].step = "begun"
    /\ facts' = [facts EXCEPT ![r].step = "reserved"]
    /\ UNCHANGED <<rows, query>>

\* A leg that was filled is booked only if its order was accepted.
Book(r) ==
    /\ facts[r].step = "reserved"
    /\ \E filled \in 0 .. 2 : \E booked \in 0 .. filled :
          facts' = [facts EXCEPT ![r].step = "booked", ![r].filled = filled,
                                 ![r].booked = booked]
    /\ UNCHANGED <<rows, query>>

\* A run of which one leg was filled stands for all whose legs differ.
Decide(r) ==
    /\ facts[r].step = "booked"
    /\ facts' = [facts EXCEPT ![r].step = "decided",
                              ![r].event = IF facts[r].filled # 1 THEN "COMPLETED"
                                           ELSE "COMPENSATION_DECIDED"]
    /\ UNCHANGED <<rows, query>>

Row(r, scenario) == [run |-> r, scenario |-> scenario, filled |-> facts[r].filled]

\* Mutant of Persist: the row is written as soon as the plan is reserved.
Persist_First(r) ==
    /\ facts[r].step \in {"reserved", "decided"} /\ \A row \in rows : row.run # r
    /\ rows' = rows \cup {Row(r, "DONE")}
    /\ UNCHANGED <<facts, query>>

\* persist_simulation_run: of a run that lacks the funds, or of one that has decided.
Persist(r) ==
    /\ facts[r].step \in {"begun", "decided"}
    /\ rows' = rows \cup {Row(r, IF facts[r].step = "begun" THEN "REJECTED" ELSE "DONE")}
    /\ facts' = [facts EXCEPT ![r].step = "done"]
    /\ UNCHANGED query

\* settlement_points: what the run was given, and what its fills leave of it.
SettlementPoints(row) ==
    LET left == IF row.filled < Funds THEN Funds - row.filled ELSE 0
    IN  [fund |-> Funds, filled |-> left, evaluated |-> left]

\* The time of each snapshot, relative to the run's begin: the fill bears the time of
\* the books, which are older, plus latencies that were drawn; the evaluation the clock's.
Moments == [fund : {1}, filled : 0 .. 2, evaluated : 1 .. 2]

\* The snapshots stored after the row, one by one.  One that fails, or meets another of
\* its time, is missing but for a warning; and they may not all be there yet.
StoredSnapshots(row) ==
    UNION {{{[at |-> at[n], total |-> SettlementPoints(row)[n]] : n \in there} :
               at \in {f \in Moments : \A m, n \in there : f[m] = f[n] => m = n}} :
           there \in SUBSET {"fund", "filled", "evaluated"}}

-----------------------------------------------------------------------------
(* The statements.                                                         *)

Success(R) == {row \in R : row.scenario # "REJECTED"}

\* ORDER BY: the members of a finite set in the order of their keys.
Ordered(S, key) ==
    CHOOSE s \in [1 .. Cardinality(S) -> S] :
        /\ ToSet(s) = S
        /\ \A i, j \in DOMAIN s : i < j => key[s[i]] < key[s[j]]

\* ORDER BY executed_at_ms DESC.
ByTime(R) == Ordered(R, [row \in R |-> -row.run])

\* LIMIT and OFFSET.
Part(s, offset, limit) == SubSeq(s, offset + 1, IF offset + limit < Len(s) THEN offset + limit
                                                                           ELSE Len(s))

Reserved == {r \in Runs : facts[r].step \notin {"off", "begun"} /\ \A row \in rows :
                            row.run = r => row.scenario # "REJECTED"}

\* One turn of the loop of merge_sparse_buckets: a sparse bucket joins the one before
\* it, if there is one.
MergeBucket(out, nets) ==
    IF Len(nets) < Dense /\ out # <<>>
    THEN [out EXCEPT ![Len(out)] = @ \o nets]
    ELSE Append(out, nets)

MergeSparse(buckets) ==
    LET out[n \in 0 .. Len(buckets)] ==
            IF n = 0 THEN <<>> ELSE MergeBucket(out[n - 1], buckets[n])
    IN  out[Len(buckets)]

\* load_ridge: the runs of a day make a bucket; the days are in order.
DayOf(row) == row.run \div Day
Days(R) == Ordered({DayOf(row) : row \in R}, [d \in {DayOf(row) : row \in R} |-> d])
Bucket(R, d) ==
    LET there == {row \in R : DayOf(row) = d}
    IN  Ordered(there, [row \in there |-> row.run])

Ridge(R) == MergeSparse([i \in DOMAIN Days(R) |-> Bucket(R, Days(R)[i])])

Statement(kind, at, result, next) ==
    /\ query.kind = kind /\ query.at = at
    /\ query' = [result EXCEPT !.at = next]
    /\ UNCHANGED <<facts, rows>>

-----------------------------------------------------------------------------
(* get_simulation_overview.                                                *)

Overview ==
    /\ query = Idle
    /\ query' = [kind |-> "overview", at |-> "totals", total |-> 0, success |-> 0, scenarios |-> 0,
                 recent |-> <<>>, curve |-> 0, ridge |-> <<>>,
                 decided |-> 0, evaluated |-> 0, reserved |-> 0, filled |-> 0]
    /\ UNCHANGED <<facts, rows>>

ReadTotals ==
    Statement("overview", "totals",
        [query EXCEPT !.total = Cardinality(rows), !.success = Cardinality(Success(rows))],
        "scenarios")

ReadScenarios ==
    Statement("overview", "scenarios", [query EXCEPT !.scenarios = Cardinality(rows)], "recent")

ReadRecent ==
    Statement("overview", "recent", [query EXCEPT !.recent = Part(ByTime(rows), 0, PageSize)],
              "curve")

\* The cumulative curve ends in the sum over all rows.
ReadCurve ==
    Statement("overview", "curve", [query EXCEPT !.curve = Cardinality(rows)], "ridge")

ReadRidge ==
    Statement("overview", "ridge", [query EXCEPT !.ridge = Ridge(Success(rows))], "events")

\* load_flow_aggregate: first the events, then the runs and the plans.
ReadEvents ==
    Statement("overview", "events",
        [query EXCEPT !.decided = Cardinality({r \in Runs : facts[r].event # None})], "flow")

ReadFlow ==
    Statement("overview", "flow",
        [query EXCEPT !.evaluated = Cardinality(Success(rows)),
                      !.reserved = Cardinality(Reserved),
                      !.filled = Cardinality({row \in rows : row.filled = 2})],
        "answered")

-----------------------------------------------------------------------------
(* get_simulation_run_detail and get_simulation_runs.                      *)

Detail ==
    /\ query = Idle
    /\ \E row \in rows :
          query' = [kind |-> "detail", at |-> "intents", row |-> row, trades |-> 0,
                    event |-> None, reserved |-> FALSE, balances |-> <<>>]
    /\ UNCHANGED <<facts, rows>>

ReadIntents ==
    Statement("detail", "intents",
        [query EXCEPT !.reserved = query.row.run \in Reserved], "trades")

ReadTrades ==
    Statement("detail", "trades",
        [query EXCEPT !.trades = facts[query.row.run].booked], "events")

ReadRunEvents ==
    Statement("detail", "events", [query EXCEPT !.event = facts[query.row.run].event], "balances")

\* ORDER BY observed_at_ms.
ReadBalances ==
    /\ query.kind = "detail" /\ query.at = "balances"
    /\ \E stored \in StoredSnapshots(query.row) :
        LET inTime == Ordered(stored, [snapshot \in stored |-> snapshot.at])
        IN  Statement("detail", "balances",
                      [query EXCEPT !.balances = [i \in DOMAIN inTime |-> inTime[i].total]],
                      "answered")

\* The list of runs is turned over page by page, each page a query of its own.
List ==
    /\ query = Idle
    /\ query' = [kind |-> "list", at |-> "count", there |-> rows, shown |-> {}, offset |-> 0,
                 total |-> 0, page |-> <<>>]
    /\ UNCHANGED <<facts, rows>>

CountRuns ==
    Statement("list", "count", [query EXCEPT !.total = Cardinality(rows)], "page")

ReadPage ==
    LET page == Part(ByTime(rows), query.offset, PageSize)
    IN  Statement("list", "page",
                  [query EXCEPT !.page = page, !.shown = @ \cup ToSet(page)],
                  IF Len(page) < PageSize THEN "answered" ELSE "turn")

TurnPage ==
    Statement("list", "turn", [query EXCEPT !.offset = @ + PageSize], "count")

Answer ==
    /\ query # Idle /\ query.at = "answered"
    /\ query' = Idle
    /\ UNCHANGED <<facts, rows>>

Next ==
    \/ \E r \in Runs : Begin(r) \/ Reserve(r) \/ Book(r) \/ Decide(r) \/ Persist(r)
    \/ Overview \/ ReadTotals \/ ReadScenarios \/ ReadRecent \/ ReadCurve
    \/ ReadRidge \/ ReadEvents \/ ReadFlow
    \/ Detail \/ ReadIntents \/ ReadTrades \/ ReadRunEvents \/ ReadBalances
    \/ List \/ CountRuns \/ ReadPage \/ TurnPage
    \/ Answer

Spec == Init /\ [][Next]_vars

-----------------------------------------------------------------------------
(* What an answer says, though its parts are of different moments.          *)

Answered(kind) == query.kind = kind /\ query.at = "answered"

\* A run that is shown can be explained: its plan and its decision are there, with the
\* quantities the row states, no trade the row does not state, and no balance that is
\* negative or that the stated fills would not leave.
DetailExplained ==
    Answered("detail") /\ query.row.scenario # "REJECTED" =>
        /\ query.reserved
        /\ query.trades <= query.row.filled
        /\ query.event # None
        /\ query.event = "COMPLETED" => query.row.filled # 1
        /\ \A i \in DOMAIN query.balances :
              query.balances[i] >= 0 /\ query.balances[i] >= Funds - query.row.filled

\* Of two parts that count the same rows, the later one has at least as many; and what
\* has been decided had been reserved.
OverviewOnlyGrows ==
    Answered("overview") =>
        /\ query.total <= query.scenarios /\ query.scenarios <= query.curve
        /\ query.success <= Cardinality(UNION {ToSet(b) : b \in ToSet(query.ridge)})
        /\ query.success <= query.evaluated
        /\ Len(query.recent) >= IF query.total < PageSize THEN query.total ELSE PageSize
        /\ query.decided <= query.reserved
        /\ query.filled <= query.evaluated

\* No ridge bucket but the oldest is sparse, and the runs are in time order, within each
\* bucket and from one to the next.
Rises(buckets) ==
    \A i, j \in DOMAIN buckets : \A k \in DOMAIN buckets[i], m \in DOMAIN buckets[j] :
        (i < j \/ (i = j /\ k < m)) => buckets[i][k].run < buckets[j][m].run

RidgeIsWhole ==
    Answered("overview") =>
        /\ \A i \in 2 .. Len(query.ridge) : Len(query.ridge[i]) >= Dense
        /\ Rises(query.ridge)

\* Turning the pages shows every run that was there at the beginning, whatever rows are
\* inserted before, between or behind the pages already shown.
PagesShowAll == Answered("list") => query.there \subseteq query.shown

AnswersHold == DetailExplained /\ OverviewOnlyGrows /\ RidgeIsWhole /\ PagesShowAll

\* Not so: what a row states is booked (a leg whose order stayed UNKNOWN is not).
StatedIsBooked == Answered("detail") => query.trades = query.row.filled

\* Not so: the balances shown of a run fall, from its funds to its evaluation (the fill
\* may bear an earlier time than the funds).
BalancesFall ==
    Answered("detail") =>
        \A i, j \in DOMAIN query.balances : i < j => query.balances[i] >= query.balances[j]

\* Not so: the list shows no run twice.
PagesShowOnce ==
    query.kind = "list" /\ query.at \in {"turn", "answered"} =>
        query.offset + Len(query.page) = Cardinality(query.shown)

\* Not so: the steps of the flow narrow, from evaluation to completion (a run that
\* failed before its row was written is decided and not evaluated).
FlowNarrows == Answered("overview") => query.decided <= query.evaluated
=============================================================================
