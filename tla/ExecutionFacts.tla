--------------------------- MODULE ExecutionFacts ---------------------------
(***************************************************************************)
(* The B-03 double-leg execution facts: crates/core/src/execution.rs over  *)
(* the tables of migrations/0003_double_leg_execution.sql.                 *)
(*                                                                         *)
(* initialize_plan fixes the limits of a plan once; evaluate compares the  *)
(* cumulative fills of the two legs with them and decides: completed, a    *)
(* compensation planned within the budget, or manual work.  Both run on    *)
(* several cores at once.  As in OrderFacts, an evaluation locks the row   *)
(* and decides in one step, keeps what it will write in tx[c], and writes  *)
(* it in Commit.                                                           *)
(***************************************************************************)
EXTENDS Integers, FiniteSets, Sums

CONSTANTS
    Cores,       \* ExecutionCore values, of any number of processes
    Plans,       \* B-01 plans
    Limits,      \* the limits initialize_plan may be called with
    Evaluations, \* the inputs evaluate may be called with
    MaxVersion,  \* bound: the evaluations of one plan
    None         \* no limits, no transaction

LimitsType == [target : Nat \ {0}, max_exposure : Nat, budget : Nat]
EvaluationType == [leg_a : Nat, leg_b : Nat, exposure_per_unit : Nat, cost_per_unit : Nat]

ExecutionAssumption ==
    /\ Limits \subseteq LimitsType
    /\ Evaluations \subseteq EvaluationType
    /\ MaxVersion \in Nat
    /\ None \notin Limits

VARIABLES
    known,   \* plans with an execution_facts row
    limits,  \* the limits of that row
    fact,    \* the rest of it
    events,  \* execution_events with the compensation_decisions of the same version
    agreed,  \* the plans and limits initialize_plan has answered with success
    tx       \* what the open call of each core is about to do

vars == <<known, limits, fact, events, agreed, tx>>

ExecutionState == {"PLANNED", "COMPENSATION_PLANNED", "COMPLETED", "MANUAL_REQUIRED"}
CompensationDecision == {"NO_ACTION", "COMPENSATION_PLANNED", "MANUAL_REQUIRED"}
Terminal == {"COMPLETED", "MANUAL_REQUIRED"}

FactType == [state : ExecutionState, leg_a : Nat, leg_b : Nat, unmatched : Nat,
             exposure : Nat, spent : Nat, version : 0 .. MaxVersion]
EventType == [plan : Plans, version : 1 .. MaxVersion, leg_a : Nat, leg_b : Nat,
              decision : CompensationDecision, cost : Nat]

NewFact == [state |-> "PLANNED", leg_a |-> 0, leg_b |-> 0, unmatched |-> 0,
            exposure |-> 0, spent |-> 0, version |-> 0]

\* execution_snapshot: a row in a state its parser does not know is an error.
\* RUNNING is known, though nothing writes it.
Readable(f) == f.state \in ExecutionState \cup {"RUNNING"}

EventsOf(p) == {e \in events : e.plan = p}

-----------------------------------------------------------------------------
\* The decision table of evaluate, in its order

Mismatch(e) == IF e.leg_a >= e.leg_b THEN e.leg_a - e.leg_b ELSE e.leg_b - e.leg_a

Overfilled(l, e) == e.leg_a > l.target \/ e.leg_b > l.target

\* Mutant of OverLimits: each evaluation has the whole budget.
OverLimits_ForgetsSpent(l, f, e) ==
    \/ Mismatch(e) * e.exposure_per_unit > l.max_exposure
    \/ Mismatch(e) * e.cost_per_unit > l.budget

OverLimits(l, f, e) ==
    \/ Mismatch(e) * e.exposure_per_unit > l.max_exposure
    \/ f.spent + Mismatch(e) * e.cost_per_unit > l.budget

Decide(l, f, e) ==
    IF Overfilled(l, e) THEN "MANUAL_REQUIRED"
    ELSE IF Mismatch(e) = 0 THEN "NO_ACTION"
    ELSE IF OverLimits(l, f, e) THEN "MANUAL_REQUIRED"
    ELSE "COMPENSATION_PLANNED"

StateAfter == [NO_ACTION |-> "COMPLETED", COMPENSATION_PLANNED |-> "COMPENSATION_PLANNED",
               MANUAL_REQUIRED |-> "MANUAL_REQUIRED"]

-----------------------------------------------------------------------------

\* No open evaluation holds the row of p.
RowLockFree(p) == \A c \in Cores : tx[c] # None /\ tx[c].op = "evaluate" => tx[c].plan # p

Init ==
    /\ known = {}
    /\ limits = [p \in Plans |-> None]
    /\ fact = [p \in Plans |-> NewFact]
    /\ events = {}
    /\ agreed = {}
    /\ tx = [c \in Cores |-> None]

\* INSERT ... ON CONFLICT(plan_id) DO NOTHING
InsertFact(p, l) ==
    /\ known' = known \cup {p}
    /\ limits' = IF p \in known THEN limits ELSE [limits EXCEPT ![p] = l]

\* initialize_plan up to its commit.
InitializePlan(c, p, l) ==
    /\ tx[c] = None
    /\ InsertFact(p, l)
    /\ tx' = [tx EXCEPT ![c] = [op |-> "compare", plan |-> p, limits |-> l]]
    /\ UNCHANGED <<fact, events, agreed>>

\* The load at the end of initialize_plan: other limits than the caller's fail.
CompareLimits(c) ==
    /\ tx[c] # None /\ tx[c].op = "compare"
    /\ Readable(fact[tx[c].plan])
    /\ agreed' = IF limits[tx[c].plan] = tx[c].limits
                 THEN agreed \cup {[plan |-> tx[c].plan, limits |-> tx[c].limits]}
                 ELSE agreed
    /\ tx' = [tx EXCEPT ![c] = None]
    /\ UNCHANGED <<known, limits, fact, events>>

\* evaluate refuses a terminal plan and fills that move backwards.
Acceptable(f, e) ==
    /\ f.state \notin Terminal
    /\ e.leg_a >= f.leg_a
    /\ e.leg_b >= f.leg_b

\* Mutant of NextFact: only planned compensations are charged.
NextFact_ManualIsFree(l, f, e) ==
    [state |-> StateAfter[Decide(l, f, e)], leg_a |-> e.leg_a, leg_b |-> e.leg_b,
     unmatched |-> Mismatch(e), exposure |-> Mismatch(e) * e.exposure_per_unit,
     spent |-> IF Decide(l, f, e) = "MANUAL_REQUIRED" THEN f.spent
               ELSE f.spent + Mismatch(e) * e.cost_per_unit,
     version |-> f.version + 1]

\* The row evaluate leaves.  The estimated cost counts whatever the decision is.
NextFact(l, f, e) ==
    [state |-> StateAfter[Decide(l, f, e)], leg_a |-> e.leg_a, leg_b |-> e.leg_b,
     unmatched |-> Mismatch(e), exposure |-> Mismatch(e) * e.exposure_per_unit,
     spent |-> f.spent + Mismatch(e) * e.cost_per_unit,
     version |-> f.version + 1]

\* The event and the decision evaluate appends.
NextEvent(p, e) ==
    [plan |-> p, version |-> fact[p].version + 1, leg_a |-> e.leg_a, leg_b |-> e.leg_b,
     decision |-> Decide(limits[p], fact[p], e), cost |-> Mismatch(e) * e.cost_per_unit]

\* evaluate: lock the row, refuse or decide.
Evaluate(c, p, e) ==
    /\ tx[c] = None
    /\ p \in known
    /\ RowLockFree(p)
    /\ Readable(fact[p])
    /\ fact[p].version < MaxVersion
    /\ Acceptable(fact[p], e)
    /\ tx' = [tx EXCEPT ![c] = [op |-> "evaluate", plan |-> p,
                                row |-> NextFact(limits[p], fact[p], e),
                                event |-> NextEvent(p, e)]]
    /\ UNCHANGED <<known, limits, fact, events, agreed>>

\* The commit becomes durable, whether or not the caller learns of it; a second
\* event of one version hits the unique index.
Commit(c) ==
    /\ tx[c] # None /\ tx[c].op = "evaluate"
    /\ \A e \in EventsOf(tx[c].plan) : e.version # tx[c].event.version
    /\ fact' = [fact EXCEPT ![tx[c].plan] = tx[c].row]
    /\ events' = events \cup {tx[c].event}
    /\ tx' = [tx EXCEPT ![c] = None]
    /\ UNCHANGED <<known, limits, agreed>>

\* A statement fails, the future is dropped or the process dies.  What
\* initialize_plan inserted stays, an open evaluation rolls back.
Abort(c) ==
    /\ tx[c] # None
    /\ tx' = [tx EXCEPT ![c] = None]
    /\ UNCHANGED <<known, limits, fact, events, agreed>>

Next ==
    \E c \in Cores :
        \/ \E p \in Plans, l \in Limits : InitializePlan(c, p, l)
        \/ CompareLimits(c)
        \/ \E p \in Plans, e \in Evaluations : Evaluate(c, p, e)
        \/ Commit(c)
        \/ Abort(c)

Spec == Init /\ [][Next]_vars

-----------------------------------------------------------------------------
\* Every variable stays in its range.
TypeOK ==
    /\ known \subseteq Plans
    /\ limits \in [Plans -> Limits \cup {None}]
    /\ fact \in [Plans -> FactType]
    /\ events \subseteq EventType
    /\ agreed \subseteq [plan : Plans, limits : Limits]
    /\ tx \in [Cores -> {None}
                 \cup [op : {"compare"}, plan : Plans, limits : Limits]
                 \cup [op : {"evaluate"}, plan : Plans, row : FactType, event : EventType]]

\* What evaluate read under the row lock is still the row when it writes: no
\* fill and no cost another core commits meanwhile is overwritten.
SnapshotHeld ==
    \A c \in Cores : tx[c] # None /\ tx[c].op = "evaluate" =>
        LET now == fact[tx[c].plan] next == tx[c].row
        IN  /\ next.version = now.version + 1
            /\ next.leg_a >= now.leg_a
            /\ next.leg_b >= now.leg_b
            /\ next.spent >= now.spent
            /\ now.state \notin Terminal

\* Callers of initialize_plan that were told it succeeded work with one set of
\* limits, the one every evaluation is made with.
LimitsAgreed == \A g \in agreed : g.plan \in known /\ limits[g.plan] = g.limits

\* B03-R04, R05: while compensations are planned, the costs of all the decisions
\* together stay within the budget and the exposure within its limit; going over
\* either leaves a plan in manual work.
PlannedWithinLimits ==
    \A p \in known :
        /\ fact[p].state # "MANUAL_REQUIRED" => fact[p].spent <= limits[p].budget
        /\ fact[p].state = "COMPENSATION_PLANNED" =>
              fact[p].exposure <= limits[p].max_exposure /\ fact[p].unmatched > 0

\* The budget a plan has used is the sum of the costs its immutable decisions
\* recorded.
SpentIsSumOfDecisions ==
    \A p \in Plans : fact[p].spent = SumOver([e \in EventsOf(p) |-> e.cost], EventsOf(p))

\* B03-R01, R04: a plan is only completed with both legs filled alike and not
\* beyond the target, so neither an open exposure nor an overfill passes for a
\* neutral position.
CompletedIsMatched ==
    \A p \in known : fact[p].state = "COMPLETED" =>
        /\ fact[p].leg_a = fact[p].leg_b
        /\ fact[p].leg_a <= limits[p].target
        /\ fact[p].unmatched = 0

\* B03-R06, R07: the immutable events tell the whole story of a plan.  They are
\* numbered without a gap, their fills never move backwards, every one but the
\* last planned a compensation (a terminal state is final), and the last one
\* gives the state and fills a restart recovers.
EventsExplainFact ==
    \A p \in Plans :
        /\ {e.version : e \in EventsOf(p)} = 1 .. fact[p].version
        /\ \A e, f \in EventsOf(p) : e.version < f.version =>
              /\ e.leg_a <= f.leg_a
              /\ e.leg_b <= f.leg_b
              /\ e.decision = "COMPENSATION_PLANNED"
        /\ \A e \in EventsOf(p) : e.version = fact[p].version =>
              /\ fact[p].state = StateAfter[e.decision]
              /\ fact[p].leg_a = e.leg_a
              /\ fact[p].leg_b = e.leg_b
=============================================================================
