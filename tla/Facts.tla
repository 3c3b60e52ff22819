-------------------------------- MODULE Facts --------------------------------
(***************************************************************************)
(* What keeps facts without a domain lock of its own: order facts,         *)
(* execution facts and what the accounting and control command             *)
(* (commands/accounting_control.rs) writes, in the database, and the       *)
(* records of operators, in memory.  They share no row, so a behaviour is  *)
(* about one of them; a call of the command names the kind of fact it is   *)
(* about and works on that part of the database alone.                     *)
(***************************************************************************)
EXTENDS Integers

CONSTANTS
    Cores, None,
    Intents, VenueOf, Ordered, OrderIds, QueryIds, Trades, OrderVersions,    \* OrderFacts
    Plans, Limits, Evaluations, ExecutionVersions,                           \* ExecutionFacts
    Requests, Results, MaxTime, MaxAudits,                                   \* ControlCommands
    Events,                                                                  \* AccountLedger
    Runs, Snapshots, Assets, Holdings, Tolerance,                            \* Reconciliation
    Times, Retentions, MaxRecords                                            \* OperatorRecords

VARIABLES
    part,
    ordered, orderFact, actions, investigations, trades, orderTx,
    planned, limits, executionFact, events, agreed, executionTx,
    kind, commands, audits, commandTx, acked, posted, ledgerTx, told, runs, snapshots, runTx,
    recordKind, records, counted, retention, created, given

orderVars == <<ordered, orderFact, actions, investigations, trades, orderTx>>
executionVars == <<planned, limits, executionFact, events, agreed, executionTx>>
commandVars == <<commands, audits, commandTx, acked>>
ledgerVars == <<posted, ledgerTx, told>>
reconcilerVars == <<runs, snapshots, runTx>>
controlVars == <<kind, commandVars, ledgerVars, reconcilerVars>>
recordVars == <<recordKind, records, counted, retention, created, given>>
vars == <<part, orderVars, executionVars, controlVars, recordVars>>

-----------------------------------------------------------------------------
Orders == INSTANCE OrderFacts WITH
    MaxVersion <- OrderVersions, known <- ordered, fact <- orderFact, tx <- orderTx

Execution == INSTANCE ExecutionFacts WITH
    MaxVersion <- ExecutionVersions, known <- planned, fact <- executionFact,
    tx <- executionTx

Control == INSTANCE ControlCommands WITH tx <- commandTx
Ledger == INSTANCE AccountLedger WITH tx <- ledgerTx
Reconciler == INSTANCE Reconciliation WITH tx <- runTx

Records == INSTANCE OperatorRecords WITH Callers <- Cores, kind <- recordKind

ASSUME FactsAssumption ==
    /\ Orders!OrderAssumption
    /\ Execution!ExecutionAssumption
    /\ Control!ControlAssumption /\ Ledger!LedgerAssumption
    /\ Reconciler!ReconciliationAssumption
    /\ Records!RecordsAssumption

Init ==
    /\ part \in {"orders", "execution", "control", "records"}
    /\ kind \in {"ACCOUNTING", "RECONCILIATION", "CONTROL"}
    /\ Orders!Init /\ Execution!Init /\ Control!Init /\ Ledger!Init /\ Reconciler!Init
    /\ Records!Init
    /\ part # "control" => kind = "CONTROL"
    /\ part # "records" => recordKind = "alert"

Dispatch ==
    \/ kind = "ACCOUNTING" /\ Ledger!Next /\ UNCHANGED <<commandVars, reconcilerVars>>
    \/ kind = "RECONCILIATION" /\ Reconciler!Next /\ UNCHANGED <<commandVars, ledgerVars>>
    \/ kind = "CONTROL" /\ Control!Next /\ UNCHANGED <<ledgerVars, reconcilerVars>>

Next ==
    \/ /\ part = "orders"
       /\ Orders!Next
       /\ UNCHANGED <<part, executionVars, controlVars, recordVars>>
    \/ /\ part = "execution"
       /\ Execution!Next
       /\ UNCHANGED <<part, orderVars, controlVars, recordVars>>
    \/ /\ part = "control"
       /\ Dispatch
       /\ UNCHANGED <<part, kind, orderVars, executionVars, recordVars>>
    \/ /\ part = "records"
       /\ Records!Next
       /\ UNCHANGED <<part, orderVars, executionVars, controlVars>>

Spec == Init /\ [][Next]_vars

\* Whatever order queries, cancellations, trades and retries arrive in, and however
\* two transactions interleave, what an order's row says follows from the facts
\* stored with it: the quantity filled, the state it is in, and no trade of another.
OrderRowsExplained ==
    part = "orders" =>
        /\ Orders!FilledIsSumOfTrades /\ Orders!ActionsExplainRow /\ Orders!TradesBelong
        /\ Orders!SubmittedOnce /\ Orders!SnapshotHeld

\* The order rows go through the states of an order in an order the venue allows.
ImplementsProtocol == Orders!ImplementsProtocol

\* Two cores that evaluate one plan plan no more than the limits its first
\* initialisation agreed on, whatever limits the second came with.
SpendingIsPlanned ==
    part = "execution" => Execution!LimitsAgreed /\ Execution!PlannedWithinLimits

\* What a plan has spent and where it stands follow from its recorded decisions.
DecisionsExplainPlan ==
    part = "execution" =>
        /\ Execution!SpentIsSumOfDecisions /\ Execution!EventsExplainFact
        /\ Execution!CompletedIsMatched /\ Execution!SnapshotHeld

\* A command that ran out of time stays expired, whoever completes it later.
ExpiredIsFinal == Control!ExpiredIsFinal

\* One request id is one command, and the id of an operator's record reaches the record
\* it was given for, unless another was created in the same millisecond.
RequestsBound ==
    /\ part = "control" => Control!RequestsBound
    /\ part = "records" => Records!OwnUnlessTwin

\* Each stored result has its audit record.
ResultsTraced == part = "control" => Control!ResultsTraced

\* The ledger balances in every asset, and an event is posted once.
LedgerHolds == part = "control" => Ledger!BooksBalance /\ Ledger!RecordedOnce

\* The verdict of a reconciliation run is what its differences say.
RunsSettled == part = "control" => Reconciler!RunsSettled
=============================================================================
