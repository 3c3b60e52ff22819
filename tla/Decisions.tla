------------------------------ MODULE Decisions ------------------------------
(***************************************************************************)
(* What an observed pair of books goes through: the scan that decides      *)
(* about it (Scan), the archive the decision is written to (EventArchive), *)
(* the legs the simulation fills from the same books (SimulateLeg), the    *)
(* run that records them (SimulationRun), and the queries that report on   *)
(* runs (SimulationQueries).  Each hands a finished value to the next and  *)
(* shares no state with it, so a behaviour is about one of them.           *)
(***************************************************************************)
EXTENDS Integers, Sequences

CONSTANTS
    Parts, None,
    Books, Quantity, Strategy, Specs, Eligible, Answers, FallbackRate, \* Scan
    Bps, MaxAge, MaxSkew, MaxFeeAge, MaxTime,
    MaxRuns, MaxOrdinal, QueueCapacity, MaxFailures, TornWrites, Corrupt, \* EventArchive
    Unit, Inputs,                                                 \* SimulateLeg
    Simulations, Contents, Target, MaxClock,                      \* SimulationRun
    MaxRows, PageSize, Day, Dense, Funds                          \* SimulationQueries

VARIABLES
    part,
    now, feed, answer, asked, phase, decision,
    run, up, next, refused, pending, queue, pc, held, todo, open,
    archive, journal, failures, printed, clean,
    leg, level, remaining, filled, quote_amount, last_fill_price, legPc,
    clock, simulation, funds, plans, facts, submission, cancel, order, trades, reports,
    committed, rows, query

scanVars == <<now, feed, answer, asked, phase, decision>>
archiveVars == <<run, up, next, refused, pending, queue, pc, held, todo, open,
                 archive, journal, failures, printed, clean>>
legVars == <<leg, level, remaining, filled, quote_amount, last_fill_price, legPc>>
runVars == <<clock, simulation, funds, plans, facts, submission, cancel, order, trades, reports>>
queryVars == <<committed, rows, query>>
vars == <<part, scanVars, archiveVars, legVars, runVars, queryVars>>

Scanner == INSTANCE Scan
Archive == INSTANCE EventArchive
Leg == INSTANCE SimulateLeg WITH next <- level, pc <- legPc
Simulation == INSTANCE SimulationRun WITH Runs <- Simulations, run <- simulation
Queries == INSTANCE SimulationQueries WITH MaxRuns <- MaxRows, facts <- committed

\* A leg for the behaviours that are not about one.
AnyLeg == CHOOSE l \in Inputs : TRUE

ASSUME DecisionsAssumption ==
    /\ Parts \subseteq {"scan", "archive", "leg", "run", "query"}
    /\ Scanner!ScanAssumption
    /\ Archive!ArchiveAssumption
    /\ Leg!SimulateLegAssumption
    /\ Simulation!RunAssumption
    /\ Queries!QueriesAssumption

Init ==
    /\ part \in Parts
    /\ IF part = "scan"
       THEN Scanner!Init
       ELSE now = 0 /\ feed = None /\ answer = None /\ asked = 0
            /\ phase = "loop" /\ decision = None
    /\ Archive!Init
    /\ IF part = "leg"
       THEN Leg!Init
       ELSE leg = AnyLeg /\ level = 1 /\ remaining = AnyLeg.requested
            /\ filled = 0 /\ quote_amount = 0 /\ last_fill_price = 0 /\ legPc = "loop"
    /\ Simulation!Init
    /\ Queries!Init

OfScan(A) == part = "scan" /\ A /\ UNCHANGED <<part, archiveVars, legVars, runVars, queryVars>>
OfArchive(A) == part = "archive" /\ A /\ UNCHANGED <<part, scanVars, legVars, runVars, queryVars>>
OfLeg(A) == part = "leg" /\ A /\ UNCHANGED <<part, scanVars, archiveVars, runVars, queryVars>>
OfRun(A) == part = "run" /\ A /\ UNCHANGED <<part, scanVars, archiveVars, legVars, queryVars>>
OfQuery(A) == part = "query" /\ A /\ UNCHANGED <<part, scanVars, archiveVars, legVars, runVars>>

Next ==
    \/ OfScan(Scanner!Next) \/ OfArchive(Archive!Next) \/ OfLeg(Leg!Next)
    \/ OfRun(Simulation!Next) \/ OfQuery(Queries!Next)

Spec == Init /\ [][Next]_vars

\* What the scan accepts pays its fees and its costs at the prices it would really
\* be filled at, and never in both directions at once.
AcceptedPaysOff == part = "scan" => Scanner!AcceptedPaysOff /\ Scanner!OneDirection

\* What the scan accepts was decided on fresh books and fees of admitted accounts.
AcceptedIsAdmitted == part = "scan" => Scanner!AcceptedIsAdmitted

\* Every file of the archive can be replayed, after crashes too.
Replayable == part = "archive" => Archive!Replayable

\* What a file says is missing is what is missing.
NothingLostSilently == part = "archive" => Archive!NothingLostSilently

\* The leg loop fills what a reference sweep of the book fills, and never at a
\* price better than the book's.
LegIsPriced == part = "leg" => Leg!FillIsSweep /\ Leg!PricedAdversely

\* An order of a simulated run has one driver, its facts come in order, and a report
\* states what was booked.
RunsInOrder ==
    part = "run" => /\ Simulation!OneDriver
                    /\ Simulation!FactsInOrder
                    /\ Simulation!ReportsMatchFacts

\* An answer to a query states what is in the tables, though its statements see
\* different moments.
AnswersHold == part = "query" => Queries!AnswersHold

\* F-02 design, D2: a leg below the minimum quantity is rejected whole: no amount is
\* left on a leg without a fill.
RejectedLegIsEmpty == Leg!RejectedLegIsEmpty

\* B-03 requirements: a completed plan has the same fills booked on both its legs.
CompletedIsBooked == Simulation!CompletedIsBooked
=============================================================================
