--------------------------- MODULE Reconciliation ----------------------------
(***************************************************************************)
(* Balance snapshots and reconciliation runs (reconciliation.rs): what the *)
(* local books and a venue hold is compared asset by asset, and a run and  *)
(* its differences are stored in one transaction.                          *)
(*                                                                         *)
(* Amounts are integers in an eighth decimal's fraction; Tolerance is the  *)
(* 10^-8 of the code in that unit.                                         *)
(***************************************************************************)
EXTENDS Integers, FiniteSets

CONSTANTS
    Cores,
    Runs,        \* [id, at]: run ids and the millisecond they are started in
    Snapshots,   \* [id, at, content]: balance snapshots callers may record
    Assets,
    Holdings,    \* what either side may report: functions from some of Assets to Int
    Tolerance,
    None

ReconciliationAssumption ==
    /\ \A h \in Holdings : DOMAIN h \subseteq Assets /\ \A a \in DOMAIN h : h[a] \in Int
    /\ Tolerance \in Nat \ {0}

VARIABLES
    runs,        \* reconciliation_runs with their differences: a row by id, or None
    snapshots,   \* balance_snapshots: the stored rows
    tx           \* the open transaction of a core, or None

vars == <<runs, snapshots, tx>>

Categories == {"DELAYED", "MISSING", "CONFLICT"}
RunIds == {r.id : r \in Runs}

TypeOK ==
    /\ DOMAIN runs = RunIds
    /\ \A k \in RunIds : runs[k] # None =>
          /\ runs[k].status \in {"RUNNING", "MATCHED", "ATTENTION_REQUIRED"}
          /\ runs[k].differences \subseteq Assets \X Categories
    /\ snapshots \subseteq Snapshots

Init ==
    /\ runs = [k \in RunIds |-> None]
    /\ snapshots = {}
    /\ tx = [c \in Cores |-> None]

-----------------------------------------------------------------------------
Amount(h, a) == IF a \in DOMAIN h THEN h[a] ELSE 0
Abs(n) == IF n < 0 THEN -n ELSE n

\* Mutant of Category: the difference is compared without its absolute value.
Category_OneSided(local, external, a) ==
    IF a \notin DOMAIN local \/ a \notin DOMAIN external THEN "MISSING"
    ELSE IF Abs(local[a]) < Abs(external[a]) + Tolerance THEN "DELAYED"
    ELSE "CONFLICT"

\* A side that does not list the asset makes it MISSING; amounts closer than the
\* tolerance are DELAYED.
Category(local, external, a) ==
    IF a \notin DOMAIN local \/ a \notin DOMAIN external THEN "MISSING"
    ELSE IF /\ Abs(local[a]) < Abs(external[a]) + Tolerance
            /\ Abs(local[a]) > Abs(external[a]) - Tolerance THEN "DELAYED"
    ELSE "CONFLICT"

Differing(local, external) ==
    {a \in DOMAIN local \cup DOMAIN external : Amount(local, a) # Amount(external, a)}

\* The table's checks refuse a difference with a negative amount, and with it
\* the whole run.
Storable(local, external) ==
    \A a \in Differing(local, external) : Amount(local, a) >= 0 /\ Amount(external, a) >= 0

\* The run row is inserted first: run id and (account, venue, start) are unique.
Begin(c, r, local, external) ==
    /\ tx[c] = None
    /\ \A k \in RunIds : runs[k] # None => k # r.id /\ runs[k].at # r.at
    /\ \A d \in Cores \ {c} : tx[d] # None => tx[d].run.id # r.id /\ tx[d].run.at # r.at
    /\ tx' = [tx EXCEPT ![c] = [run |-> r, local |-> local, external |-> external]]
    /\ UNCHANGED <<runs, snapshots>>

\* The differences, the final status and the commit.
Finish(c) ==
    /\ tx[c] # None
    /\ Storable(tx[c].local, tx[c].external)
    /\ LET local == tx[c].local
           external == tx[c].external
           differing == Differing(local, external)
       IN  runs' = [runs EXCEPT ![tx[c].run.id] =
              [at |-> tx[c].run.at, local |-> local, external |-> external,
               differences |-> {<<a, Category(local, external, a)>> : a \in differing},
               status |-> IF differing = {} THEN "MATCHED" ELSE "ATTENTION_REQUIRED"]]
    /\ tx' = [tx EXCEPT ![c] = None]
    /\ UNCHANGED snapshots

Abort(c) ==
    /\ tx[c] # None
    /\ tx' = [tx EXCEPT ![c] = None]
    /\ UNCHANGED <<runs, snapshots>>

\* A known snapshot id changes nothing, whatever the content; another snapshot of
\* the same account, asset and millisecond is refused.
RecordSnapshot(c, s) ==
    /\ tx[c] = None
    /\ \A t \in snapshots : t.id # s.id /\ t.at # s.at
    /\ snapshots' = snapshots \cup {s}
    /\ UNCHANGED <<runs, tx>>

Next ==
    \E c \in Cores :
        \/ \E r \in Runs, local, external \in Holdings : Begin(c, r, local, external)
        \/ Finish(c) \/ Abort(c)
        \/ \E s \in Snapshots : RecordSnapshot(c, s)

Spec == Init /\ [][Next]_vars

-----------------------------------------------------------------------------
(* What the module promises.                                               *)

\* A stored run is settled: it is MATCHED exactly when both sides hold the same
\* of everything (not listing an asset is holding none of it), each asset that
\* differs has one difference, and its category would be the same had the sides
\* been exchanged; no other run started in its millisecond.
RunsSettled ==
    \A k \in RunIds : runs[k] # None =>
        LET run == runs[k]
            same == \A a \in Assets : Amount(run.local, a) = Amount(run.external, a)
        IN  /\ run.status = IF same THEN "MATCHED" ELSE "ATTENTION_REQUIRED"
            /\ \A a \in Assets : Amount(run.local, a) # Amount(run.external, a)
                  <=> \E d \in run.differences : d[1] = a
            /\ \A d, e \in run.differences : d[1] = e[1] => d = e
            /\ \A d \in run.differences : d[2] = Category(run.external, run.local, d[1])
            /\ \A j \in RunIds : runs[j] # None /\ runs[j].at = run.at => j = k

=============================================================================
