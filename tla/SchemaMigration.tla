--------------------------- MODULE SchemaMigration ---------------------------
(***************************************************************************)
(* ready_pool: how the first callers of every process make the schema      *)
(* usable (crates/core/src/db.rs).                                         *)
(*                                                                         *)
(* A database older than the migrator lists its applied versions in        *)
(* schema_migrations; adopt_legacy_bookkeeping copies that list, statement *)
(* by statement, to _sqlx_migrations, which the migrator reads next.  The  *)
(* migrator, a library, runs under a lock of the whole database, applies a *)
(* file and its row in one transaction, and goes by the rows it has read   *)
(* when it started.  One of the files drops the old table.  Every file     *)
(* that an old list can name may be executed again without effect.         *)
(***************************************************************************)
EXTENDS Integers, FiniteSets

CONSTANTS
    Processes,
    Callers,
    Home,        \* the process a caller is a task of
    Latest,      \* per process, schema_version(): its binary knows 1 .. Latest[p]
    DropVersion, \* the migration that drops schema_migrations
    Legacies,    \* the lists an old schema_migrations may hold
    MaxFaults,   \* bound: processes that die and statements that fail
    None         \* there is no schema_migrations

\* An old list names files from before the one that drops it, or files that no
\* binary knows.
MigrationAssumption ==
    /\ Home \in [Callers -> Processes]
    /\ Latest \in [Processes -> Nat \ {0}]
    /\ \A p \in Processes : DropVersion \in 1 .. Latest[p]
    /\ \A l \in Legacies : /\ l # {} /\ l \in SUBSET Nat
                           /\ \A v \in l : v < DropVersion \/ \A p \in Processes : Latest[p] < v
    /\ MaxFaults \in Nat

VARIABLES
    found,    \* the list this database was found with, or None
    legacy,   \* schema_migrations now
    recorded, \* the versions in _sqlx_migrations
    executed, \* the files whose effect the schema has
    ready,    \* READY: per process, whether the work is memoized
    pc,       \* what each caller is about to do
    at,       \* the migration it has come to
    applied,  \* the rows the migrator of a caller read when it started
    faults    \* how many there have been

tables == <<legacy, recorded, executed>>
vars == <<found, tables, ready, pc, at, applied, faults>>

Newest == CHOOSE n \in {Latest[p] : p \in Processes} : \A p \in Processes : Latest[p] <= n
Known(c) == 1 .. Latest[Home[c]]

Init ==
    /\ found \in Legacies \cup {None}
    /\ legacy = found
    /\ recorded = {}
    /\ executed = IF found = None THEN {} ELSE found
    /\ ready = [p \in Processes |-> FALSE]
    /\ pc = [c \in Callers |-> "off"]
    /\ at = [c \in Callers |-> 1]
    /\ applied = [c \in Callers |-> {}]
    /\ faults = 0

\* c goes on with migration v of some step, and ends with its error, its call.
Go(c, step, v) ==
    /\ pc' = [pc EXCEPT ![c] = step]
    /\ at' = [at EXCEPT ![c] = v]

Refuse(c) ==
    /\ pc' = [pc EXCEPT ![c] = "refused"]
    /\ at' = [at EXCEPT ![c] = 1]

\* The next migration of the loop, or what follows the loop.
NextOf(c, step, after) ==
    IF at[c] < Latest[Home[c]] THEN Go(c, step, at[c] + 1) ELSE Go(c, after, 1)

-----------------------------------------------------------------------------
\* ready_pool looks at READY and does not keep the lock on it.
Call(c) ==
    /\ pc[c] \in {"off", "refused"}
    /\ ~ready[Home[c]]
    /\ Go(c, "count", 1)
    /\ UNCHANGED <<found, tables, ready, applied, faults>>

\* A later call of the process is a hit.
Hit(c) ==
    /\ pc[c] \in {"off", "refused"}
    /\ ready[Home[c]]
    /\ Go(c, "off", 1)
    /\ UNCHANGED <<found, tables, ready, applied, faults>>

\* adopt_legacy_bookkeeping: the rows are counted ...
Count(c) ==
    /\ pc[c] = "count"
    /\ Go(c, IF recorded = {} THEN "exists" ELSE "lock", 1)
    /\ UNCHANGED <<found, tables, ready, applied, faults>>

\* ... and with none of them the old table is looked for.
Exists(c) ==
    /\ pc[c] = "exists"
    /\ Go(c, IF legacy = None THEN "lock" ELSE "versions", 1)
    /\ UNCHANGED <<found, tables, ready, applied, faults>>

\* The old list is read.  It may have gone meanwhile, and a list with a version
\* this binary does not know is refused.
Versions(c) ==
    /\ pc[c] = "versions"
    /\ IF legacy # None /\ legacy \subseteq Known(c) THEN Go(c, "read", 1) ELSE Refuse(c)
    /\ UNCHANGED <<found, tables, ready, applied, faults>>

\* The old entry of one migration.
Read(c) ==
    /\ pc[c] = "read"
    /\ IF legacy = None THEN Refuse(c)
       ELSE IF at[c] \in legacy THEN Go(c, "seed", at[c])
       ELSE NextOf(c, "read", "lock")
    /\ UNCHANGED <<found, tables, ready, applied, faults>>

\* INSERT ... ON CONFLICT DO NOTHING, a transaction of its own.
Seed(c) ==
    /\ pc[c] = "seed"
    /\ recorded' = recorded \cup {at[c]}
    /\ NextOf(c, "read", "lock")
    /\ UNCHANGED <<found, legacy, executed, ready, applied, faults>>

-----------------------------------------------------------------------------
(* MIGRATOR.run                                                            *)

Running(c) == pc[c] \in {"list", "apply"}

Lock(c) ==
    /\ pc[c] = "lock"
    /\ \A d \in Callers : ~Running(d)
    /\ Go(c, "list", 1)
    /\ UNCHANGED <<found, tables, ready, applied, faults>>

\* A row of a version that is not among the files is refused.
List(c) ==
    /\ pc[c] = "list"
    /\ IF recorded \subseteq Known(c) THEN Go(c, "apply", 1) ELSE Refuse(c)
    /\ applied' = [applied EXCEPT ![c] = recorded]
    /\ UNCHANGED <<found, tables, ready, faults>>

\* A file and its row, together.  A row that has come since the list was read makes
\* the insert fail.
Apply(c) ==
    /\ pc[c] = "apply"
    /\ IF at[c] \in recorded
       THEN /\ IF at[c] \in applied[c] THEN NextOf(c, "apply", "memoize") ELSE Refuse(c)
            /\ UNCHANGED tables
       ELSE /\ executed' = executed \cup {at[c]}
            /\ recorded' = recorded \cup {at[c]}
            /\ legacy' = IF at[c] = DropVersion THEN None ELSE legacy
            /\ NextOf(c, "apply", "memoize")
    /\ UNCHANGED <<found, ready, applied, faults>>

-----------------------------------------------------------------------------
\* ready_pool enters the URL in READY.
Memoize(c) ==
    /\ pc[c] = "memoize"
    /\ ready' = [ready EXCEPT ![Home[c]] = TRUE]
    /\ Go(c, "off", 1)
    /\ UNCHANGED <<found, tables, applied, faults>>

\* A statement of a call fails: its connection goes back, which unlocks.
StatementFails(c) ==
    /\ pc[c] \notin {"off", "refused"}
    /\ faults < MaxFaults
    /\ faults' = faults + 1
    /\ Go(c, "off", 1)
    /\ UNCHANGED <<found, tables, ready, applied>>

Crash(p) ==
    /\ faults < MaxFaults
    /\ faults' = faults + 1
    /\ ready' = [ready EXCEPT ![p] = FALSE]
    /\ pc' = [c \in Callers |-> IF Home[c] = p THEN "off" ELSE pc[c]]
    /\ at' = [c \in Callers |-> IF Home[c] = p THEN 1 ELSE at[c]]
    /\ UNCHANGED <<found, tables, applied>>

Steps(c) ==
    \/ Count(c) \/ Exists(c) \/ Versions(c) \/ Read(c) \/ Seed(c)
    \/ List(c) \/ Apply(c) \/ Memoize(c)

Next ==
    \/ \E c \in Callers : Call(c) \/ Hit(c) \/ Lock(c) \/ Steps(c) \/ StatementFails(c)
    \/ \E p \in Processes : Crash(p)

Spec == Init /\ [][Next]_vars

\* Statements return, a waiter gets the lock, and a page that polls calls again.
Fairness ==
    \A c \in Callers : WF_vars(Call(c)) /\ SF_vars(Lock(c)) /\ WF_vars(Steps(c))

FairSpec == Spec /\ Fairness

-----------------------------------------------------------------------------
TypeOK ==
    /\ found \in Legacies \cup {None}
    /\ legacy \in {found, None}
    /\ {recorded, executed} \subseteq SUBSET Nat
    /\ ready \in [Processes -> BOOLEAN]
    /\ pc \in [Callers -> {"off", "refused", "count", "exists", "versions", "read", "seed",
                           "lock", "list", "apply", "memoize"}]
    /\ at \in [Callers -> 1 .. Newest]
    /\ applied \in [Callers -> SUBSET Nat]
    /\ faults \in 0 .. MaxFaults

\* Whoever may use the schema finds all of it: a process whose calls are let through
\* has every file of its binary in the schema; no row is ahead of its file, whoever
\* wrote it; and the old list disappears only when all it says has a row.
ReadyIsMigrated ==
    /\ \A c \in Callers : ready[Home[c]] => Known(c) \subseteq recorded
    /\ recorded \subseteq executed
    /\ legacy = None /\ found # None => found \subseteq recorded

\* Whatever is interrupted, a process of the newest binary is let through in the end:
\* a list that was copied in part does not keep it out.
NewestBecomesReady ==
    \A p \in Processes :
        Latest[p] = Newest /\ (found = None \/ found \subseteq 1 .. Newest) ~> ready[p]

\* A statement of db.rs, 117-120: two first callers are "safe rather than merely
\* tolerated", the loser "observes every version already applied and does nothing".  So
\* nobody is refused where nothing has failed and no version is unknown.  It does not
\* hold: a caller that finds half of the old list copied goes on to the migrator.
FirstCallersAreSafe ==
    faults = 0 /\ (found = None \/ found \subseteq 1 .. Newest)
        /\ (\A p \in Processes : Latest[p] = Newest)
        => \A c \in Callers : pc[c] # "refused"
=============================================================================
