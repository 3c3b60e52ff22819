-------------------------------- MODULE Locks --------------------------------
(***************************************************************************)
(* Everyone who competes to write: reserve_plan calls for request and      *)
(* balance locks (PaperCore), cores for a pool session and the advisory    *)
(* lock of a domain (DomainLock), nodes for the role of the primary        *)
(* (Fencing), and the first callers of every process for the migration of  *)
(* the schema (SchemaMigration).  They share no state here, so a behaviour *)
(* is about one of them; each has the fairness of its own module.          *)
(***************************************************************************)
EXTENDS Integers

CONSTANTS
    Callers,                                                     \* calls, of reserve_plan or for the schema
    Domains, None,
    RequestIds, PlanIds, NBalances, Requests, FreeValues,        \* PaperCore
    Processes, Sessions, PoolOf, Cores, Home,                    \* DomainLock
    Nodes, MaxTime, MaxTokens, Timeout, Ttl,                     \* Fencing
    CallerHome, Latest, DropVersion, Legacies, MaxFaults         \* SchemaMigration

VARIABLES
    part,
    known, free, reserved, plans, writer, holdsLock, call, req, locked, acked,
    use, holds, pc, domain, lockOn, queryOn, lost,
    time, nodes, tokens, current, deposed,
    found, legacy, recorded, executed, ready, step, at, applied, faults

paperVars == <<known, free, reserved, plans, writer, holdsLock, call, req, locked, acked>>
lockVars == <<use, holds, pc, domain, lockOn, queryOn, lost>>
fenceVars == <<time, nodes, tokens, current, deposed>>
schemaVars == <<found, legacy, recorded, executed, ready, step, at, applied, faults>>
vars == <<part, paperVars, lockVars, fenceVars, schemaVars>>

Paper == INSTANCE PaperCore WITH Cores <- Callers, pc <- call
Lock == INSTANCE DomainLock
Fence == INSTANCE Fencing
Schema == INSTANCE SchemaMigration WITH Home <- CallerHome, pc <- step

ASSUME LocksAssumption ==
    /\ Lock!DomainLockAssumption
    /\ Fence!FencingAssumption
    /\ Schema!MigrationAssumption

Init ==
    /\ part \in {"paper", "lock", "fence", "schema"}
    /\ Paper!Init
    /\ Lock!Init
    /\ Fence!Init
    /\ IF part = "schema" THEN Schema!Init ELSE Schema!Init /\ found = None

OfPaper(A) == part = "paper" /\ A /\ UNCHANGED <<part, lockVars, fenceVars, schemaVars>>
OfLock(A) == part = "lock" /\ A /\ UNCHANGED <<part, paperVars, fenceVars, schemaVars>>
OfFence(A) == part = "fence" /\ A /\ UNCHANGED <<part, paperVars, lockVars, schemaVars>>
OfSchema(A) == part = "schema" /\ A /\ UNCHANGED <<part, paperVars, lockVars, fenceVars>>

Next ==
    OfPaper(Paper!Next) \/ OfLock(Lock!Next) \/ OfFence(Fence!Next) \/ OfSchema(Schema!Next)

Spec == Init /\ [][Next]_vars

\* The fairness of the modules, taken together where it has the same form: part never
\* changes, so of the actions under one operator one at most is ever enabled.
Fairness ==
    /\ \A c \in Callers :
          /\ SF_vars(OfPaper(Paper!LockRequest(c)) \/ OfSchema(Schema!Lock(c)))
          /\ WF_vars(OfPaper(Paper!LookupMiss(c) \/ Paper!LookupHit(c)) \/ OfSchema(Schema!Call(c)))
          /\ SF_vars(OfPaper(\E b \in 1 .. NBalances :
                               Paper!LockBalance(c, b) \/ Paper!RefuseBalance(c, b)))
          /\ SF_vars(OfPaper(Paper!InsertPlan(c) \/ Paper!RefuseInsert(c)))
          /\ WF_vars(OfPaper(Paper!Commit(c) \/ Paper!CommitUnacknowledged(c))
                     \/ OfSchema(Schema!Steps(c)))
    /\ \A c \in Cores :
          /\ WF_vars(OfLock(Lock!AcquireTimeout(c)))
          /\ WF_vars(OfLock(Lock!TryLock(c) \/ Lock!RefuseLock(c)))
          /\ WF_vars(OfLock(Lock!QueryTimeout(c)))
          /\ WF_vars(OfLock(Lock!EndQuery(c)))
    /\ \A s \in Sessions : WF_vars(OfLock(Lock!AfterRelease(s)))

FairSpec == Spec /\ Fairness

\* Every reserve_plan call returns when locks are granted in arrival order, no core
\* waits for a pool session for ever, and a process of the newest binary gets its schema.
WaitsEnd ==
    /\ Paper!EveryCallReturns
    /\ Lock!WaitsEnd
    /\ part = "schema" => Schema!NewestBecomesReady

\* No advisory lock outlives its borrower (db.rs, invariant 1), a domain has one
\* writer in all processes while its lock session lives, and the nodes one primary,
\* also when a node that had failed reports again after the failover.  And none
\* writes to a schema that is not there: a memoized process has every file applied.
OneWriter ==
    /\ Lock!NoLockOutlivesBorrower
    /\ Lock!SingleWriter
    /\ Fence!OnePrimary
    /\ Schema!ReadyIsMigrated

\* The pool, its callbacks and the server's locks implement a writer lock.
ImplementsWriterLock == Lock!ImplementsWriterLock

\* A domain whose writer is gone, however it went, becomes free.
DomainBecomesFree == Lock!DomainBecomesFree
=============================================================================
