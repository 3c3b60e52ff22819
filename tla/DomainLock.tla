----------------------------- MODULE DomainLock -----------------------------
(***************************************************************************)
(* DomainConnection and its connection pool: crates/core/src/db.rs.        *)
(*                                                                         *)
(* Each process keeps one pool of a few database sessions.  A core (a      *)
(* PaperCore, OrderCore or ExecutionCore) borrows one session for as long  *)
(* as it lives and takes the advisory lock of its domain on it; every      *)
(* query borrows a second one.  PostgreSQL keeps a session's advisory      *)
(* locks until they are unlocked or the session ends, so the locks survive *)
(* the return of a session to the pool: unlocking is the code's job, in    *)
(* disconnect and, for cores that are dropped without it, in the pool's    *)
(* after_release callback, which runs some time after the drop.            *)
(***************************************************************************)
EXTENDS FiniteSets

CONSTANTS
    Processes,
    Sessions,  \* the sessions the pools may open
    PoolOf,    \* the process whose pool a session belongs to
    Cores,
    Home,      \* the process a core runs in
    Domains,
    None       \* no domain, no session

DomainLockAssumption ==
    /\ PoolOf \in [Sessions -> Processes]
    /\ Home \in [Cores -> Processes]
    /\ None \notin Domains \cup Sessions

VARIABLES
    use,     \* whether a session is idle, borrowed or on its way back to the pool
    holds,   \* the advisory locks the server has granted each session
    pc,      \* what a core is about to do
    domain,  \* the domain it was asked to lock
    lockOn,  \* the session it borrowed for the lock
    queryOn, \* the session its current query borrowed
    lost     \* whether the server has ended its lock session

sessionVars == <<use, holds>>
coreVars == <<pc, domain, lockOn, queryOn, lost>>
vars == <<use, holds, pc, domain, lockOn, queryOn, lost>>

-----------------------------------------------------------------------------
\* The core exists and believes that it is the writer of its domain.
Live(c) == pc[c] \in {"held", "want", "query"}

Off(c) ==
    /\ pc' = [pc EXCEPT ![c] = "off"]
    /\ domain' = [domain EXCEPT ![c] = None]
    /\ lockOn' = [lockOn EXCEPT ![c] = None]
    /\ queryOn' = [queryOn EXCEPT ![c] = None]
    /\ lost' = [lost EXCEPT ![c] = FALSE]

\* The sessions of c go back to the pool.
GiveBack(c) ==
    use' = [s \in Sessions |->
               IF s \in {lockOn[c], queryOn[c]} THEN "releasing" ELSE use[s]]

Init ==
    /\ use = [s \in Sessions |-> "idle"]
    /\ holds = [s \in Sessions |-> {}]
    /\ pc = [c \in Cores |-> "off"]
    /\ domain = [c \in Cores |-> None]
    /\ lockOn = [c \in Cores |-> None]
    /\ queryOn = [c \in Cores |-> None]
    /\ lost = [c \in Cores |-> FALSE]

\* DomainConnection::acquire up to its wait for a pool session.
Acquire(c, d) ==
    /\ pc[c] = "off"
    /\ pc' = [pc EXCEPT ![c] = "waiting"]
    /\ domain' = [domain EXCEPT ![c] = d]
    /\ UNCHANGED <<sessionVars, lockOn, queryOn, lost>>

TakeLockSession(c, s) ==
    /\ pc[c] = "waiting"
    /\ PoolOf[s] = Home[c]
    /\ use[s] = "idle"
    /\ use' = [use EXCEPT ![s] = "lock"]
    /\ lockOn' = [lockOn EXCEPT ![c] = s]
    /\ pc' = [pc EXCEPT ![c] = "try"]
    /\ UNCHANGED <<holds, domain, queryOn, lost>>

\* ACQUIRE_TIMEOUT runs out before the pool has a session for the lock.
AcquireTimeout(c) ==
    /\ pc[c] = "waiting"
    /\ Off(c)
    /\ UNCHANGED sessionVars

\* pg_try_advisory_lock: granted unless another session holds the domain.
Grantable(s, d) == \A r \in Sessions \ {s} : d \notin holds[r]

\* Mutant of TryLock: the answer of pg_try_advisory_lock is not looked at.
TryLock_AnyAnswer(c) ==
    /\ pc[c] = "try"
    /\ holds' = IF Grantable(lockOn[c], domain[c])
                THEN [holds EXCEPT ![lockOn[c]] = @ \cup {domain[c]}] ELSE holds
    /\ pc' = [pc EXCEPT ![c] = "held"]
    /\ UNCHANGED <<use, domain, lockOn, queryOn, lost>>

TryLock(c) ==
    /\ pc[c] = "try"
    /\ Grantable(lockOn[c], domain[c])
    /\ holds' = [holds EXCEPT ![lockOn[c]] = @ \cup {domain[c]}]
    /\ pc' = [pc EXCEPT ![c] = "held"]
    /\ UNCHANGED <<use, domain, lockOn, queryOn, lost>>

\* The domain has a writer: the session is dropped and the call fails.
RefuseLock(c) ==
    /\ pc[c] = "try"
    /\ ~Grantable(lockOn[c], domain[c])
    /\ GiveBack(c)
    /\ Off(c)
    /\ UNCHANGED holds

\* A method of the core starts and asks the pool for a session of its own.
BeginQuery(c) ==
    /\ pc[c] = "held"
    /\ pc' = [pc EXCEPT ![c] = "want"]
    /\ UNCHANGED <<sessionVars, domain, lockOn, queryOn, lost>>

TakeQuerySession(c, s) ==
    /\ pc[c] = "want"
    /\ PoolOf[s] = Home[c]
    /\ use[s] = "idle"
    /\ use' = [use EXCEPT ![s] = "query"]
    /\ queryOn' = [queryOn EXCEPT ![c] = s]
    /\ pc' = [pc EXCEPT ![c] = "query"]
    /\ UNCHANGED <<holds, domain, lockOn, lost>>

\* ACQUIRE_TIMEOUT runs out: the method fails, the core is still there.
QueryTimeout(c) ==
    /\ pc[c] = "want"
    /\ pc' = [pc EXCEPT ![c] = "held"]
    /\ UNCHANGED <<sessionVars, domain, lockOn, queryOn, lost>>

\* The method is over, its session goes back.
EndQuery(c) ==
    /\ pc[c] = "query"
    /\ use' = [use EXCEPT ![queryOn[c]] = "releasing"]
    /\ queryOn' = [queryOn EXCEPT ![c] = None]
    /\ pc' = [pc EXCEPT ![c] = "held"]
    /\ UNCHANGED <<holds, domain, lockOn, lost>>

\* disconnect: unlock, ignoring an error of it, then drop the lock session.
Disconnect(c) ==
    /\ pc[c] = "held"
    /\ \/ holds' = [holds EXCEPT ![lockOn[c]] = {}]
       \/ UNCHANGED holds
    /\ GiveBack(c)
    /\ Off(c)

\* The core, or the future that acquires it, is dropped without disconnect: an
\* error returned by `?', a panic, a cancelled task.  A lock request that was
\* under way may have been granted.
DropCore(c) ==
    /\ pc[c] # "off"
    /\ \/ UNCHANGED holds
       \/ /\ pc[c] = "try"
          /\ Grantable(lockOn[c], domain[c])
          /\ holds' = [holds EXCEPT ![lockOn[c]] = @ \cup {domain[c]}]
    /\ GiveBack(c)
    /\ Off(c)

\* Mutant of AfterRelease: the session returns to the pool as it is.
AfterRelease_KeepsLocks(s) ==
    /\ use[s] = "releasing"
    /\ use' = [use EXCEPT ![s] = "idle"]
    /\ UNCHANGED <<holds, coreVars>>

\* after_release unlocks everything before the session can be borrowed again.
\* If it fails the pool closes the session, which ends its locks too, and opens
\* another one in its place.
AfterRelease(s) ==
    /\ use[s] = "releasing"
    /\ use' = [use EXCEPT ![s] = "idle"]
    /\ holds' = [holds EXCEPT ![s] = {}]
    /\ UNCHANGED coreVars

\* The server ends the session a writer holds its lock on; the writer, which
\* never queries on it, does not notice.
LoseSession(c) ==
    /\ Live(c)
    /\ holds' = [holds EXCEPT ![lockOn[c]] = {}]
    /\ lost' = [lost EXCEPT ![c] = TRUE]
    /\ UNCHANGED <<use, pc, domain, lockOn, queryOn>>

\* A process dies: the server ends its sessions.
Crash(p) ==
    /\ use' = [s \in Sessions |-> IF PoolOf[s] = p THEN "idle" ELSE use[s]]
    /\ holds' = [s \in Sessions |-> IF PoolOf[s] = p THEN {} ELSE holds[s]]
    /\ pc' = [c \in Cores |-> IF Home[c] = p THEN "off" ELSE pc[c]]
    /\ domain' = [c \in Cores |-> IF Home[c] = p THEN None ELSE domain[c]]
    /\ lockOn' = [c \in Cores |-> IF Home[c] = p THEN None ELSE lockOn[c]]
    /\ queryOn' = [c \in Cores |-> IF Home[c] = p THEN None ELSE queryOn[c]]
    /\ lost' = [c \in Cores |-> IF Home[c] = p THEN FALSE ELSE lost[c]]

Next ==
    \/ \E c \in Cores :
          \/ \E d \in Domains : Acquire(c, d)
          \/ \E s \in Sessions : TakeLockSession(c, s) \/ TakeQuerySession(c, s)
          \/ AcquireTimeout(c) \/ TryLock(c) \/ RefuseLock(c)
          \/ BeginQuery(c) \/ QueryTimeout(c) \/ EndQuery(c)
          \/ Disconnect(c) \/ DropCore(c) \/ LoseSession(c)
    \/ \E s \in Sessions : AfterRelease(s)
    \/ \E p \in Processes : Crash(p)

Spec == Init /\ [][Next]_vars

\* The pool's timeouts fire, statements return, and the callback the pool runs
\* for every returned session completes.
Fairness ==
    /\ \A c \in Cores :
          /\ WF_vars(AcquireTimeout(c))
          /\ WF_vars(TryLock(c) \/ RefuseLock(c))
          /\ WF_vars(QueryTimeout(c))
          /\ WF_vars(EndQuery(c))
    /\ \A s \in Sessions : WF_vars(AfterRelease(s))

FairSpec == Spec /\ Fairness

-----------------------------------------------------------------------------
\* Every variable stays in its range.
TypeOK ==
    /\ use \in [Sessions -> {"idle", "lock", "query", "releasing"}]
    /\ holds \in [Sessions -> SUBSET Domains]
    /\ pc \in [Cores -> {"off", "waiting", "try", "held", "want", "query"}]
    /\ domain \in [Cores -> Domains \cup {None}]
    /\ lockOn \in [Cores -> Sessions \cup {None}]
    /\ queryOn \in [Cores -> Sessions \cup {None}]
    /\ lost \in [Cores -> BOOLEAN]

\* db.rs, invariant 1: no advisory lock outlives its borrower.  A session that
\* may be borrowed next, or that was borrowed for a query, holds no lock, and one
\* borrowed for a lock holds at most the lock of the core that borrowed it.
NoLockOutlivesBorrower ==
    \A s \in Sessions :
        /\ use[s] \in {"idle", "query"} => holds[s] = {}
        /\ use[s] = "lock" => \A d \in holds[s] :
              \E c \in Cores : lockOn[c] = s /\ domain[c] = d /\ Live(c)

\* A domain has one writer, in whatever process, unless the server has ended a
\* writer's lock session behind its back.
SingleWriter ==
    \A c, e \in Cores :
        (Live(c) /\ Live(e) /\ domain[c] = domain[e] /\ ~lost[c] /\ ~lost[e]) => c = e

\* No one waits for ever.  With every session of a pool borrowed by a core that
\* wants one more for its query, the acquire timeout is all that ends the wait.
WaitsEnd ==
    \A c \in Cores : pc[c] \in {"waiting", "try", "want", "query"} ~> pc[c] \in {"off", "held"}

\* A domain whose writer is gone, however it went, becomes free for the next one.
DomainBecomesFree ==
    \A d \in Domains :
        (\E s \in Sessions : d \in holds[s]) ~>
            \/ \A s \in Sessions : d \notin holds[s]
            \/ \E c \in Cores : Live(c) /\ domain[c] = d

\* The pool, its callbacks and the server's locks together implement the lock
\* that the reservation core builds on.
Lock == INSTANCE WriterLock WITH
    writer <- [c \in Cores |-> IF Live(c) THEN domain[c] ELSE None],
    owns <- [c \in Cores |-> Live(c) /\ ~lost[c]]
ImplementsWriterLock == Lock!Spec
=============================================================================
