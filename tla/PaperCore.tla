------------------------------ MODULE PaperCore ------------------------------
(***************************************************************************)
(* The B-01 PAPER reservation core: crates/core/src/paper.rs over the      *)
(* tables of migrations/0001_paper_core.sql.                               *)
(*                                                                         *)
(* A core (a PaperCore value in some process) holds the single-writer lock *)
(* of one account-instrument domain on a lock session of its own, and runs *)
(* reserve_plan transactions on pooled connections:                        *)
(*                                                                         *)
(*   begin -> request lock -> idempotency lookup -> balance locks in       *)
(*   (venue, asset) order, each followed by its funds check -> inserts ->  *)
(*   commit                                                                *)
(*                                                                         *)
(* Every awaited statement is a step of its own, so the transactions of    *)
(* several cores, set_paper_balance, crashes, lost lock sessions and lost  *)
(* commit acknowledgements interleave.  A transaction's writes become      *)
(* visible when it commits; rollback drops them and its transaction-level  *)
(* locks, which is what PostgreSQL does for it.                            *)
(*                                                                         *)
(* One row of `plans' stands for everything insert_plan writes in one      *)
(* transaction: the RESERVED plan, its risk decision, its fund             *)
(* reservations, its two NOT_SENT intents and its audit event.  No         *)
(* statement of the repository moves a plan out of RESERVED or releases a  *)
(* reservation, so rows only accumulate.                                   *)
(***************************************************************************)
EXTENDS Integers, FiniteSets, Sums

CONSTANTS
    Cores,      \* PaperCore values, of any number of processes
    Domains,    \* account-instrument execution domains
    RequestIds, \* business idempotency keys
    PlanIds,    \* internal plan ids
    NBalances,  \* the balances are 1 .. NBalances, numbered in (venue, asset) order
    Requests,   \* the reserve_plan requests that may be submitted
    FreeValues, \* observed_free values an operator may initialise a balance with
    None        \* no domain, no request

Balances == 1 .. NBalances

RequestType ==
    [id : RequestIds, plan : PlanIds, domain : Domains, need : [Balances -> Nat]]

\* The balances a request reserves funds on.
Wanted(q) == {b \in Balances : q.need[b] > 0}

ASSUME PaperAssumption ==
    /\ NBalances \in Nat \ {0}
    /\ Requests \subseteq RequestType
    /\ \A q \in Requests : Wanted(q) # {}   \* "at least one fund reservation is required"
    /\ FreeValues \subseteq Nat
    /\ None \notin Domains \cup Requests

VARIABLES
    \* committed rows
    known,      \* balances that have a paper_balances row
    free,       \* observed_free of each row
    reserved,   \* local_reserved of each row
    plans,      \* committed plans, each as the request content it was made from
    \* the cores
    writer,     \* the domain a core was acquired for
    holdsLock,  \* whether its lock session still owns the domain's advisory lock
    pc,         \* what its reserve_plan call is about to do
    req,        \* the request that call was given
    locked,     \* balance locks its transaction holds
    acked       \* requests for which reserve_plan has returned a plan

rows == <<known, free, reserved, plans>>
domainVars == <<writer, holdsLock>>
callVars == <<pc, req, locked>>
vars == <<known, free, reserved, plans, writer, holdsLock, pc, req, locked, acked>>

-----------------------------------------------------------------------------
\* Locks and waits

\* The transaction-level advisory lock on the request id is held from the
\* lookup to the end of the transaction.
HoldsRequestLock(c) == pc[c] \in {"lookup", "balances", "insert", "commit"}

RequestLockFree(id) ==
    \A d \in Cores : HoldsRequestLock(d) => req[d].id # id

BalanceLockFree(b) == \A d \in Cores : b \notin locked[d]

\* Mutant of IsNextBalance: the reservations are locked as the request lists them.
IsNextBalance_Unsorted(c, b) == b \in Wanted(req[c]) \ locked[c]

\* reserve_plan locks its balances in ascending order: b is the next one.
IsNextBalance(c, b) ==
    /\ b \in Wanted(req[c]) \ locked[c]
    /\ \A a \in Wanted(req[c]) \ locked[c] : b <= a

\* Mutant of Clash: the index on the one active plan of a domain is missing.
Clash_NoDomainIndex(q, r) == q.plan = r.plan

\* Two plan rows that one of the unique indexes of execution_plans keeps apart:
\* the primary key, and the one active plan of a domain.
Clash(q, r) == q.plan = r.plan \/ q.domain = r.domain

\* An insert waits for an open transaction that already inserted a clashing row.
InsertWaitsFor(c, d) == d # c /\ pc[d] = "commit" /\ Clash(req[c], req[d])

\* Mutant of Idle: the transaction ends without releasing its balance locks.
Idle_LocksLeak(c) ==
    /\ pc' = [pc EXCEPT ![c] = "idle"]
    /\ req' = [req EXCEPT ![c] = None]
    /\ UNCHANGED locked

\* The call and its transaction are over: answered, refused, failed or rolled back.
Idle(c) ==
    /\ pc' = [pc EXCEPT ![c] = "idle"]
    /\ req' = [req EXCEPT ![c] = None]
    /\ locked' = [locked EXCEPT ![c] = {}]

-----------------------------------------------------------------------------
Init ==
    /\ known = {}
    /\ free = [b \in Balances |-> 0]
    /\ reserved = [b \in Balances |-> 0]
    /\ plans = {}
    /\ writer = [c \in Cores |-> None]
    /\ holdsLock = [c \in Cores |-> FALSE]
    /\ pc = [c \in Cores |-> "idle"]
    /\ req = [c \in Cores |-> None]
    /\ locked = [c \in Cores |-> {}]
    /\ acked = {}

\* Mutant of SetPaperBalance: active reservations are not looked for.
SetPaperBalance_Unchecked(b, f) ==
    /\ BalanceLockFree(b)
    /\ known' = known \cup {b}
    /\ free' = [free EXCEPT ![b] = f]
    /\ reserved' = [reserved EXCEPT ![b] = 0]
    /\ UNCHANGED <<plans, domainVars, callVars, acked>>

\* set_paper_balance: one transaction under the balance's lock that refuses to
\* replace a balance with active reservations.
SetPaperBalance(b, f) ==
    /\ BalanceLockFree(b)
    /\ \A q \in plans : b \notin Wanted(q)
    /\ known' = known \cup {b}
    /\ free' = [free EXCEPT ![b] = f]
    /\ reserved' = [reserved EXCEPT ![b] = 0]
    /\ UNCHANGED <<plans, domainVars, callVars, acked>>

\* PaperCore::acquire: pg_try_advisory_lock on the domain; a refusal changes nothing.
Acquire(c, d) ==
    /\ writer[c] = None
    /\ \A e \in Cores : ~(holdsLock[e] /\ writer[e] = d)
    /\ writer' = [writer EXCEPT ![c] = d]
    /\ holdsLock' = [holdsLock EXCEPT ![c] = TRUE]
    /\ UNCHANGED <<rows, callVars, acked>>

\* PaperCore::disconnect consumes the core, so no call of it is open.
Disconnect(c) ==
    /\ writer[c] # None
    /\ pc[c] = "idle"
    /\ writer' = [writer EXCEPT ![c] = None]
    /\ holdsLock' = [holdsLock EXCEPT ![c] = FALSE]
    /\ UNCHANGED <<rows, callVars, acked>>

\* The process of a core dies: its lock session ends, its transaction rolls back.
Crash(c) ==
    /\ writer[c] # None
    /\ writer' = [writer EXCEPT ![c] = None]
    /\ holdsLock' = [holdsLock EXCEPT ![c] = FALSE]
    /\ Idle(c)
    /\ UNCHANGED <<rows, acked>>

\* The server ends the idle lock session.  The core runs its queries on other
\* connections of the pool and does not notice.
LoseLockSession(c) ==
    /\ holdsLock[c]
    /\ holdsLock' = [holdsLock EXCEPT ![c] = FALSE]
    /\ UNCHANGED <<rows, writer, callVars, acked>>

\* reserve_plan: the request passes validate_request (its domain is the core's)
\* and the transaction begins.
ReservePlan(c, q) ==
    /\ pc[c] = "idle"
    /\ writer[c] = q.domain
    /\ pc' = [pc EXCEPT ![c] = "request"]
    /\ req' = [req EXCEPT ![c] = q]
    /\ UNCHANGED <<rows, domainVars, locked, acked>>

LockRequest(c) ==
    /\ pc[c] = "request"
    /\ RequestLockFree(req[c].id)
    /\ pc' = [pc EXCEPT ![c] = "lookup"]
    /\ UNCHANGED <<rows, domainVars, req, locked, acked>>

\* Mutant of LookupMiss: the lookup is skipped.
LookupMiss_Skipped(c) ==
    /\ pc[c] = "lookup"
    /\ pc' = [pc EXCEPT ![c] = "balances"]
    /\ UNCHANGED <<rows, domainVars, req, locked, acked>>

\* The idempotency lookup found no plan of this request id.
LookupMiss(c) ==
    /\ pc[c] = "lookup"
    /\ \A q \in plans : q.id # req[c].id
    /\ pc' = [pc EXCEPT ![c] = "balances"]
    /\ UNCHANGED <<rows, domainVars, req, locked, acked>>

\* The digest of a request: its intents sorted by leg and its reservations by
\* balance, so two requests with one digest have the same content.
SameDigest(q, r) == q = r

\* Mutant of LookupHit: the stored digest is not compared.
LookupHit_AnyDigest(c) ==
    /\ pc[c] = "lookup"
    /\ \E q \in plans : q.id = req[c].id
    /\ acked' = acked \cup {req[c]}
    /\ Idle(c)
    /\ UNCHANGED <<rows, domainVars>>

\* The request id is bound already: the plan of the same digest is returned,
\* other content is refused.
LookupHit(c) ==
    /\ pc[c] = "lookup"
    /\ \E q \in plans :
          /\ q.id = req[c].id
          /\ acked' = IF SameDigest(q, req[c]) THEN acked \cup {req[c]} ELSE acked
    /\ Idle(c)
    /\ UNCHANGED <<rows, domainVars>>

\* Mutant of LockBalance: what is reserved already does not count.
LockBalance_IgnoresReserved(c, b) ==
    /\ pc[c] = "balances"
    /\ IsNextBalance(c, b)
    /\ BalanceLockFree(b)
    /\ b \in known
    /\ free[b] >= req[c].need[b]
    /\ locked' = [locked EXCEPT ![c] = @ \cup {b}]
    /\ pc' = [pc EXCEPT ![c] = IF locked'[c] = Wanted(req[c]) THEN "insert" ELSE @]
    /\ UNCHANGED <<rows, domainVars, req, acked>>

\* One round of lock_and_check_balances: lock the next balance; its row exists
\* and the available funds cover the request.
LockBalance(c, b) ==
    /\ pc[c] = "balances"
    /\ IsNextBalance(c, b)
    /\ BalanceLockFree(b)
    /\ b \in known
    /\ free[b] - reserved[b] >= req[c].need[b]
    /\ locked' = [locked EXCEPT ![c] = @ \cup {b}]
    /\ pc' = [pc EXCEPT ![c] = IF locked'[c] = Wanted(req[c]) THEN "insert" ELSE @]
    /\ UNCHANGED <<rows, domainVars, req, acked>>

\* The same round when the row is missing or the funds do not suffice.
RefuseBalance(c, b) ==
    /\ pc[c] = "balances"
    /\ IsNextBalance(c, b)
    /\ BalanceLockFree(b)
    /\ b \notin known \/ free[b] - reserved[b] < req[c].need[b]
    /\ Idle(c)
    /\ UNCHANGED <<rows, domainVars, acked>>

\* insert_plan: the rows are written but not yet visible.
InsertPlan(c) ==
    /\ pc[c] = "insert"
    /\ \A d \in Cores : ~InsertWaitsFor(c, d)
    /\ \A q \in plans : ~Clash(req[c], q)
    /\ pc' = [pc EXCEPT ![c] = "commit"]
    /\ UNCHANGED <<rows, domainVars, req, locked, acked>>

\* insert_plan hits a unique index: the transaction rolls back.
RefuseInsert(c) ==
    /\ pc[c] = "insert"
    /\ \A d \in Cores : ~InsertWaitsFor(c, d)
    /\ \E q \in plans : Clash(req[c], q)
    /\ Idle(c)
    /\ UNCHANGED <<rows, domainVars, acked>>

\* Mutant of StorePlan: reserving takes from local_reserved.
StorePlan_WrongSign(q) ==
    /\ plans' = plans \cup {q}
    /\ reserved' = [b \in Balances |-> reserved[b] - q.need[b]]
    /\ UNCHANGED <<known, free>>

\* What a committed insert_plan leaves in the tables.
StorePlan(q) ==
    /\ plans' = plans \cup {q}
    /\ reserved' = [b \in Balances |-> reserved[b] + q.need[b]]
    /\ UNCHANGED <<known, free>>

\* The commit is acknowledged and load_plan returns the stored plan.
Commit(c) ==
    /\ pc[c] = "commit"
    /\ StorePlan(req[c])
    /\ acked' = acked \cup {req[c]}
    /\ Idle(c)
    /\ UNCHANGED domainVars

\* The commit is durable but its acknowledgement, or the load_plan after it, is
\* lost: the caller sees an error and may retry.
CommitUnacknowledged(c) ==
    /\ pc[c] = "commit"
    /\ StorePlan(req[c])
    /\ Idle(c)
    /\ UNCHANGED <<domainVars, acked>>

\* A statement fails, or the future of the call is dropped, before the commit:
\* the sqlx transaction rolls back.
Abort(c) ==
    /\ pc[c] # "idle"
    /\ Idle(c)
    /\ UNCHANGED <<rows, domainVars, acked>>

Next ==
    \/ \E b \in Balances, f \in FreeValues : SetPaperBalance(b, f)
    \/ \E c \in Cores :
          \/ \E d \in Domains : Acquire(c, d)
          \/ Disconnect(c)
          \/ Crash(c)
          \/ LoseLockSession(c)
          \/ \E q \in Requests : ReservePlan(c, q)
          \/ LockRequest(c)
          \/ LookupMiss(c)
          \/ LookupHit(c)
          \/ \E b \in Balances : LockBalance(c, b) \/ RefuseBalance(c, b)
          \/ InsertPlan(c)
          \/ RefuseInsert(c)
          \/ Commit(c)
          \/ CommitUnacknowledged(c)
          \/ Abort(c)

Spec == Init /\ [][Next]_vars

\* A core keeps executing its call; PostgreSQL grants a lock to its waiters in
\* arrival order, hence strong fairness where a statement waits for a lock.
\* Nobody is obliged to start a call, to fail or to crash.
Fairness ==
    \A c \in Cores :
        /\ SF_vars(LockRequest(c))
        /\ WF_vars(LookupMiss(c) \/ LookupHit(c))
        /\ SF_vars(\E b \in Balances : LockBalance(c, b) \/ RefuseBalance(c, b))
        /\ SF_vars(InsertPlan(c) \/ RefuseInsert(c))
        /\ WF_vars(Commit(c) \/ CommitUnacknowledged(c))

FairSpec == Spec /\ Fairness

-----------------------------------------------------------------------------
\* Every variable stays in its range, and a transaction holds locks only on
\* balances its request names.
TypeOK ==
    /\ known \subseteq Balances
    /\ free \in [Balances -> Nat]
    /\ reserved \in [Balances -> Nat]
    /\ plans \subseteq Requests
    /\ writer \in [Cores -> Domains \cup {None}]
    /\ holdsLock \in [Cores -> BOOLEAN]
    /\ pc \in [Cores -> {"idle", "request", "lookup", "balances", "insert", "commit"}]
    /\ req \in [Cores -> Requests \cup {None}]
    /\ locked \in [Cores -> SUBSET Balances]
    /\ acked \subseteq Requests

\* What a transaction has checked stays true until it commits: whatever the other
\* cores and set_paper_balance do meanwhile, the balances it has locked still
\* exist and still cover its request (the FOR UPDATE of lock_and_check_balances).
CheckedFundsHeld ==
    \A c \in Cores : \A b \in locked[c] :
        /\ b \in known
        /\ reserved[b] + req[c].need[b] <= free[b]

\* Plans of different domains share balances, yet the total reserved on a balance
\* never exceeds its observed_free: the CHECK of paper_balances is never hit.
NoOvercommit == \A b \in Balances : reserved[b] <= free[b]

\* local_reserved is the sum of the reservations of the committed plans: no lost
\* update between two cores and no reset under an active reservation.
FundsConserved ==
    \A b \in Balances :
        reserved[b] = SumOver([q \in plans |-> q.need[b]], plans)

\* A check that passed holds at the time of the insert, and what is reserved is what
\* the committed plans reserve.
FundsAccounted == CheckedFundsHeld /\ FundsConserved

\* A request id is bound to one plan for ever, a plan id to one request, and a
\* domain to one active plan, even after a lost lock session has let two cores
\* write for one domain.
PlansUnique ==
    \A q, r \in plans :
        (q.id = r.id \/ q.plan = r.plan \/ q.domain = r.domain) => q = r

\* What recovered_plan makes of the rows of a plan: a reservation row exists for
\* the balances the request wanted.
RecoveredPlan(q) ==
    [id |-> q.id, plan |-> q.plan, domain |-> q.domain,
     reservations |-> {<<b, q.need[b]>> : b \in Wanted(q)}]

\* load_plan: the row of the plan id.
LoadPlan(id) == CHOOSE q \in plans : q.plan = id

\* recover_active_plans lists the plans of the core's domain and loads each.
RecoverActivePlans(d) ==
    {RecoveredPlan(LoadPlan(q.plan)) : q \in {p \in plans : p.domain = d}}

\* A plan that reserve_plan has returned to a caller, at once or as a replay, is
\* what any later core of its domain recovers, with exactly the content of the
\* caller's request and nothing beside it: crashes, lost acknowledgements,
\* retries and a second writer never take it away or add another.
AckedPlansDurable ==
    \A q \in acked : RecoverActivePlans(q.domain) = {RecoveredPlan(q)}

\* c cannot take its next step until the transaction of d ends.
WaitsFor(c, d) ==
    /\ c # d
    /\ \/ /\ pc[c] = "request"
          /\ HoldsRequestLock(d)
          /\ req[d].id = req[c].id
       \/ /\ pc[c] = "balances"
          /\ \E b \in locked[d] : IsNextBalance(c, b)
       \/ /\ pc[c] = "insert"
          /\ InsertWaitsFor(c, d)

\* The transactions never wait for one another in a circle: in every set of
\* cores one waits for none of the others.  The sort in lock_and_check_balances
\* is what rules the circle out.
NoWaitCycle ==
    \A S \in (SUBSET Cores) \ {{}} :
        \E c \in S : \A d \in S : ~WaitsFor(c, d)

\* Every reserve_plan call returns: a waiting transaction gets its lock, and a
\* call is answered or refused.
EveryCallReturns == \A c \in Cores : pc[c] # "idle" ~> pc[c] = "idle"

\* B-01 design, section 8: with the lock qualification lost, new PAPER plans are
\* forbidden.  A plan may only be committed by a core whose lock session is alive.
LockLossForbidsPlans ==
    [][\A c \in Cores :
          pc[c] = "commit" /\ req[c] \in plans' \ plans => holdsLock[c]]_vars

\* The reservation transactions implement the ledger in which a whole
\* reservation is one indivisible step.
Ledger == INSTANCE ReservationLedger
ImplementsLedger == Ledger!Spec
=============================================================================
