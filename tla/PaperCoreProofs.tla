--------------------------- MODULE PaperCoreProofs ---------------------------
(***************************************************************************)
(* Theorems about PaperCore, for every number of cores, domains, balances  *)
(* and requests.                                                           *)
(*                                                                         *)
(* None of the safety properties is inductive by itself.  IInv adds the    *)
(* discipline of the locks: who may hold which lock at which point of a    *)
(* reservation, that no two transactions hold the same one, and that the   *)
(* balances a transaction has locked lie below all it still has to lock.   *)
(***************************************************************************)
EXTENDS PaperCore, SumTheorems

InTransaction(c) == pc[c] \in {"balances", "insert", "commit"}

\* A call has a request exactly while it is open; balance locks are taken from
\* the balance phase on, in ascending order, and are complete before the insert.
CallShape ==
    \A c \in Cores :
        /\ pc[c] # "idle" => req[c] \in Requests
        /\ ~InTransaction(c) => locked[c] = {}
        /\ InTransaction(c) => locked[c] \subseteq Wanted(req[c])
        /\ pc[c] \in {"insert", "commit"} => locked[c] = Wanted(req[c])
        /\ pc[c] = "balances" =>
              \A a \in locked[c], b \in Wanted(req[c]) \ locked[c] : a < b

\* No two transactions hold one lock.
LocksExclusive ==
    \A c, d \in Cores : c # d =>
        /\ locked[c] \cap locked[d] = {}
        /\ HoldsRequestLock(c) /\ HoldsRequestLock(d) => req[c].id # req[d].id

\* Past the lookup the request id is unbound; an inserted row clashes with no
\* committed row and with no other inserted row.
Unbound ==
    \A c \in Cores :
        /\ InTransaction(c) => \A q \in plans : q.id # req[c].id
        /\ pc[c] = "commit" =>
              /\ \A q \in plans : ~Clash(req[c], q)
              /\ \A d \in Cores : ~InsertWaitsFor(c, d)

\* What has been returned is stored.
AckedStored == acked \subseteq plans

IInv ==
    /\ TypeOK
    /\ CallShape
    /\ LocksExclusive
    /\ CheckedFundsHeld
    /\ NoOvercommit
    /\ Unbound
    /\ PlansUnique
    /\ AckedStored

-----------------------------------------------------------------------------
\* What is true initially.
LEMMA InitIInv == Init => IInv
BY PaperAssumption
   DEF Init, IInv, TypeOK, CallShape, LocksExclusive, CheckedFundsHeld, NoOvercommit,
       Unbound, PlansUnique, AckedStored, InTransaction, HoldsRequestLock,
       Balances, InsertWaitsFor

\* Needs are naturals, and zero on the balances a request does not want.
LEMMA Needs ==
    ASSUME NEW q \in Requests, NEW b \in Balances
    PROVE  /\ q.need[b] \in Nat
           /\ b \notin Wanted(q) => q.need[b] = 0
BY PaperAssumption DEF RequestType, Wanted

\* Ending a call, whatever the reason, keeps every part of the invariant that
\* speaks about calls, if the rows do not change.
LEMMA IdleKeepsCalls ==
    ASSUME IInv, NEW c \in Cores, Idle(c), UNCHANGED rows
    PROVE  /\ pc' \in [Cores -> {"idle", "request", "lookup", "balances", "insert", "commit"}]
           /\ req' \in [Cores -> Requests \cup {None}]
           /\ locked' \in [Cores -> SUBSET Balances]
           /\ CallShape'
           /\ LocksExclusive'
           /\ CheckedFundsHeld'
           /\ Unbound'
<1> USE DEF IInv, TypeOK, Idle, rows
<1>1. /\ pc' \in [Cores -> {"idle", "request", "lookup", "balances", "insert", "commit"}]
      /\ req' \in [Cores -> Requests \cup {None}]
      /\ locked' \in [Cores -> SUBSET Balances]
  OBVIOUS
<1>2. CallShape'
  BY DEF CallShape, InTransaction, Wanted
<1>3. LocksExclusive'
  BY DEF LocksExclusive, HoldsRequestLock
<1>4. CheckedFundsHeld'
  BY DEF CheckedFundsHeld
<1>5. Unbound'
  BY DEF Unbound, InTransaction, InsertWaitsFor, Clash
<1> QED BY <1>1, <1>2, <1>3, <1>4, <1>5

-----------------------------------------------------------------------------
\* Each action preserves the invariant.

\* set_paper_balance needs the balance lock and an unreserved balance: no open
\* transaction has checked that balance, no plan has a reservation on it.
LEMMA SetPaperBalanceInv ==
    ASSUME IInv, NEW b \in Balances, NEW f \in FreeValues, SetPaperBalance(b, f)
    PROVE  IInv'
<1> USE DEF SetPaperBalance, IInv, callVars, domainVars
<1>1. TypeOK'
  BY PaperAssumption DEF TypeOK
<1>2. CallShape'
  BY DEF CallShape, InTransaction
<1>3. LocksExclusive'
  BY DEF LocksExclusive, HoldsRequestLock
<1>4. CheckedFundsHeld'
  BY DEF CheckedFundsHeld, BalanceLockFree, TypeOK
<1>5. NoOvercommit'
  <2>1. reserved' \in [Balances -> Nat] /\ reserved \in [Balances -> Nat]
    BY <1>1 DEF TypeOK
  <2> QED BY <2>1, PaperAssumption DEF NoOvercommit, TypeOK
<1>6. Unbound'
  BY DEF Unbound, InTransaction, InsertWaitsFor
<1>7. PlansUnique' /\ AckedStored'
  BY DEF PlansUnique, AckedStored
<1> QED BY <1>1, <1>2, <1>3, <1>4, <1>5, <1>6, <1>7

\* Taking, giving back and losing the domain lock touches nothing the safety of
\* the reservations rests on.
LEMMA DomainLockInv ==
    ASSUME IInv, NEW c \in Cores,
           \/ \E d \in Domains : Acquire(c, d)
           \/ Disconnect(c)
           \/ LoseLockSession(c)
    PROVE  IInv'
<1>1. UNCHANGED <<rows, callVars, acked>>
  BY DEF Acquire, Disconnect, LoseLockSession
<1>2. TypeOK'
  <2>1. writer' \in [Cores -> Domains \cup {None}] /\ holdsLock' \in [Cores -> BOOLEAN]
    BY DEF IInv, TypeOK, Acquire, Disconnect, LoseLockSession
  <2> QED BY <1>1, <2>1 DEF IInv, TypeOK, rows, callVars
<1> USE <1>1 DEF IInv, rows, callVars
<1>3. CallShape' /\ LocksExclusive'
  BY DEF CallShape, InTransaction, LocksExclusive, HoldsRequestLock
<1>4. CheckedFundsHeld' /\ NoOvercommit'
  BY DEF CheckedFundsHeld, NoOvercommit
<1>5. Unbound'
  BY DEF Unbound, InTransaction, InsertWaitsFor
<1>6. PlansUnique' /\ AckedStored'
  BY DEF PlansUnique, AckedStored
<1> QED BY <1>2, <1>3, <1>4, <1>5, <1>6

\* The ways a call ends without a commit.
LEMMA EndedCallInv ==
    ASSUME IInv, NEW c \in Cores,
           \/ Crash(c)
           \/ Abort(c)
           \/ RefuseInsert(c)
           \/ \E b \in Balances : RefuseBalance(c, b)
           \/ LookupHit(c)
    PROVE  IInv'
<1>1. Idle(c) /\ UNCHANGED rows
  BY DEF Crash, Abort, RefuseInsert, RefuseBalance, LookupHit
<1>2. acked' \subseteq plans /\ acked' \subseteq Requests
  <2>1. CASE LookupHit(c)
    BY <2>1 DEF LookupHit, SameDigest, IInv, TypeOK, AckedStored
  <2>2. CASE acked' = acked
    BY <2>2 DEF IInv, TypeOK, AckedStored
  <2> QED
    BY <2>1, <2>2 DEF Crash, Abort, RefuseInsert, RefuseBalance
<1>3. writer' \in [Cores -> Domains \cup {None}] /\ holdsLock' \in [Cores -> BOOLEAN]
  BY DEF Crash, Abort, RefuseInsert, RefuseBalance, LookupHit, domainVars, IInv, TypeOK
<1>4. TypeOK'
  BY <1>1, <1>2, <1>3, IdleKeepsCalls DEF IInv, TypeOK, rows
<1>5. NoOvercommit' /\ PlansUnique' /\ AckedStored'
  BY <1>1, <1>2 DEF IInv, NoOvercommit, PlansUnique, AckedStored, rows
<1> QED
  BY <1>1, <1>4, <1>5, IdleKeepsCalls DEF IInv

\* The call moves on without touching a balance lock: it begins, gets the lock
\* of its request id, or learns that the id is unbound.
LEMMA EarlyStepInv ==
    ASSUME IInv, NEW c \in Cores,
           \/ \E q \in Requests : ReservePlan(c, q)
           \/ LockRequest(c)
           \/ LookupMiss(c)
    PROVE  IInv'
<1> USE DEF IInv
<1>1. UNCHANGED <<rows, locked, acked, writer, holdsLock>>
  BY DEF ReservePlan, LockRequest, LookupMiss, domainVars
<1>2. /\ locked[c] = {}
      /\ pc' = [pc EXCEPT ![c] = pc'[c]]
      /\ pc'[c] \in {"request", "lookup", "balances"}
      /\ req' = [req EXCEPT ![c] = req'[c]]
      /\ req'[c] \in Requests
  BY DEF ReservePlan, LockRequest, LookupMiss, TypeOK, CallShape, InTransaction
<1>3. TypeOK'
  BY <1>1, <1>2 DEF TypeOK, rows
<1>4. CallShape'
  BY <1>1, <1>2 DEF CallShape, InTransaction, TypeOK
<1>5. LocksExclusive'
  <2>1. CASE LockRequest(c)
    BY <1>1, <1>2, <2>1 DEF LockRequest, LocksExclusive, HoldsRequestLock, RequestLockFree, TypeOK
  <2>2. CASE LookupMiss(c)
    BY <1>1, <1>2, <2>2 DEF LookupMiss, LocksExclusive, HoldsRequestLock, TypeOK
  <2>3. ASSUME NEW q \in Requests, ReservePlan(c, q) PROVE LocksExclusive'
    BY <1>1, <1>2, <2>3 DEF ReservePlan, LocksExclusive, HoldsRequestLock, TypeOK
  <2> QED BY <2>1, <2>2, <2>3
<1>6. CheckedFundsHeld' /\ NoOvercommit'
  BY <1>1, <1>2 DEF CheckedFundsHeld, NoOvercommit, TypeOK, rows
<1>7. Unbound'
  <2>1. \A d \in Cores : d # c => pc'[d] = pc[d] /\ req'[d] = req[d]
    BY <1>2 DEF TypeOK
  <2>2. pc'[c] = "balances" => \A q \in plans : q.id # req'[c].id
    BY DEF LookupMiss, LockRequest, ReservePlan, TypeOK
  <2> QED
    BY <1>1, <1>2, <2>1, <2>2 DEF Unbound, InTransaction, InsertWaitsFor, rows, TypeOK
<1>8. PlansUnique' /\ AckedStored'
  BY <1>1 DEF PlansUnique, AckedStored, rows
<1> QED BY <1>3, <1>4, <1>5, <1>6, <1>7, <1>8

\* A balance is locked only when nobody holds it and its funds suffice, and it is
\* the lowest of those still to be locked.
LEMMA LockBalanceInv ==
    ASSUME IInv, NEW c \in Cores, NEW b \in Balances, LockBalance(c, b)
    PROVE  IInv'
<1> USE DEF IInv
<1>1. /\ UNCHANGED <<rows, req, acked, writer, holdsLock>>
      /\ locked' = [locked EXCEPT ![c] = locked[c] \cup {b}]
      /\ pc' = [pc EXCEPT ![c] = pc'[c]]
      /\ pc'[c] \in {"balances", "insert"}
      /\ pc'[c] = "insert" => locked'[c] = Wanted(req[c])
      /\ pc[c] = "balances"
  BY DEF LockBalance, domainVars, TypeOK
<1>2. /\ req[c] \in Requests
      /\ b \in Wanted(req[c]) \ locked[c]
      /\ \A a \in Wanted(req[c]) \ locked[c] : b <= a
      /\ locked[c] \subseteq Wanted(req[c])
  BY <1>1 DEF LockBalance, IsNextBalance, CallShape, InTransaction
<1>3. TypeOK'
  BY <1>1 DEF TypeOK, rows
<1>4. CallShape'
  <2>1. \A a \in locked'[c], e \in Wanted(req[c]) \ locked'[c] : a < e
    BY <1>1, <1>2, PaperAssumption DEF CallShape, TypeOK, Balances, Wanted
  <2> QED
    BY <1>1, <1>2, <2>1 DEF CallShape, InTransaction, TypeOK, Wanted
<1>5. LocksExclusive'
  BY <1>1 DEF LocksExclusive, HoldsRequestLock, LockBalance, BalanceLockFree, TypeOK
<1>6. CheckedFundsHeld' /\ NoOvercommit'
  BY <1>1, <1>2, Needs DEF CheckedFundsHeld, NoOvercommit, LockBalance, TypeOK, rows
<1>7. Unbound'
  BY <1>1 DEF Unbound, InTransaction, InsertWaitsFor, TypeOK, rows
<1>8. PlansUnique' /\ AckedStored'
  BY <1>1 DEF PlansUnique, AckedStored, rows
<1> QED BY <1>3, <1>4, <1>5, <1>6, <1>7, <1>8

\* A row is inserted only when no open transaction and no committed row clashes.
LEMMA InsertPlanInv ==
    ASSUME IInv, NEW c \in Cores, InsertPlan(c)
    PROVE  IInv'
<1> USE DEF IInv
<1>1. /\ UNCHANGED <<rows, req, locked, acked, writer, holdsLock>>
      /\ pc' = [pc EXCEPT ![c] = "commit"]
      /\ pc[c] = "insert"
  BY DEF InsertPlan, domainVars
<1>2. TypeOK'
  BY <1>1 DEF TypeOK, rows
<1>3. CallShape' /\ LocksExclusive'
  BY <1>1 DEF CallShape, InTransaction, LocksExclusive, HoldsRequestLock, TypeOK
<1>4. CheckedFundsHeld' /\ NoOvercommit'
  BY <1>1 DEF CheckedFundsHeld, NoOvercommit, rows
<1>5. Unbound'
  BY <1>1 DEF InsertPlan, Unbound, InTransaction, InsertWaitsFor, Clash, TypeOK, rows
<1>6. PlansUnique' /\ AckedStored'
  BY <1>1 DEF PlansUnique, AckedStored, rows
<1> QED BY <1>2, <1>3, <1>4, <1>5, <1>6

\* What holds of the row a transaction is about to commit.
LEMMA ReadyToCommit ==
    ASSUME IInv, NEW c \in Cores, pc[c] = "commit"
    PROVE  /\ req[c] \in Requests
           /\ locked[c] = Wanted(req[c])
           /\ \A b \in Balances : req[c].need[b] \in Nat
           /\ \A b \in Balances : b \notin locked[c] => req[c].need[b] = 0
           /\ \A b \in locked[c] : b \in known /\ reserved[b] + req[c].need[b] <= free[b]
           /\ \A q \in plans : q.id # req[c].id /\ ~Clash(req[c], q)
<1>1. req[c] \in Requests /\ locked[c] = Wanted(req[c])
  BY DEF IInv, CallShape
<1>2. \A q \in plans : q.id # req[c].id /\ ~Clash(req[c], q)
  BY DEF IInv, Unbound, InTransaction
<1> QED
  BY <1>1, <1>2, Needs DEF IInv, CheckedFundsHeld

\* The commit adds the whole plan.  Balances it does not name keep their total,
\* and no other transaction has locked one that it names.
LEMMA CommitInv ==
    ASSUME IInv, NEW c \in Cores, Commit(c) \/ CommitUnacknowledged(c)
    PROVE  IInv'
<1>1. /\ pc[c] = "commit"
      /\ plans' = plans \cup {req[c]}
      /\ reserved' = [b \in Balances |-> reserved[b] + req[c].need[b]]
      /\ UNCHANGED <<known, free, writer, holdsLock>>
      /\ acked' \subseteq acked \cup {req[c]}
      /\ Idle(c)
  BY DEF Commit, CommitUnacknowledged, StorePlan, domainVars
<1>2. /\ req[c] \in Requests
      /\ locked[c] = Wanted(req[c])
      /\ \A b \in Balances : req[c].need[b] \in Nat
      /\ \A b \in Balances : b \notin locked[c] => req[c].need[b] = 0
      /\ \A b \in locked[c] : b \in known /\ reserved[b] + req[c].need[b] <= free[b]
      /\ \A q \in plans : q.id # req[c].id /\ ~Clash(req[c], q)
  BY <1>1, ReadyToCommit
<1>3. /\ pc'[c] = "idle"
      /\ locked'[c] = {}
      /\ \A d \in Cores : d # c => /\ pc'[d] = pc[d]
                                   /\ req'[d] = req[d]
                                   /\ locked'[d] = locked[d]
  BY <1>1 DEF Idle, IInv, TypeOK
<1>4. TypeOK'
  BY <1>1, <1>2 DEF Idle, IInv, TypeOK
<1>5. CallShape' /\ LocksExclusive'
  BY <1>3 DEF IInv, CallShape, InTransaction, LocksExclusive, HoldsRequestLock, Wanted
<1>6. CheckedFundsHeld'
  <2> SUFFICES ASSUME NEW d \in Cores, NEW b \in locked'[d]
               PROVE  b \in known' /\ reserved'[b] + req'[d].need[b] <= free'[b]
    BY DEF CheckedFundsHeld
  <2>1. d # c /\ b \in locked[d] /\ req'[d] = req[d]
    BY <1>3
  <2>2. b \notin locked[c] /\ b \in Balances
    BY <2>1 DEF IInv, LocksExclusive, TypeOK
  <2>3. reserved'[b] = reserved[b]
    BY <1>1, <1>2, <2>2 DEF IInv, TypeOK
  <2> QED
    BY <1>1, <2>1, <2>3 DEF IInv, CheckedFundsHeld
<1>7. NoOvercommit'
  BY <1>1, <1>2 DEF IInv, NoOvercommit, TypeOK
<1>8. Unbound'
  <2>1. ASSUME NEW d \in Cores, InTransaction(d)', NEW q \in plans'
        PROVE  q.id # req'[d].id
    <3>1. d # c /\ InTransaction(d)
      BY <1>3, <2>1 DEF InTransaction
    <3>2. q \in plans \/ q = req[c]
      BY <1>1
    <3>3. req[c].id # req[d].id
      BY <1>1, <3>1 DEF IInv, LocksExclusive, HoldsRequestLock, InTransaction
    <3> QED
      BY <1>3, <3>1, <3>2, <3>3 DEF IInv, Unbound
  <2>2. ASSUME NEW d \in Cores, pc'[d] = "commit"
        PROVE  /\ \A q \in plans' : ~Clash(req'[d], q)
               /\ \A e \in Cores : ~InsertWaitsFor(d, e)'
    <3>1. d # c /\ pc[d] = "commit"
      BY <1>3, <2>2
    <3>2. ~Clash(req[d], req[c])
      BY <1>1, <3>1 DEF IInv, Unbound, InsertWaitsFor
    <3>3. \A q \in plans : ~Clash(req[d], q)
      BY <3>1 DEF IInv, Unbound
    <3>4. \A e \in Cores : ~InsertWaitsFor(d, e)
      BY <3>1 DEF IInv, Unbound
    <3>5. \A e \in Cores : ~InsertWaitsFor(d, e)'
      BY <1>3, <3>1, <3>4 DEF InsertWaitsFor, Clash
    <3> QED
      BY <1>1, <1>3, <3>1, <3>2, <3>3, <3>5
  <2> QED
    BY <2>1, <2>2 DEF Unbound, InTransaction
<1>9. PlansUnique'
  BY <1>1, <1>2 DEF IInv, PlansUnique, Clash
<1>10. AckedStored'
  BY <1>1 DEF IInv, AckedStored
<1> QED
  BY <1>4, <1>5, <1>6, <1>7, <1>8, <1>9, <1>10 DEF IInv

LEMMA NextIInv == IInv /\ [Next]_vars => IInv'
<1> SUFFICES ASSUME IInv, [Next]_vars PROVE IInv'
  OBVIOUS
<1>1. ASSUME NEW b \in Balances, NEW f \in FreeValues, SetPaperBalance(b, f) PROVE IInv'
  BY <1>1, SetPaperBalanceInv
<1>2. ASSUME NEW c \in Cores,
             (\E d \in Domains : Acquire(c, d)) \/ Disconnect(c) \/ LoseLockSession(c)
      PROVE  IInv'
  BY <1>2, DomainLockInv
<1>3. ASSUME NEW c \in Cores,
             \/ Crash(c) \/ Abort(c) \/ RefuseInsert(c) \/ LookupHit(c)
             \/ \E b \in Balances : RefuseBalance(c, b)
      PROVE  IInv'
  BY <1>3, EndedCallInv
<1>4. ASSUME NEW c \in Cores,
             (\E q \in Requests : ReservePlan(c, q)) \/ LockRequest(c) \/ LookupMiss(c)
      PROVE  IInv'
  BY <1>4, EarlyStepInv
<1>5. ASSUME NEW c \in Cores, NEW b \in Balances, LockBalance(c, b) PROVE IInv'
  BY <1>5, LockBalanceInv
<1>6. ASSUME NEW c \in Cores, InsertPlan(c) PROVE IInv'
  BY <1>6, InsertPlanInv
<1>7. ASSUME NEW c \in Cores, Commit(c) \/ CommitUnacknowledged(c) PROVE IInv'
  BY <1>7, CommitInv
<1>8. CASE UNCHANGED vars
  BY <1>8 DEF vars, IInv, TypeOK, CallShape, LocksExclusive, CheckedFundsHeld, NoOvercommit,
              Unbound, PlansUnique, AckedStored, InTransaction, HoldsRequestLock,
              InsertWaitsFor
<1> QED
  BY <1>1, <1>2, <1>3, <1>4, <1>5, <1>6, <1>7, <1>8 DEF Next

LEMMA SpecIInv == Spec => []IInv
BY InitIInv, NextIInv, PTL DEF Spec

-----------------------------------------------------------------------------
\* The theorems about the core.

\* Type correctness.
THEOREM TypeCorrect == Spec => []TypeOK
BY SpecIInv, PTL DEF IInv

\* Funds a transaction has checked cannot be taken from under it, and no balance
\* is ever reserved beyond its observed_free (B01-R04).
THEOREM FundsSafe == Spec => [](CheckedFundsHeld /\ NoOvercommit)
BY SpecIInv, PTL DEF IInv

\* A request id stays bound to one plan and a domain has one active plan
\* (B01-R05), with or without the domain lock.
THEOREM PlansStayUnique == Spec => []PlansUnique
BY SpecIInv, PTL DEF IInv

\* The rows of plans are finitely many and their needs are what is reserved.
FundsInv == IsFiniteSet(plans) /\ FundsConserved

\* A balance that is set is one no stored plan needs anything of; a commit adds to each
\* balance what the new plan needs of it.
LEMMA FundsStep == IInv /\ FundsInv /\ [Next]_vars => FundsInv'
<1> SUFFICES ASSUME IInv, FundsInv, [Next]_vars PROVE FundsInv'
  OBVIOUS
<1> DEFINE Need(b) == [q \in plans |-> q.need[b]]
<1>0. plans \subseteq Requests /\ \A q \in plans, b \in Balances : q.need[b] \in Nat
  BY Needs DEF IInv, TypeOK
<1>1. ASSUME NEW a \in Balances, NEW f \in FreeValues, SetPaperBalance(a, f)
      PROVE  FundsInv'
  <2>1. plans' = plans /\ reserved' = [reserved EXCEPT ![a] = 0]
    BY <1>1 DEF SetPaperBalance
  <2>2. SumOver(Need(a), plans) = 0
    <3>1. \A q \in plans : Need(a)[q] = 0
      BY <1>0, <1>1, Needs DEF SetPaperBalance
    <3> HIDE DEF Need
    <3> QED BY <3>1, SumZero DEF FundsInv
  <2> QED
    BY <2>1, <2>2 DEF FundsInv, FundsConserved, IInv, TypeOK
<1>2. ASSUME NEW c \in Cores, Commit(c) \/ CommitUnacknowledged(c)
      PROVE  FundsInv'
  <2>1. /\ pc[c] = "commit"
        /\ plans' = plans \cup {req[c]}
        /\ reserved' = [b \in Balances |-> reserved[b] + req[c].need[b]]
    BY <1>2 DEF Commit, CommitUnacknowledged, StorePlan
  <2>2. /\ req[c] \notin plans
        /\ \A b \in Balances : req[c].need[b] \in Nat
    BY <2>1, ReadyToCommit
  <2>3. ASSUME NEW b \in Balances PROVE reserved'[b] = SumOver(Need(b)', plans')
    <3> DEFINE new == [q \in plans \cup {req[c]} |-> q.need[b]]
    <3>1. \A q \in plans \cup {req[c]} : new[q] \in Int
      BY <1>0, <2>2
    <3>2. SumOver(new, plans \cup {req[c]}) = SumOver(new, plans) + new[req[c]]
      <4> HIDE DEF new
      <4> QED BY <2>2, <3>1, SumAdd DEF FundsInv
    <3>3. SumOver(Need(b), plans) = SumOver(new, plans)
      <4>1. \A q \in plans : Need(b)[q] = new[q]
        OBVIOUS
      <4> HIDE DEF new, Need
      <4> QED BY <4>1, SumSame DEF FundsInv
    <3>4. reserved[b] = SumOver(Need(b), plans)
      BY DEF FundsInv, FundsConserved
    <3> QED BY <2>1, <3>2, <3>3, <3>4
  <2>4. IsFiniteSet(plans')
    BY <2>1, FS_AddElement DEF FundsInv
  <2> QED BY <2>3, <2>4 DEF FundsInv, FundsConserved
<1>3. CASE UNCHANGED rows
  BY <1>3 DEF rows, FundsInv, FundsConserved
<1> QED
  BY <1>1, <1>2, <1>3
     DEF Next, vars, rows, Acquire, Disconnect, Crash, LoseLockSession, ReservePlan,
         LockRequest, LookupMiss, LookupHit, LockBalance, RefuseBalance, InsertPlan,
         RefuseInsert, Abort

\* What is reserved of a balance is what the committed plans reserve of it, through
\* every interleaving of commits and newly set balances, and what a transaction has
\* checked is still there when it commits (B01-R04).
THEOREM FundsConservation == Spec => []FundsAccounted
<1>1. Init => FundsInv
  <2>1. \A b \in Balances : SumOver([q \in {} |-> q.need[b]], {}) = 0
    BY SumEmpty
  <2> QED BY <2>1, FS_EmptySet DEF Init, FundsInv, FundsConserved
<1>2. Spec => []FundsInv
  BY <1>1, FundsStep, SpecIInv, PTL DEF Spec
<1>3. IInv /\ FundsInv => FundsAccounted
  BY DEF IInv, FundsInv, FundsAccounted
<1> QED BY <1>2, <1>3, SpecIInv, PTL

\* Recovery finds a stored plan and nothing else, because nothing else of its
\* domain or of its plan id is stored.
LEMMA Recovery == IInv => AckedPlansDurable
<1> SUFFICES ASSUME IInv, NEW q \in acked
             PROVE  RecoverActivePlans(q.domain) = {RecoveredPlan(q)}
  BY DEF AckedPlansDurable
<1>1. q \in plans
  BY DEF IInv, AckedStored
<1>2. {p \in plans : p.domain = q.domain} = {q}
  BY <1>1 DEF IInv, PlansUnique
<1>3. LoadPlan(q.plan) = q
  BY <1>1 DEF LoadPlan, IInv, PlansUnique
<1> QED
  BY <1>2, <1>3 DEF RecoverActivePlans

\* A plan once returned to a caller is what recovery finds, with the caller's
\* content.
THEOREM AckedPlansStay == Spec => []AckedPlansDurable
BY SpecIInv, Recovery, PTL

\* Of a set of cores that all wait within the set, none waits for an insert, so
\* some wait for balances.  The one that waits for the highest balance waits for
\* a core that holds it and therefore, as balances are locked in ascending
\* order, itself waits for a higher one.
LEMMA AscendingLocksNoCycle == IInv => NoWaitCycle
<1> SUFFICES ASSUME IInv,
                    NEW S \in (SUBSET Cores) \ {{}},
                    \A c \in S : \E d \in S : WaitsFor(c, d)
             PROVE  FALSE
  BY DEF NoWaitCycle
<1>1. \A c \in S : pc[c] \in {"request", "balances", "insert"}
  BY DEF WaitsFor
<1>2. \A c \in S : pc[c] # "insert"
  BY <1>1 DEF WaitsFor, InsertWaitsFor
<1>3. \A c \in S : \E d \in S : WaitsFor(c, d) /\ pc[d] = "balances"
  <2> SUFFICES ASSUME NEW c \in S, NEW d \in S, WaitsFor(c, d)
               PROVE  pc[d] = "balances"
    OBVIOUS
  <2>1. CASE pc[c] = "request"
    BY <1>1, <1>2, <2>1 DEF WaitsFor, HoldsRequestLock
  <2>2. CASE pc[c] = "balances"
    BY <1>1, <1>2, <2>2 DEF WaitsFor, IInv, CallShape, InTransaction
  <2> QED BY <1>1, <1>2, <2>1, <2>2
<1>4. \A c \in S : pc[c] = "balances" =>
          \E d \in S, b \in Balances :
              IsNextBalance(c, b) /\ b \in locked[d] /\ pc[d] = "balances"
  BY <1>3 DEF WaitsFor, IsNextBalance, Wanted
<1> DEFINE T == {n \in Nat : \E c \in S :
                    pc[c] = "balances" /\ IsNextBalance(c, NBalances - n)}
<1>5. \A c \in S, b \in Balances :
          pc[c] = "balances" /\ IsNextBalance(c, b) => NBalances - b \in T
  BY PaperAssumption DEF Balances
<1>6. T # {}
  <2>1. PICK c \in S : pc[c] = "balances"
    BY <1>3
  <2>2. PICK b \in Balances : IsNextBalance(c, b)
    BY <1>4, <2>1
  <2> QED BY <1>5, <2>1, <2>2
<1>7. PICK n \in T : \A m \in T : n <= m
  BY <1>6, LeastNatural
<1>8. PICK c \in S : pc[c] = "balances" /\ IsNextBalance(c, NBalances - n)
  BY <1>7
<1>9. PICK d \in S, b \in Balances :
          IsNextBalance(c, b) /\ b \in locked[d] /\ pc[d] = "balances"
  BY <1>4, <1>8
<1>10. b = NBalances - n
  <2> DEFINE k == NBalances - n
  <2>1. k \in Wanted(req[c]) \ locked[c] /\ b \in Wanted(req[c]) \ locked[c]
    BY <1>8, <1>9 DEF IsNextBalance
  <2>2. k <= b /\ b <= k
    BY <1>8, <1>9, <2>1 DEF IsNextBalance
  <2>3. k \in Int /\ b \in Int
    BY <1>7, PaperAssumption DEF Balances
  <2> QED
    BY <2>2, <2>3
<1>11. PICK e \in Balances : IsNextBalance(d, e)
  BY <1>4, <1>9
<1>12. b < e
  BY <1>9, <1>11 DEF IInv, CallShape, IsNextBalance
<1>13. NBalances - e \in T
  BY <1>5, <1>9, <1>11
<1> QED
  BY <1>7, <1>10, <1>12, <1>13, PaperAssumption DEF Balances

\* Reservation transactions never wait for one another in a circle.
THEOREM NoDeadlock == Spec => []NoWaitCycle
BY SpecIInv, AscendingLocksNoCycle, PTL

-----------------------------------------------------------------------------
\* The core implements the ledger.

LEMMA LedgerInit == Init => Ledger!Init
BY DEF Init, Ledger!Init, Ledger!Keys, Balances

\* A commit is the ledger's Reserve, set_paper_balance its Initialise, and every
\* other step leaves the ledger alone.
LEMMA LedgerStep == IInv /\ [Next]_vars => [Ledger!Next]_Ledger!ledgerVars
<1> SUFFICES ASSUME IInv, [Next]_vars PROVE [Ledger!Next]_Ledger!ledgerVars
  OBVIOUS
<1>1. ASSUME NEW b \in Balances, NEW f \in FreeValues, SetPaperBalance(b, f)
      PROVE  Ledger!Initialise(b, f)
  BY <1>1, Needs DEF SetPaperBalance, Ledger!Initialise, IInv, TypeOK, Wanted
<1>2. ASSUME NEW c \in Cores, Commit(c) \/ CommitUnacknowledged(c)
      PROVE  req[c] \in Requests /\ Ledger!Reserve(req[c])
  <2>1. pc[c] = "commit" /\ StorePlan(req[c])
    BY <1>2 DEF Commit, CommitUnacknowledged
  <2>2. /\ req[c] \in Requests
        /\ locked[c] = Wanted(req[c])
        /\ \A b \in locked[c] : b \in known /\ reserved[b] + req[c].need[b] <= free[b]
        /\ \A q \in plans : q.id # req[c].id /\ ~Clash(req[c], q)
    BY <2>1, ReadyToCommit
  <2> QED
    BY <2>1, <2>2 DEF StorePlan, Ledger!Reserve, Ledger!Keys, Balances, Clash, Wanted
<1>3. CASE UNCHANGED rows
  BY <1>3 DEF rows, Ledger!ledgerVars
<1> QED
  BY <1>1, <1>2, <1>3
     DEF Next, vars, rows, Ledger!Next, Ledger!Keys, Balances, Acquire, Disconnect, Crash,
         LoseLockSession, ReservePlan, LockRequest, LookupMiss, LookupHit, LockBalance,
         RefuseBalance, InsertPlan, RefuseInsert, Abort

\* Every behaviour of the transactions, whatever their interleaving, crashes and
\* lost acknowledgements, is a behaviour of the atomic ledger.
THEOREM Refinement == Spec => ImplementsLedger
<1>1. Spec => [][Ledger!Next]_Ledger!ledgerVars
  BY SpecIInv, LedgerStep, PTL DEF Spec
<1> QED
  BY <1>1, LedgerInit, PTL DEF Spec, ImplementsLedger, Ledger!Spec
=============================================================================
