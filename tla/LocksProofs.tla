---------------------------- MODULE LocksProofs ----------------------------
(***************************************************************************)
(* Theorems about Locks, for every number of cores, pool sessions,         *)
(* domains, nodes and processes.                                           *)
(*                                                                         *)
(* Each component has an inductive invariant of its own: LockInv says      *)
(* which session a core has borrowed and what the server has granted it,   *)
(* FenceInv who has which role, online or not, and SchemaInv how far a     *)
(* caller has come and what must have been recorded by then.               *)
(***************************************************************************)
EXTENDS Locks, TLAPS, SequenceTheorems

-----------------------------------------------------------------------------
(* Domain locks *)

AtLock(c) == pc[c] \in {"try", "held", "want", "query"}

\* A core has borrowed the sessions its state asks for, from its own pool.
Borrowed ==
    \A c \in Cores :
        /\ pc[c] # "off" => domain[c] \in Domains
        /\ IF AtLock(c)
           THEN lockOn[c] \in Sessions /\ use[lockOn[c]] = "lock" /\ PoolOf[lockOn[c]] = Home[c]
           ELSE lockOn[c] = None
        /\ IF pc[c] = "query"
           THEN queryOn[c] \in Sessions /\ use[queryOn[c]] = "query" /\ PoolOf[queryOn[c]] = Home[c]
           ELSE queryOn[c] = None

\* No session is borrowed by two.
BorrowedOnce ==
    \A c, d \in Cores : c # d =>
        /\ lockOn[c] # None => lockOn[c] # lockOn[d]
        /\ queryOn[c] # None => queryOn[c] # queryOn[d]

\* What is borrowed for a lock has a borrower.
Borrowers ==
    \A s \in Sessions : use[s] = "lock" => \E c \in Cores : lockOn[c] = s

\* The server grants a domain to one session, and only a live core has a lock.
Granted ==
    /\ \A r, s \in Sessions : r # s => holds[r] \cap holds[s] = {}
    /\ \A s \in Sessions : use[s] \in {"idle", "query"} => holds[s] = {}
    /\ \A c \in Cores :
          /\ pc[c] = "try" => holds[lockOn[c]] = {}
          /\ Lock!Live(c) => /\ holds[lockOn[c]] \subseteq {domain[c]}
                             /\ ~lost[c] => domain[c] \in holds[lockOn[c]]

LockInv ==
    /\ Lock!TypeOK
    /\ Borrowed
    /\ BorrowedOnce
    /\ Borrowers
    /\ Granted

LEMMA LockInit == Lock!Init => LockInv
<1> SUFFICES ASSUME Lock!Init PROVE LockInv
  OBVIOUS
<1> USE DEF Lock!Init
<1>1. Lock!TypeOK
  BY DEF Lock!TypeOK
<1>2. Borrowed /\ BorrowedOnce /\ Borrowers
  BY DEF Borrowed, BorrowedOnce, Borrowers, AtLock
<1>3. Granted
  BY DEF Granted, Lock!Live
<1> QED BY <1>1, <1>2, <1>3 DEF LockInv

\* A core that has borrowed nothing asks for a lock, or gives up.
LEMMA WaitInv ==
    ASSUME LockInv, NEW c \in Cores,
           (\E d \in Domains : Lock!Acquire(c, d)) \/ Lock!AcquireTimeout(c)
           \/ Lock!BeginQuery(c) \/ Lock!QueryTimeout(c)
    PROVE  LockInv'
<1> USE DEF LockInv
<1>1. ASSUME NEW d \in Domains, Lock!Acquire(c, d) PROVE LockInv'
  <2> USE <1>1 DEF Lock!Acquire, Lock!sessionVars, Lock!TypeOK
  <2>1. Lock!TypeOK'
    OBVIOUS
  <2>2. Borrowed'
    BY DEF Borrowed, AtLock
  <2>3. BorrowedOnce' /\ Borrowers'
    BY DEF BorrowedOnce, Borrowers
  <2>4. Granted'
    BY DEF Granted, Lock!Live
  <2> QED BY <2>1, <2>2, <2>3, <2>4
<1>2. ASSUME Lock!AcquireTimeout(c) PROVE LockInv'
  <2> USE <1>2 DEF Lock!AcquireTimeout, Lock!sessionVars, Lock!TypeOK, Lock!Off
  <2>0. lockOn[c] = None /\ queryOn[c] = None
    BY DEF Borrowed, AtLock
  <2>1. Lock!TypeOK'
    OBVIOUS
  <2>2. Borrowed'
    BY DEF Borrowed, AtLock
  <2>3. BorrowedOnce' /\ Borrowers'
    BY <2>0 DEF BorrowedOnce, Borrowers
  <2>4. Granted'
    BY <2>0 DEF Granted, Lock!Live
  <2> QED BY <2>1, <2>2, <2>3, <2>4
<1>3. ASSUME Lock!BeginQuery(c) \/ Lock!QueryTimeout(c) PROVE LockInv'
  <2> USE <1>3 DEF Lock!BeginQuery, Lock!QueryTimeout, Lock!sessionVars, Lock!TypeOK
  <2>1. Lock!TypeOK'
    OBVIOUS
  <2>2. Borrowed'
    BY DEF Borrowed, AtLock
  <2>3. BorrowedOnce' /\ Borrowers'
    BY DEF BorrowedOnce, Borrowers
  <2>4. Granted'
    BY DEF Granted, Lock!Live
  <2> QED BY <2>1, <2>2, <2>3, <2>4
<1> QED BY <1>1, <1>2, <1>3

\* A core borrows an idle session, for its lock or for a query.
LEMMA TakeInv ==
    ASSUME LockInv, NEW c \in Cores, NEW s \in Sessions,
           Lock!TakeLockSession(c, s) \/ Lock!TakeQuerySession(c, s)
    PROVE  LockInv'
<1> USE LocksAssumption DEF LockInv, Lock!DomainLockAssumption
<1>1. ASSUME Lock!TakeLockSession(c, s) PROVE LockInv'
  <2> USE <1>1 DEF Lock!TakeLockSession, Lock!TypeOK
  <2>0. /\ holds[s] = {} /\ s # None
        /\ \A e \in Cores : lockOn[e] # s /\ queryOn[e] # s
    BY DEF Granted, Borrowed
  <2>1. Lock!TypeOK'
    OBVIOUS
  <2>2. Borrowed'
    BY <2>0 DEF Borrowed, AtLock
  <2>3. BorrowedOnce' /\ Borrowers'
    <3>1. lockOn[c] = None
      BY DEF Borrowed, AtLock
    <3> QED BY <2>0, <3>1 DEF BorrowedOnce, Borrowers
  <2>4. Granted'
    BY <2>0 DEF Granted, Lock!Live
  <2> QED BY <2>1, <2>2, <2>3, <2>4
<1>2. ASSUME Lock!TakeQuerySession(c, s) PROVE LockInv'
  <2> USE <1>2 DEF Lock!TakeQuerySession, Lock!TypeOK
  <2>0. /\ holds[s] = {} /\ s # None
        /\ \A e \in Cores : lockOn[e] # s /\ queryOn[e] # s
    BY DEF Granted, Borrowed
  <2>1. Lock!TypeOK'
    OBVIOUS
  <2>2. Borrowed'
    BY <2>0 DEF Borrowed, AtLock
  <2>3. BorrowedOnce' /\ Borrowers'
    BY <2>0 DEF BorrowedOnce, Borrowers
  <2>4. Granted'
    BY <2>0 DEF Granted, Lock!Live
  <2> QED BY <2>1, <2>2, <2>3, <2>4
<1> QED BY <1>1, <1>2

\* What the server grants is not held by another.
LEMMA TryLockInv ==
    ASSUME LockInv, NEW c \in Cores, Lock!TryLock(c)
    PROVE  LockInv'
<1> USE DEF LockInv, Lock!TryLock, Lock!TypeOK
<1>1. /\ lockOn[c] \in Sessions /\ domain[c] \in Domains /\ use[lockOn[c]] = "lock"
      /\ holds[lockOn[c]] = {}
      /\ \A e \in Cores \ {c} : lockOn[e] # lockOn[c]
  BY LocksAssumption DEF Borrowed, AtLock, Granted, BorrowedOnce, Lock!DomainLockAssumption
<1>2. \A s \in Sessions : holds'[s] = IF s = lockOn[c] THEN {domain[c]} ELSE holds[s]
  BY <1>1
<1>3. Lock!TypeOK'
  BY <1>1
<1>4. Borrowed'
  BY DEF Borrowed, AtLock
<1>5. BorrowedOnce' /\ Borrowers'
  BY DEF BorrowedOnce, Borrowers
<1>6. Granted'
  <2>1. \A r \in Sessions \ {lockOn[c]} : domain[c] \notin holds[r]
    BY DEF Lock!Grantable
  <2>2. \A r, s \in Sessions : r # s => holds'[r] \cap holds'[s] = {}
    BY <1>2, <2>1 DEF Granted
  <2>3. \A s \in Sessions : use'[s] \in {"idle", "query"} => holds'[s] = {}
    BY <1>1, <1>2 DEF Granted
  <2>4. ASSUME NEW e \in Cores
        PROVE  /\ pc'[e] = "try" => holds'[lockOn'[e]] = {}
               /\ Lock!Live(e)' => /\ holds'[lockOn'[e]] \subseteq {domain'[e]}
                                   /\ ~lost'[e] => domain'[e] \in holds'[lockOn'[e]]
    <3>1. CASE e = c
      BY <1>1, <1>2, <3>1
    <3>2. CASE e # c
      <4>1. AtLock(e) => holds'[lockOn[e]] = holds[lockOn[e]]
        BY <1>1, <1>2, <3>2 DEF Borrowed
      <4> QED BY <3>2, <4>1 DEF Granted, Lock!Live, AtLock
    <3> QED BY <3>1, <3>2
  <2> QED BY <2>2, <2>3, <2>4 DEF Granted
<1> QED BY <1>3, <1>4, <1>5, <1>6

\* A core ends or is refused: its sessions are on their way back, with what they hold.
LEMMA GiveBackInv ==
    ASSUME LockInv, NEW c \in Cores, Lock!GiveBack(c), Lock!Off(c),
           holds' \in [Sessions -> SUBSET Domains],
           \A s \in Sessions : s # lockOn[c] => holds'[s] = holds[s],
           \A r, s \in Sessions : r # s => holds'[r] \cap holds'[s] = {}
    PROVE  LockInv'
<1> USE DEF LockInv
<1>1. /\ pc'[c] = "off" /\ lockOn'[c] = None /\ queryOn'[c] = None
      /\ \A e \in Cores \ {c} : /\ pc'[e] = pc[e] /\ domain'[e] = domain[e]
                               /\ lockOn'[e] = lockOn[e] /\ queryOn'[e] = queryOn[e]
                               /\ lost'[e] = lost[e]
  BY DEF Lock!Off, Lock!TypeOK
<1>2. \A s \in Sessions : use'[s] = IF s \in {lockOn[c], queryOn[c]} THEN "releasing" ELSE use[s]
  BY DEF Lock!GiveBack
<1>3. Lock!TypeOK'
  BY DEF Lock!GiveBack, Lock!Off, Lock!TypeOK
<1>4. \A e \in Cores \ {c} :
         /\ AtLock(e) => lockOn[e] \in Sessions /\ lockOn[e] \notin {lockOn[c], queryOn[c]}
         /\ pc[e] = "query" => queryOn[e] \in Sessions /\ queryOn[e] \notin {lockOn[c], queryOn[c]}
         /\ pc[e] \in {"off", "waiting", "try", "held", "want", "query"}
  BY LocksAssumption DEF Borrowed, BorrowedOnce, AtLock, Lock!DomainLockAssumption, Lock!TypeOK
<1>5. Borrowed'
  <2> SUFFICES ASSUME NEW e \in Cores
               PROVE  /\ pc'[e] # "off" => domain'[e] \in Domains
                      /\ IF AtLock(e)' THEN /\ lockOn'[e] \in Sessions
                                            /\ use'[lockOn'[e]] = "lock"
                                            /\ PoolOf[lockOn'[e]] = Home[e]
                                       ELSE lockOn'[e] = None
                      /\ IF pc'[e] = "query" THEN /\ queryOn'[e] \in Sessions
                                                  /\ use'[queryOn'[e]] = "query"
                                                  /\ PoolOf[queryOn'[e]] = Home[e]
                                             ELSE queryOn'[e] = None
    BY DEF Borrowed
  <2>1. CASE e = c
    BY <1>1, <2>1 DEF AtLock
  <2>2. CASE e # c
    BY <1>1, <1>2, <1>4, <2>2 DEF Borrowed, AtLock
  <2> QED BY <2>1, <2>2
<1>6. BorrowedOnce'
  BY <1>1 DEF BorrowedOnce
<1>7. Borrowers'
  BY <1>1, <1>2 DEF Borrowers
<1>8. Granted'
  <2>1. \A s \in Sessions : use'[s] \in {"idle", "query"} => holds'[s] = {}
    BY <1>2 DEF Granted
  <2>2. \A e \in Cores :
           /\ pc'[e] = "try" => holds'[lockOn'[e]] = {}
           /\ Lock!Live(e)' => /\ holds'[lockOn'[e]] \subseteq {domain'[e]}
                               /\ ~lost'[e] => domain'[e] \in holds'[lockOn'[e]]
    BY <1>1, <1>4 DEF Granted, Lock!Live, AtLock
  <2> QED BY <2>1, <2>2 DEF Granted
<1> QED BY <1>3, <1>5, <1>6, <1>7, <1>8

\* Whether the server has freed the locks of the session, kept them or granted one more.
LEMMA EndInv ==
    ASSUME LockInv, NEW c \in Cores,
           Lock!RefuseLock(c) \/ Lock!Disconnect(c) \/ Lock!DropCore(c)
    PROVE  LockInv'
<1> USE DEF LockInv
<1>1. CASE UNCHANGED holds
  <2>1. Lock!GiveBack(c) /\ Lock!Off(c)
    BY DEF Lock!RefuseLock, Lock!Disconnect, Lock!DropCore
  <2> QED BY <1>1, <2>1, GiveBackInv DEF Lock!TypeOK, Granted
<1>2. CASE Lock!Disconnect(c) /\ holds' = [holds EXCEPT ![lockOn[c]] = {}]
  <2>1. Lock!GiveBack(c) /\ Lock!Off(c)
    BY <1>2 DEF Lock!Disconnect
  <2>2. \A s \in Sessions : holds'[s] = IF s = lockOn[c] THEN {} ELSE holds[s]
    BY <1>2 DEF Lock!TypeOK
  <2>3. \A r, s \in Sessions : r # s => holds'[r] \cap holds'[s] = {}
    BY <2>2 DEF Granted
  <2>4. holds' \in [Sessions -> SUBSET Domains]
    BY <1>2 DEF Lock!TypeOK
  <2> QED BY <2>1, <2>2, <2>3, <2>4, GiveBackInv
<1>3. CASE /\ Lock!DropCore(c) /\ pc[c] = "try" /\ Lock!Grantable(lockOn[c], domain[c])
           /\ holds' = [holds EXCEPT ![lockOn[c]] = @ \cup {domain[c]}]
  <2>1. Lock!GiveBack(c) /\ Lock!Off(c) /\ domain[c] \in Domains /\ lockOn[c] \in Sessions
    BY <1>3 DEF Lock!DropCore, Borrowed, AtLock
  <2>2. \A s \in Sessions : holds'[s] = IF s = lockOn[c] THEN holds[s] \cup {domain[c]} ELSE holds[s]
    BY <1>3 DEF Lock!TypeOK
  <2>3. \A r, s \in Sessions : r # s => holds'[r] \cap holds'[s] = {}
    BY <1>3, <2>2 DEF Granted, Lock!Grantable
  <2>4. holds' \in [Sessions -> SUBSET Domains]
    BY <1>3, <2>1 DEF Lock!TypeOK
  <2> QED BY <2>1, <2>2, <2>3, <2>4, GiveBackInv
<1> QED BY <1>1, <1>2, <1>3 DEF Lock!RefuseLock, Lock!Disconnect, Lock!DropCore

LEMMA EndQueryInv ==
    ASSUME LockInv, NEW c \in Cores, Lock!EndQuery(c)
    PROVE  LockInv'
<1> USE DEF LockInv, Lock!EndQuery, Lock!TypeOK
<1>1. /\ queryOn[c] \in Sessions /\ use[queryOn[c]] = "query"
      /\ \A e \in Cores : /\ AtLock(e) => lockOn[e] # queryOn[c]
                          /\ e # c /\ pc[e] = "query" => queryOn[e] # queryOn[c]
  BY LocksAssumption DEF Borrowed, BorrowedOnce, Lock!DomainLockAssumption
<1>2. Lock!TypeOK'
  BY <1>1
<1>3. Borrowed'
  BY <1>1 DEF Borrowed, AtLock
<1>4. BorrowedOnce' /\ Borrowers'
  BY <1>1 DEF BorrowedOnce, Borrowers
<1>5. Granted'
  BY DEF Granted, Lock!Live
<1> QED BY <1>2, <1>3, <1>4, <1>5

\* The callback after a release, and the server that ends a session: its locks end.
LEMMA UnlockInv ==
    ASSUME LockInv,
           \/ \E s \in Sessions : Lock!AfterRelease(s)
           \/ \E c \in Cores : Lock!LoseSession(c)
    PROVE  LockInv'
<1> USE DEF LockInv, Lock!TypeOK
<1>1. ASSUME NEW s \in Sessions, Lock!AfterRelease(s) PROVE LockInv'
  <2> USE <1>1 DEF Lock!AfterRelease, Lock!coreVars
  <2>1. Lock!TypeOK'
    OBVIOUS
  <2>2. \A c \in Cores : /\ AtLock(c) => lockOn[c] # s
                         /\ pc[c] = "query" => queryOn[c] # s
    BY DEF Borrowed
  <2>3. Borrowed'
    BY <2>2 DEF Borrowed, AtLock
  <2>4. BorrowedOnce' /\ Borrowers'
    BY DEF BorrowedOnce, Borrowers
  <2>5. Granted'
    BY <2>2 DEF Granted, Borrowed, AtLock, Lock!Live
  <2> QED BY <2>1, <2>3, <2>4, <2>5
<1>2. ASSUME NEW c \in Cores, Lock!LoseSession(c) PROVE LockInv'
  <2> USE <1>2 DEF Lock!LoseSession
  <2>1. Lock!TypeOK'
    OBVIOUS
  <2>2. \A e \in Cores \ {c} : AtLock(e) => lockOn[e] # lockOn[c] /\ lockOn[e] \in Sessions
    BY LocksAssumption DEF Borrowed, BorrowedOnce, Lock!DomainLockAssumption
  <2>3. Borrowed' /\ BorrowedOnce' /\ Borrowers'
    BY DEF Borrowed, BorrowedOnce, Borrowers, AtLock
  <2>4. Granted'
    BY <2>2 DEF Granted, Lock!Live, AtLock, Borrowed
  <2> QED BY <2>1, <2>3, <2>4
<1> QED BY <1>1, <1>2

\* A process dies, with its cores and its pool.
LEMMA CrashInv ==
    ASSUME LockInv, NEW p \in Processes, Lock!Crash(p)
    PROVE  LockInv'
<1> USE DEF LockInv, Lock!TypeOK
<1>1. \A c \in Cores :
         IF Home[c] = p
         THEN pc'[c] = "off" /\ lockOn'[c] = None /\ queryOn'[c] = None /\ lost'[c] = FALSE
         ELSE /\ pc'[c] = pc[c] /\ lockOn'[c] = lockOn[c] /\ queryOn'[c] = queryOn[c]
              /\ lost'[c] = lost[c] /\ domain'[c] = domain[c]
  BY DEF Lock!Crash
<1>2. \A s \in Sessions :
         IF PoolOf[s] = p THEN use'[s] = "idle" /\ holds'[s] = {}
                          ELSE use'[s] = use[s] /\ holds'[s] = holds[s]
  BY DEF Lock!Crash
<1>3. Lock!TypeOK'
  BY DEF Lock!Crash
<1>4. \A c \in Cores : Home[c] # p =>
         /\ AtLock(c) => lockOn[c] \in Sessions /\ PoolOf[lockOn[c]] # p
         /\ pc[c] = "query" => queryOn[c] \in Sessions /\ PoolOf[queryOn[c]] # p
  BY DEF Borrowed
<1>5. Borrowed'
  BY <1>1, <1>2, <1>4 DEF Borrowed, AtLock
<1>6. BorrowedOnce'
  BY <1>1 DEF BorrowedOnce
<1>7. Borrowers'
  <2> SUFFICES ASSUME NEW s \in Sessions, use'[s] = "lock" PROVE \E c \in Cores : lockOn'[c] = s
    BY DEF Borrowers
  <2>1. PoolOf[s] # p /\ use[s] = "lock"
    BY <1>2
  <2>2. PICK c \in Cores : lockOn[c] = s
    BY <2>1 DEF Borrowers
  <2>3. Home[c] # p
    BY <2>1, <2>2, LocksAssumption DEF Borrowed, Lock!DomainLockAssumption
  <2> QED BY <1>1, <2>2, <2>3
<1>8. Granted'
  <2>1. \A r, s \in Sessions : r # s => holds'[r] \cap holds'[s] = {}
    BY <1>2 DEF Granted
  <2>2. \A s \in Sessions : use'[s] \in {"idle", "query"} => holds'[s] = {}
    BY <1>2 DEF Granted
  <2>3. \A e \in Cores :
           /\ pc'[e] = "try" => holds'[lockOn'[e]] = {}
           /\ Lock!Live(e)' => /\ holds'[lockOn'[e]] \subseteq {domain'[e]}
                               /\ ~lost'[e] => domain'[e] \in holds'[lockOn'[e]]
    BY <1>1, <1>2, <1>4 DEF Granted, Lock!Live, AtLock
  <2> QED BY <2>1, <2>2, <2>3 DEF Granted
<1> QED BY <1>3, <1>5, <1>6, <1>7, <1>8

LEMMA LockStep == LockInv /\ [Lock!Next]_lockVars => LockInv'
<1>1. ASSUME LockInv, Lock!Next PROVE LockInv'
  BY <1>1, WaitInv, TakeInv, TryLockInv, EndInv, EndQueryInv, UnlockInv, CrashInv DEF Lock!Next
<1>2. ASSUME LockInv, UNCHANGED lockVars PROVE LockInv'
  BY <1>2 DEF LockInv, lockVars, Lock!TypeOK, Borrowed, AtLock, BorrowedOnce, Borrowers,
     Granted, Lock!Live
<1> QED BY <1>1, <1>2

LEMMA LocksInLocks == [Next]_vars => [Lock!Next]_lockVars
BY DEF Next, vars, lockVars, OfPaper, OfLock, OfFence, OfSchema

LEMMA LockAlways == Spec => []LockInv
<1>1. Init => LockInv
  BY LockInit DEF Init
<1>2. LockInv /\ [Next]_vars => LockInv'
  BY LockStep, LocksInLocks
<1> QED BY <1>1, <1>2, PTL DEF Spec

\* No lock is left on a session that may be borrowed next, and of the cores that
\* believe to be the writer of a domain one at most has not lost its session.
LEMMA LockPromise == LockInv => Lock!NoLockOutlivesBorrower /\ Lock!SingleWriter
<1> SUFFICES ASSUME LockInv PROVE Lock!NoLockOutlivesBorrower /\ Lock!SingleWriter
  OBVIOUS
<1> USE DEF LockInv
<1>1. ASSUME NEW s \in Sessions, use[s] = "lock", NEW d \in holds[s]
      PROVE  \E c \in Cores : lockOn[c] = s /\ domain[c] = d /\ Lock!Live(c)
  <2>1. PICK c \in Cores : lockOn[c] = s
    BY <1>1 DEF Borrowers
  <2>2. AtLock(c)
    BY <2>1, LocksAssumption DEF Borrowed, Lock!DomainLockAssumption
  <2>3. pc[c] # "try"
    BY <1>1, <2>1 DEF Granted
  <2> QED BY <1>1, <2>1, <2>2, <2>3 DEF Granted, AtLock, Lock!Live
<1>2. Lock!NoLockOutlivesBorrower
  BY <1>1 DEF Lock!NoLockOutlivesBorrower, Granted
<1>3. Lock!SingleWriter
  <2> SUFFICES ASSUME NEW c \in Cores, NEW e \in Cores, Lock!Live(c), Lock!Live(e),
                      domain[c] = domain[e], ~lost[c], ~lost[e], c # e
               PROVE  FALSE
    BY DEF Lock!SingleWriter
  <2>1. /\ lockOn[c] \in Sessions /\ lockOn[e] \in Sessions /\ lockOn[c] # lockOn[e]
    BY LocksAssumption DEF Borrowed, BorrowedOnce, AtLock, Lock!Live, Lock!DomainLockAssumption
  <2>2. domain[c] \in holds[lockOn[c]] /\ domain[c] \in holds[lockOn[e]]
    BY DEF Granted
  <2> QED BY <2>1, <2>2 DEF Granted
<1> QED BY <1>2, <1>3

-----------------------------------------------------------------------------
(* The writer lock that the pool implements *)

\* Only a writer can have lost its lock session.
LostLive == \A c \in Cores : lost[c] => Lock!Live(c)

LEMMA LostStep == LockInv /\ LostLive /\ [Lock!Next]_lockVars => LostLive'
<1> SUFFICES ASSUME LockInv, LostLive, [Lock!Next]_lockVars PROVE LostLive'
  OBVIOUS
<1> USE DEF LockInv, Lock!TypeOK, LostLive, Lock!Live
<1>1. ASSUME NEW c \in Cores, Lock!Off(c) PROVE LostLive'
  BY <1>1 DEF Lock!Off
<1>2. ASSUME NEW c \in Cores,
             \/ \E d \in Domains : Lock!Acquire(c, d)
             \/ \E s \in Sessions : Lock!TakeLockSession(c, s) \/ Lock!TakeQuerySession(c, s)
             \/ Lock!TryLock(c) \/ Lock!BeginQuery(c) \/ Lock!QueryTimeout(c) \/ Lock!EndQuery(c)
      PROVE  LostLive'
  BY <1>2 DEF Lock!Acquire, Lock!TakeLockSession, Lock!TakeQuerySession, Lock!TryLock,
     Lock!BeginQuery, Lock!QueryTimeout, Lock!EndQuery
<1>3. ASSUME NEW c \in Cores, Lock!LoseSession(c) PROVE LostLive'
  BY <1>3 DEF Lock!LoseSession
<1>4. ASSUME NEW s \in Sessions, Lock!AfterRelease(s) PROVE LostLive'
  BY <1>4 DEF Lock!AfterRelease, Lock!coreVars
<1>5. ASSUME NEW p \in Processes, Lock!Crash(p) PROVE LostLive'
  BY <1>5 DEF Lock!Crash
<1>6. CASE UNCHANGED lockVars
  BY <1>6 DEF lockVars
<1> QED BY <1>1, <1>2, <1>3, <1>4, <1>5, <1>6
        DEF Lock!Next, Lock!AcquireTimeout, Lock!RefuseLock, Lock!Disconnect, Lock!DropCore

\* What the writer lock shows of a core.
Writes(c) == IF Lock!Live(c) THEN domain[c] ELSE None
Owner(c) == Lock!Live(c) /\ ~lost[c]

\* A step that changes neither does not show.
LEMMA HiddenStep ==
    ASSUME \A c \in Cores : Writes(c)' = Writes(c) /\ (Owner(c)' <=> Owner(c))
    PROVE  UNCHANGED Lock!Lock!lockVars
<1>1. \A c \in Cores : Owner(c)' = Owner(c)
  BY DEF Owner
<1>2. [c \in Cores |-> Writes(c)]' = [c \in Cores |-> Writes(c)]
  OBVIOUS
<1>3. [c \in Cores |-> Owner(c)]' = [c \in Cores |-> Owner(c)]
  BY <1>1
<1> QED BY <1>2, <1>3 DEF Lock!Lock!lockVars, Writes, Owner

\* Some cores end, the others are as they were.
LEMMA ReleaseStep ==
    ASSUME NEW S \in SUBSET Cores,
           \A c \in S : ~Lock!Live(c)',
           \A c \in Cores \ S : Writes(c)' = Writes(c) /\ (Owner(c)' <=> Owner(c))
    PROVE  Lock!Lock!Release(S)
<1>1. \A c \in Cores : /\ Writes(c)' = IF c \in S THEN None ELSE Writes(c)
                       /\ Owner(c)' = IF c \in S THEN FALSE ELSE Owner(c)
  BY DEF Writes, Owner
<1>2. [c \in Cores |-> Writes(c)]' = [c \in Cores |-> IF c \in S THEN None
                                                     ELSE [e \in Cores |-> Writes(e)][c]]
  BY <1>1
<1>3. [c \in Cores |-> Owner(c)]' = [c \in Cores |-> IF c \in S THEN FALSE
                                                    ELSE [e \in Cores |-> Owner(e)][c]]
  BY <1>1
<1> QED BY <1>2, <1>3 DEF Lock!Lock!Release, Writes, Owner

\* A core that the server grants its lock becomes the writer: the domain has no owner,
\* or another session would hold it.
LEMMA TryLockStep ==
    ASSUME LockInv, LostLive, NEW c \in Cores, Lock!TryLock(c)
    PROVE  \E d \in Domains : Lock!Lock!Acquire(c, d)
<1> USE DEF LockInv
<1>1. /\ pc[c] = "try" /\ domain[c] \in Domains /\ lockOn[c] \in Sessions /\ ~lost[c]
      /\ ~Lock!Live(c)
  BY DEF Lock!TryLock, Borrowed, AtLock, LostLive, Lock!Live
<1>2. PICK d \in Domains : d = domain[c]
  BY <1>1
<1>3. ASSUME NEW e \in Cores PROVE ~(Owner(e) /\ Writes(e) = d)
  <2> SUFFICES ASSUME Lock!Live(e), ~lost[e], domain[e] = d PROVE FALSE
    BY DEF Owner, Writes
  <2>1. lockOn[e] \in Sessions /\ lockOn[e] # lockOn[c]
    BY <1>1, LocksAssumption DEF Borrowed, BorrowedOnce, AtLock, Lock!Live, Lock!DomainLockAssumption
  <2>2. domain[c] \in holds[lockOn[e]]
    BY <1>2 DEF Granted
  <2> QED BY <2>1, <2>2 DEF Lock!TryLock, Lock!Grantable
<1>4. \A e \in Cores : /\ Writes(e)' = IF e = c THEN d ELSE Writes(e)
                       /\ Owner(e)' = IF e = c THEN TRUE ELSE Owner(e)
  BY <1>1, <1>2 DEF Lock!TryLock, Lock!TypeOK, Writes, Owner, Lock!Live
<1>5. [e \in Cores |-> Writes(e)]' = [[e \in Cores |-> Writes(e)] EXCEPT ![c] = d]
  BY <1>4
<1>6. [e \in Cores |-> Owner(e)]' = [[e \in Cores |-> Owner(e)] EXCEPT ![c] = TRUE]
  BY <1>4
<1>7. /\ [e \in Cores |-> Writes(e)][c] = None
      /\ \A e \in Cores : ~([f \in Cores |-> Owner(f)][e] /\ [f \in Cores |-> Writes(f)][e] = d)
  BY <1>1, <1>3 DEF Writes
<1> QED BY <1>5, <1>6, <1>7 DEF Lock!Lock!Acquire, Writes, Owner

\* A writer's session ends.
LEMMA LoseStep ==
    ASSUME LockInv, NEW c \in Cores, Lock!LoseSession(c)
    PROVE  Lock!Lock!Lose(c)
<1>1. \A e \in Cores : /\ Writes(e)' = Writes(e)
                       /\ Owner(e)' = IF e = c THEN FALSE ELSE Owner(e)
  BY DEF LockInv, Lock!LoseSession, Lock!TypeOK, Writes, Owner, Lock!Live
<1>2. [e \in Cores |-> Writes(e)]' = [e \in Cores |-> Writes(e)]
  BY <1>1
<1>3. [e \in Cores |-> Owner(e)]' = [[e \in Cores |-> Owner(e)] EXCEPT ![c] = FALSE]
  BY <1>1
<1> QED BY <1>2, <1>3 DEF Lock!Lock!Lose, Writes, Owner

LEMMA LockStepIsWriterStep ==
    LockInv /\ LostLive /\ [Lock!Next]_lockVars => [Lock!Lock!Next]_(Lock!Lock!lockVars)
<1> SUFFICES ASSUME LockInv, LostLive, [Lock!Next]_lockVars
             PROVE  [Lock!Lock!Next]_(Lock!Lock!lockVars)
  OBVIOUS
<1> USE DEF LockInv
<1>1. ASSUME NEW c \in Cores, Lock!Off(c) PROVE Lock!Lock!Release({c})
  <2>1. /\ ~Lock!Live(c)'
        /\ \A e \in Cores \ {c} : Writes(e)' = Writes(e) /\ (Owner(e)' <=> Owner(e))
    BY <1>1 DEF Lock!Off, Lock!TypeOK, Writes, Owner, Lock!Live
  <2> QED BY <2>1, ReleaseStep
<1>2. ASSUME NEW c \in Cores,
             \/ \E d \in Domains : Lock!Acquire(c, d)
             \/ \E s \in Sessions : Lock!TakeLockSession(c, s) \/ Lock!TakeQuerySession(c, s)
             \/ Lock!BeginQuery(c) \/ Lock!QueryTimeout(c) \/ Lock!EndQuery(c)
      PROVE  UNCHANGED Lock!Lock!lockVars
  <2>1. \A e \in Cores : Writes(e)' = Writes(e) /\ (Owner(e)' <=> Owner(e))
    BY <1>2 DEF Lock!Acquire, Lock!TakeLockSession, Lock!TakeQuerySession, Lock!BeginQuery,
       Lock!QueryTimeout, Lock!EndQuery, Lock!TypeOK, Writes, Owner, Lock!Live
  <2> QED BY <2>1, HiddenStep
<1>3. ASSUME NEW p \in Processes, Lock!Crash(p)
      PROVE  \E S \in SUBSET Cores : Lock!Lock!Release(S)
  <2> DEFINE S == {c \in Cores : Home[c] = p}
  <2>1. /\ \A c \in S : ~Lock!Live(c)'
        /\ \A c \in Cores \ S : Writes(c)' = Writes(c) /\ (Owner(c)' <=> Owner(c))
    BY <1>3 DEF Lock!Crash, Writes, Owner, Lock!Live
  <2>2. S \in SUBSET Cores
    OBVIOUS
  <2> HIDE DEF S
  <2> QED BY <2>1, <2>2, ReleaseStep
<1>4. CASE UNCHANGED lockVars \/ \E s \in Sessions : Lock!AfterRelease(s)
  <2>1. \A e \in Cores : Writes(e)' = Writes(e) /\ (Owner(e)' <=> Owner(e))
    BY <1>4 DEF lockVars, Lock!AfterRelease, Lock!coreVars, Writes, Owner, Lock!Live
  <2> QED BY <2>1, HiddenStep
<1>5. \A c \in Cores : Lock!TryLock(c) => Lock!Lock!Next
  BY TryLockStep DEF Lock!Lock!Next
<1>6. \A c \in Cores : Lock!LoseSession(c) => Lock!Lock!Next
  BY LoseStep DEF Lock!Lock!Next
<1>7. \A c \in Cores : Lock!Lock!Release({c}) => Lock!Lock!Next
  BY DEF Lock!Lock!Next
<1>8. (\E S \in SUBSET Cores : Lock!Lock!Release(S)) => Lock!Lock!Next
  BY DEF Lock!Lock!Next
<1>9. \A c \in Cores : Lock!AcquireTimeout(c) \/ Lock!RefuseLock(c) \/ Lock!Disconnect(c)
                         \/ Lock!DropCore(c) => Lock!Off(c)
  BY DEF Lock!AcquireTimeout, Lock!RefuseLock, Lock!Disconnect, Lock!DropCore
<1> QED BY <1>1, <1>2, <1>3, <1>4, <1>5, <1>6, <1>7, <1>8, <1>9 DEF Lock!Next

\* The pool of sessions, its callbacks, timeouts and crashes implement the writer lock
\* that PaperCore builds on.
THEOREM PoolIsWriterLock == Spec => ImplementsWriterLock
<1>1. Init => Lock!Lock!Init
  <2> SUFFICES ASSUME Lock!Init PROVE Lock!Lock!Init
    BY DEF Init
  <2>1. \A c \in Cores : Writes(c) = None /\ Owner(c) = FALSE
    BY DEF Lock!Init, Writes, Owner, Lock!Live
  <2>2. /\ [c \in Cores |-> Writes(c)] = [c \in Cores |-> None]
        /\ [c \in Cores |-> Owner(c)] = [c \in Cores |-> FALSE]
    BY <2>1
  <2> QED BY <2>2 DEF Lock!Lock!Init, Writes, Owner
<1>2. Init => LostLive
  BY DEF Init, Lock!Init, LostLive
<1>3. LockInv /\ LostLive /\ [Next]_vars => LostLive'
  BY LostStep, LocksInLocks
<1>4. LockInv /\ LostLive /\ [Next]_vars => [Lock!Lock!Next]_(Lock!Lock!lockVars)
  BY LockStepIsWriterStep, LocksInLocks
<1> QED BY <1>1, <1>2, <1>3, <1>4, LockAlways, PTL
        DEF Spec, ImplementsWriterLock, Lock!ImplementsWriterLock, Lock!Lock!Spec

-----------------------------------------------------------------------------
(* Fencing *)

NodeType == [role : {"primary", "standby"}, status : {"online", "failed"}, beat : Int]

\* One node at most has the role of the primary, whether it is online or not.
OneRole ==
    \A n, m \in DOMAIN nodes : nodes[n].role = "primary" /\ nodes[m].role = "primary" => n = m

FenceInv ==
    /\ nodes \in [DOMAIN nodes -> NodeType]
    /\ time \in Int
    /\ tokens \in Seq([creator : DOMAIN nodes, expires : Int])
    /\ OneRole
    /\ \A n \in deposed : n \in DOMAIN nodes /\ nodes[n].role = "standby"
    /\ current # None => /\ current \in DOMAIN tokens
                         /\ nodes[tokens[current].creator].role = "primary"

LEMMA FenceInit == Fence!Init => FenceInv
<1> SUFFICES ASSUME Fence!Init PROVE FenceInv
  OBVIOUS
<1>1. DOMAIN nodes = {} /\ nodes \in [DOMAIN nodes -> NodeType]
  BY DEF Fence!Init
<1> QED BY <1>1 DEF Fence!Init, FenceInv, OneRole

\* A token of n becomes the current one.
LEMMA NewToken ==
    ASSUME NEW D, NEW n \in D, tokens \in Seq([creator : D, expires : Int]), time \in Int,
           Fence!Generated(n)
    PROVE  /\ tokens' \in Seq([creator : D, expires : Int])
           /\ current' \in DOMAIN tokens'
           /\ tokens'[current'].creator = n
<1> DEFINE t == [creator |-> n, expires |-> time + Ttl]
<1>1. /\ t \in [creator : D, expires : Int] /\ t.creator = n
      /\ tokens' = Append(tokens, t) /\ current' = Len(tokens) + 1
  BY LocksAssumption DEF Fence!Generated, Fence!FencingAssumption
<1> HIDE DEF t
<1>2. /\ tokens' \in Seq([creator : D, expires : Int])
      /\ Len(tokens') = Len(tokens) + 1
      /\ tokens'[Len(tokens) + 1] = t
      /\ Len(tokens) \in Nat
  BY <1>1, AppendProperties
<1>3. DOMAIN tokens' = 1 .. Len(tokens')
  BY <1>2
<1> QED BY <1>1, <1>2, <1>3

LEMMA CreatorIsNode ==
    ASSUME FenceInv, current # None PROVE tokens[current].creator \in DOMAIN nodes
<1>1. current \in 1 .. Len(tokens) /\ tokens \in Seq([creator : DOMAIN nodes, expires : Int])
  BY DEF FenceInv
<1>2. tokens[current] \in [creator : DOMAIN nodes, expires : Int]
  BY <1>1, ElementOfSeq
<1> QED BY <1>2

LEMMA FenceStep == FenceInv /\ [Fence!Next]_fenceVars => FenceInv'
<1> SUFFICES ASSUME FenceInv, [Fence!Next]_fenceVars PROVE FenceInv'
  OBVIOUS
<1> USE DEF FenceInv
<1>1. CASE Fence!Tick
  BY <1>1 DEF Fence!Tick, OneRole
<1>2. ASSUME NEW n \in Nodes, Fence!Register(n) PROVE FenceInv'
  <2>1. PICK role \in IF DOMAIN nodes = {} THEN {"primary", "standby"} ELSE {"standby"} :
           nodes' = [m \in DOMAIN nodes \cup {n} |->
                       IF m = n THEN [role |-> role, status |-> "online", beat |-> time]
                                ELSE nodes[m]]
    BY <1>2 DEF Fence!Register
  <2>2. /\ n \notin DOMAIN nodes /\ DOMAIN nodes' = DOMAIN nodes \cup {n}
        /\ UNCHANGED <<time, tokens, current, deposed>>
    BY <1>2, <2>1 DEF Fence!Register
  <2>3. /\ nodes' \in [DOMAIN nodes' -> NodeType]
        /\ \A m \in DOMAIN nodes : nodes'[m] = nodes[m]
        /\ nodes'[n].role = role
    BY <2>1, <2>2 DEF NodeType
  <2>4. OneRole'
    BY <2>1, <2>2, <2>3 DEF OneRole
  <2>5. \A m \in deposed' : m \in DOMAIN nodes' /\ nodes'[m].role = "standby"
    BY <2>2, <2>3
  <2>6. tokens' \in Seq([creator : DOMAIN nodes', expires : Int])
    <3> DEFINE T == [creator : DOMAIN nodes, expires : Int]
               U == [creator : DOMAIN nodes', expires : Int]
    <3>1. T \subseteq U
      BY <2>2
    <3>2. tokens \in Seq(T)
      OBVIOUS
    <3> HIDE DEF T, U
    <3>3. tokens \in Seq(U)
      BY <3>1, <3>2, SeqMonotonic
    <3> QED BY <2>2, <3>3 DEF U
  <2>7. current' # None => /\ current' \in DOMAIN tokens'
                           /\ nodes'[tokens'[current'].creator].role = "primary"
    <3>1. current # None => tokens[current].creator \in DOMAIN nodes
      BY CreatorIsNode
    <3> QED BY <2>2, <2>3, <3>1
  <2> QED BY <2>2, <2>3, <2>4, <2>5, <2>6, <2>7
<1>3. ASSUME NEW n \in Nodes, Fence!GenerateToken(n) PROVE FenceInv'
  BY <1>3, NewToken DEF Fence!GenerateToken, Fence!IsPrimary, OneRole
<1>4. ASSUME NEW n \in Nodes, Fence!Failover(n) PROVE FenceInv'
  <2>1. /\ n \in DOMAIN nodes
        /\ nodes' = [m \in DOMAIN nodes |-> IF m = n THEN [nodes[m] EXCEPT !.role = "primary"]
                                                     ELSE Fence!Demoted(m)]
        /\ deposed' = (deposed \cup {m \in DOMAIN nodes : nodes[m].role = "primary"}) \ {n}
        /\ UNCHANGED time /\ Fence!Generated(n)
    BY <1>4 DEF Fence!Failover
  <2>2. /\ DOMAIN nodes' = DOMAIN nodes
        /\ nodes' \in [DOMAIN nodes -> NodeType]
        /\ nodes'[n].role = "primary"
        /\ \A m \in DOMAIN nodes \ {n} : nodes'[m].role = "standby"
    BY <2>1 DEF Fence!Demoted, NodeType
  <2>3. /\ tokens' \in Seq([creator : DOMAIN nodes, expires : Int])
        /\ current' \in DOMAIN tokens'
        /\ tokens'[current'].creator = n
    BY <2>1, NewToken
  <2> QED BY <2>1, <2>2, <2>3 DEF OneRole
<1>5. ASSUME NEW n \in Nodes, Fence!Heartbeat(n) \/ Fence!DetectFailure(n) PROVE FenceInv'
  <2>1. /\ DOMAIN nodes' = DOMAIN nodes
        /\ nodes' \in [DOMAIN nodes -> NodeType]
        /\ \A m \in DOMAIN nodes : nodes'[m].role = nodes[m].role
        /\ UNCHANGED <<time, tokens, current, deposed>>
    <3>1. nodes[n] \in NodeType /\ n \in DOMAIN nodes
      BY <1>5 DEF Fence!Heartbeat, Fence!DetectFailure
    <3>2. PICK w \in NodeType : w.role = nodes[n].role /\ nodes' = [nodes EXCEPT ![n] = w]
      <4>1. CASE Fence!Heartbeat(n)
        <5> DEFINE w == [role |-> nodes[n].role, status |-> "online", beat |-> time]
        <5>1. nodes' = [nodes EXCEPT ![n] = w]
          BY <3>1, <4>1 DEF Fence!Heartbeat
        <5> QED BY <3>1, <5>1 DEF NodeType
      <4>2. CASE Fence!DetectFailure(n)
        <5> DEFINE w == [role |-> nodes[n].role, status |-> "failed", beat |-> nodes[n].beat]
        <5>0. w = [nodes[n] EXCEPT !.status = "failed"]
          <6>1. PICK v \in NodeType : v = nodes[n]
            BY <3>1
          <6>2. [v EXCEPT !.status = "failed"]
                   = [role |-> v.role, status |-> "failed", beat |-> v.beat]
            BY DEF NodeType
          <6> QED BY <6>1, <6>2
        <5>1. nodes' = [nodes EXCEPT ![n] = w]
          BY <3>1, <4>2, <5>0 DEF Fence!DetectFailure
        <5> QED BY <3>1, <5>1 DEF NodeType
      <4> QED BY <1>5, <4>1, <4>2
    <3> QED BY <1>5, <3>1, <3>2 DEF Fence!Heartbeat, Fence!DetectFailure
  <2>2. OneRole' /\ \A m \in deposed' : m \in DOMAIN nodes' /\ nodes'[m].role = "standby"
    BY <2>1 DEF OneRole
  <2>3. current # None => tokens[current].creator \in DOMAIN nodes
    BY CreatorIsNode
  <2> QED BY <2>1, <2>2, <2>3
<1>6. CASE UNCHANGED fenceVars
  BY <1>6 DEF fenceVars, OneRole
<1> QED BY <1>1, <1>2, <1>3, <1>4, <1>5, <1>6 DEF Fence!Next

LEMMA FencePromise == FenceInv => Fence!OnePrimary
BY DEF FenceInv, OneRole, Fence!OnePrimary, Fence!IsPrimary

-----------------------------------------------------------------------------
(* The schema *)

Latter(c) == Latest[CallerHome[c]]

\* The old list was found here, and it stays what it was until it is dropped.
OldList ==
    /\ legacy \in {found, None}
    /\ found # None => found \in Legacies /\ found \subseteq executed

\* How far a caller is: what it copies is in the old list, and the migrator has
\* recorded all before the file it is at.
Progress ==
    \A c \in Callers :
        /\ at[c] \in 1 .. Latter(c)
        /\ step[c] = "seed" => found # None /\ at[c] \in found
        /\ step[c] = "apply" => \A v \in 1 .. Latter(c) : v < at[c] => v \in recorded
        /\ step[c] = "memoize" => 1 .. Latter(c) \subseteq recorded

\* With a file in the old list that nobody knows, nobody gets past the list.
Unknown == found # None /\ \E v \in found : \A p \in Processes : v \notin 1 .. Latest[p]

NobodyPasses ==
    Unknown => /\ recorded = {} /\ legacy = found
               /\ \A c \in Callers : step[c] \in {"off", "refused", "count", "exists", "versions"}

SchemaInv ==
    /\ step \in [Callers -> {"off", "refused", "count", "exists", "versions", "read", "seed",
                             "lock", "list", "apply", "memoize"}]
    /\ at \in [Callers -> Nat]
    /\ ready \in [Processes -> BOOLEAN]
    /\ OldList
    /\ Progress
    /\ NobodyPasses
    /\ Schema!ReadyIsMigrated

\* What every caller knows of its program.
LEMMA LatestType ==
    ASSUME NEW c \in Callers
    PROVE  /\ Latter(c) \in Nat \ {0} /\ 1 \in 1 .. Latter(c)
           /\ DropVersion \in 1 .. Latter(c) /\ CallerHome[c] \in Processes
           /\ Schema!Known(c) = 1 .. Latter(c)
BY LocksAssumption DEF Schema!MigrationAssumption, Latter, Schema!Known

LEMMA SchemaInit == Schema!Init => SchemaInv
<1> SUFFICES ASSUME Schema!Init PROVE SchemaInv
  OBVIOUS
<1> USE LocksAssumption DEF Schema!Init, Schema!MigrationAssumption
<1>1. OldList
  BY DEF OldList
<1>2. Progress
  BY LatestType DEF Progress
<1>3. NobodyPasses
  BY DEF NobodyPasses
<1>4. Schema!ReadyIsMigrated
  BY DEF Schema!ReadyIsMigrated
<1> QED BY <1>1, <1>2, <1>3, <1>4 DEF SchemaInv

\* A step of one caller to another place, that writes nothing.
LEMMA MoveInv ==
    ASSUME SchemaInv, NEW c \in Callers, NEW s, NEW v \in 1 .. Latter(c),
           s \in {"off", "refused", "count", "exists", "versions", "read", "seed", "lock",
                  "list", "apply", "memoize"},
           step' = [step EXCEPT ![c] = s], at' = [at EXCEPT ![c] = v],
           UNCHANGED <<found, legacy, recorded, executed, ready>>,
           s = "seed" => found # None /\ v \in found,
           s = "apply" => \A w \in 1 .. Latter(c) : w < v => w \in recorded,
           s = "memoize" => 1 .. Latter(c) \subseteq recorded,
           Unknown => s \in {"off", "refused", "count", "exists", "versions"}
    PROVE  SchemaInv'
<1> USE DEF SchemaInv
<1>1. step'[c] = s /\ at'[c] = v
  OBVIOUS
<1>2. \A d \in Callers \ {c} : step'[d] = step[d] /\ at'[d] = at[d]
  OBVIOUS
<1>3. v \in Nat
  BY LocksAssumption DEF Schema!MigrationAssumption, Latter
<1>4. Progress'
  <2> SUFFICES ASSUME NEW d \in Callers
               PROVE  /\ at'[d] \in 1 .. Latter(d)
                      /\ step'[d] = "seed" => found # None /\ at'[d] \in found
                      /\ step'[d] = "apply" => \A w \in 1 .. Latter(d) : w < at'[d] => w \in recorded
                      /\ step'[d] = "memoize" => 1 .. Latter(d) \subseteq recorded
    BY DEF Progress, Latter
  <2>1. CASE d = c
    BY <1>1, <2>1
  <2>2. CASE d # c
    BY <1>2, <2>2 DEF Progress
  <2> QED BY <2>1, <2>2
<1>5. OldList' /\ Schema!ReadyIsMigrated'
  BY DEF OldList, Schema!ReadyIsMigrated
<1>6. NobodyPasses'
  BY <1>1, <1>2 DEF NobodyPasses, Unknown
<1> QED BY <1>3, <1>4, <1>5, <1>6

\* Where a caller stands in the loop over its files.
LEMMA NextFile ==
    ASSUME SchemaInv, NEW c \in Callers, NEW s, NEW after,
           Schema!NextOf(c, s, after)
    PROVE  \/ /\ at[c] < Latter(c) /\ at[c] + 1 \in 1 .. Latter(c)
              /\ step' = [step EXCEPT ![c] = s] /\ at' = [at EXCEPT ![c] = at[c] + 1]
           \/ /\ at[c] = Latter(c)
              /\ step' = [step EXCEPT ![c] = after] /\ at' = [at EXCEPT ![c] = 1]
<1>1. at[c] \in 1 .. Latter(c) /\ Latter(c) \in Nat
  BY LatestType DEF SchemaInv, Progress
<1> QED BY <1>1 DEF Schema!NextOf, Schema!Go, Latter

\* The steps that look and go on: none of them writes to the tables.
LEMMA LookingSteps ==
    ASSUME SchemaInv, NEW c \in Callers,
           \/ Schema!Call(c) \/ Schema!Hit(c) \/ Schema!Count(c) \/ Schema!Exists(c)
           \/ Schema!Versions(c) \/ Schema!Read(c) \/ Schema!Lock(c) \/ Schema!List(c)
           \/ Schema!StatementFails(c)
    PROVE  SchemaInv'
<1>0. /\ 1 \in 1 .. Latter(c) /\ Latter(c) \in Nat \ {0}
      /\ \A v \in 1 .. Latter(c) : ~(v < 1)
      /\ at[c] \in 1 .. Latter(c)
  BY LatestType DEF SchemaInv, Progress
<1>1. CASE Schema!Call(c) \/ Schema!Hit(c) \/ Schema!StatementFails(c)
  <2>1. PICK s \in {"off", "count"} : step' = [step EXCEPT ![c] = s] /\ at' = [at EXCEPT ![c] = 1]
    BY <1>1 DEF Schema!Call, Schema!Hit, Schema!StatementFails, Schema!Go
  <2>2. UNCHANGED <<found, legacy, recorded, executed, ready>>
    BY <1>1 DEF Schema!Call, Schema!Hit, Schema!StatementFails, Schema!tables
  <2> QED BY <1>0, <2>1, <2>2, MoveInv
<1>2. CASE Schema!Count(c)
  <2>1. PICK s \in {"exists", "lock"} : /\ step' = [step EXCEPT ![c] = s] /\ at' = [at EXCEPT ![c] = 1]
                                        /\ s = "lock" => recorded # {}
    BY <1>2 DEF Schema!Count, Schema!Go
  <2>2. UNCHANGED <<found, legacy, recorded, executed, ready>>
    BY <1>2 DEF Schema!Count, Schema!tables
  <2>3. Unknown => s = "exists"
    BY <2>1 DEF SchemaInv, NobodyPasses
  <2>4. /\ s \in {"off", "refused", "count", "exists", "versions", "read", "seed", "lock", "list",
                 "apply", "memoize"}
        /\ s \notin {"seed", "apply", "memoize"}
        /\ Unknown => s \in {"off", "refused", "count", "exists", "versions"}
    BY <2>1, <2>3
  <2> QED BY <1>0, <2>1, <2>2, <2>4, MoveInv
<1>3. CASE Schema!Exists(c)
  <2>1. PICK s \in {"versions", "lock"} : /\ step' = [step EXCEPT ![c] = s] /\ at' = [at EXCEPT ![c] = 1]
                                          /\ s = "lock" => legacy = None
    BY <1>3 DEF Schema!Exists, Schema!Go
  <2>2. UNCHANGED <<found, legacy, recorded, executed, ready>>
    BY <1>3 DEF Schema!Exists, Schema!tables
  <2>3. Unknown => s = "versions"
    BY <2>1 DEF SchemaInv, NobodyPasses, Unknown
  <2>4. /\ s \in {"off", "refused", "count", "exists", "versions", "read", "seed", "lock", "list",
                 "apply", "memoize"}
        /\ s \notin {"seed", "apply", "memoize"}
        /\ Unknown => s \in {"off", "refused", "count", "exists", "versions"}
    BY <2>1, <2>3
  <2> QED BY <1>0, <2>1, <2>2, <2>4, MoveInv
<1>4. CASE Schema!Versions(c)
  <2>1. PICK s \in {"read", "refused"} : /\ step' = [step EXCEPT ![c] = s] /\ at' = [at EXCEPT ![c] = 1]
                                         /\ s = "read" => legacy # None /\ legacy \subseteq 1 .. Latter(c)
    BY <1>4, LatestType DEF Schema!Versions, Schema!Go, Schema!Refuse
  <2>2. UNCHANGED <<found, legacy, recorded, executed, ready>>
    BY <1>4 DEF Schema!Versions, Schema!tables
  <2>3. Unknown => s = "refused"
    <3> SUFFICES ASSUME Unknown, s = "read" PROVE FALSE
      BY <2>1
    <3>1. PICK v \in found : \A p \in Processes : v \notin 1 .. Latest[p]
      BY DEF Unknown
    <3>2. v \in 1 .. Latter(c) /\ v \notin 1 .. Latter(c)
      BY <2>1, <3>1, LatestType DEF SchemaInv, NobodyPasses, Latter
    <3> QED BY <1>0, <3>2
  <2>4. /\ s \in {"off", "refused", "count", "exists", "versions", "read", "seed", "lock", "list",
                 "apply", "memoize"}
        /\ s \notin {"seed", "apply", "memoize"}
        /\ Unknown => s \in {"off", "refused", "count", "exists", "versions"}
    BY <2>1, <2>3
  <2> QED BY <1>0, <2>1, <2>2, <2>4, MoveInv
<1>5. CASE Schema!Read(c)
  <2>0. step[c] = "read" /\ ~Unknown /\ UNCHANGED <<found, legacy, recorded, executed, ready>>
    BY <1>5 DEF Schema!Read, Schema!tables, SchemaInv, NobodyPasses
  <2>1. CASE legacy = None
    <3>1. step' = [step EXCEPT ![c] = "refused"] /\ at' = [at EXCEPT ![c] = 1]
      BY <1>5, <2>1 DEF Schema!Read, Schema!Refuse
    <3> QED BY <1>0, <2>0, <3>1, MoveInv
  <2>2. CASE legacy # None /\ at[c] \in legacy
    <3>1. step' = [step EXCEPT ![c] = "seed"] /\ at' = [at EXCEPT ![c] = at[c]]
      BY <1>5, <2>2 DEF Schema!Read, Schema!Go
    <3>2. found # None /\ at[c] \in found
      BY <2>2 DEF SchemaInv, OldList
    <3> QED BY <1>0, <2>0, <3>1, <3>2, MoveInv
  <2>3. CASE legacy # None /\ at[c] \notin legacy
    <3>1. Schema!NextOf(c, "read", "lock")
      BY <1>5, <2>3 DEF Schema!Read
    <3>2. PICK s \in {"read", "lock"}, v \in 1 .. Latter(c) :
             step' = [step EXCEPT ![c] = s] /\ at' = [at EXCEPT ![c] = v]
      BY <1>0, <3>1, NextFile
    <3> QED BY <2>0, <3>2, MoveInv
  <2> QED BY <2>1, <2>2, <2>3
<1>6. CASE Schema!Lock(c)
  <2>1. /\ step[c] = "lock"
        /\ step' = [step EXCEPT ![c] = "list"] /\ at' = [at EXCEPT ![c] = 1]
        /\ UNCHANGED <<found, legacy, recorded, executed, ready>>
    BY <1>6 DEF Schema!Lock, Schema!Go, Schema!tables
  <2>2. ~Unknown
    BY <2>1 DEF SchemaInv, NobodyPasses
  <2> QED BY <1>0, <2>1, <2>2, MoveInv
<1>7. CASE Schema!List(c)
  <2>1. PICK s \in {"apply", "refused"} : step' = [step EXCEPT ![c] = s] /\ at' = [at EXCEPT ![c] = 1]
    BY <1>7 DEF Schema!List, Schema!Go, Schema!Refuse
  <2>2. step[c] = "list" /\ UNCHANGED <<found, legacy, recorded, executed, ready>>
    BY <1>7 DEF Schema!List, Schema!tables
  <2>3. ~Unknown
    BY <2>2 DEF SchemaInv, NobodyPasses
  <2> QED BY <1>0, <2>1, <2>2, <2>3, MoveInv
<1> QED BY <1>1, <1>2, <1>3, <1>4, <1>5, <1>6, <1>7

\* A row that comes with its file in the schema, wherever the caller goes on: nothing
\* that was recorded is lost.
LEMMA RowInv ==
    ASSUME SchemaInv, NEW c \in Callers, NEW s, NEW v \in 1 .. Latter(c), NEW file \in Nat, ~Unknown,
           s \in {"read", "lock", "apply", "memoize"},
           step' = [step EXCEPT ![c] = s], at' = [at EXCEPT ![c] = v],
           recorded' = recorded \cup {file}, executed \cup {file} = executed',
           UNCHANGED <<found, ready>>,
           legacy' = legacy \/ (legacy' = None /\ (found # None => found \subseteq recorded')),
           s = "apply" => \A w \in 1 .. Latter(c) : w < v => w \in recorded',
           s = "memoize" => 1 .. Latter(c) \subseteq recorded'
    PROVE  SchemaInv'
<1> USE DEF SchemaInv
<1>1. step'[c] = s /\ at'[c] = v
  OBVIOUS
<1>2. \A d \in Callers \ {c} : step'[d] = step[d] /\ at'[d] = at[d]
  OBVIOUS
<1>3. v \in Nat /\ ~Unknown'
  BY LocksAssumption DEF Schema!MigrationAssumption, Latter, Unknown
<1>4. Progress'
  <2> SUFFICES ASSUME NEW d \in Callers
               PROVE  /\ at'[d] \in 1 .. Latter(d)
                      /\ step'[d] = "seed" => found # None /\ at'[d] \in found
                      /\ step'[d] = "apply" => \A w \in 1 .. Latter(d) : w < at'[d] => w \in recorded'
                      /\ step'[d] = "memoize" => 1 .. Latter(d) \subseteq recorded'
    BY DEF Progress, Latter
  <2>1. CASE d = c
    BY <1>1, <2>1
  <2>2. CASE d # c
    BY <1>2, <2>2 DEF Progress
  <2> QED BY <2>1, <2>2
<1>5. OldList'
  BY DEF OldList
<1>6. Schema!ReadyIsMigrated'
  BY LatestType DEF Schema!ReadyIsMigrated
<1>7. NobodyPasses'
  BY <1>3 DEF NobodyPasses
<1>8. step' \in [Callers -> {"off", "refused", "count", "exists", "versions", "read", "seed",
                            "lock", "list", "apply", "memoize"}]
  OBVIOUS
<1> QED BY <1>3, <1>4, <1>5, <1>6, <1>7, <1>8

LEMMA SeedStep == ASSUME SchemaInv, NEW c \in Callers, Schema!Seed(c) PROVE SchemaInv'
<1>1. /\ step[c] = "seed" /\ ~Unknown /\ at[c] \in Nat /\ found # None /\ at[c] \in found
      /\ recorded' = recorded \cup {at[c]} /\ Schema!NextOf(c, "read", "lock")
      /\ UNCHANGED <<found, legacy, executed, ready>>
  BY DEF Schema!Seed, SchemaInv, NobodyPasses, Progress
<1>2. executed \cup {at[c]} = executed'
  BY <1>1 DEF SchemaInv, OldList
<1>3. PICK s \in {"read", "lock"}, v \in 1 .. Latter(c) :
         step' = [step EXCEPT ![c] = s] /\ at' = [at EXCEPT ![c] = v]
  BY <1>1, NextFile, LatestType
<1> QED BY <1>1, <1>2, <1>3, RowInv

\* All that a caller's binary knows is recorded when it has applied its newest file.
LEMMA ApplyStep == ASSUME SchemaInv, NEW c \in Callers, Schema!Apply(c) PROVE SchemaInv'
<1>1. /\ step[c] = "apply" /\ ~Unknown /\ at[c] \in Nat
      /\ at[c] \in 1 .. Latter(c) /\ Latter(c) \in Nat \ {0}
      /\ 1 \in 1 .. Latter(c) /\ DropVersion \in 1 .. Latter(c)
      /\ \A w \in 1 .. Latter(c) : w < at[c] => w \in recorded
      /\ UNCHANGED <<found, ready>>
  BY LatestType DEF Schema!Apply, SchemaInv, NobodyPasses, Progress
<1>2. ASSUME NEW rows, recorded \subseteq rows, at[c] \in rows, Schema!NextOf(c, "apply", "memoize")
      PROVE  \E s \in {"apply", "memoize"}, v \in 1 .. Latter(c) :
                /\ step' = [step EXCEPT ![c] = s] /\ at' = [at EXCEPT ![c] = v]
                /\ s = "apply" => \A w \in 1 .. Latter(c) : w < v => w \in rows
                /\ s = "memoize" => 1 .. Latter(c) \subseteq rows
  <2>1. CASE /\ at[c] < Latter(c) /\ at[c] + 1 \in 1 .. Latter(c)
             /\ step' = [step EXCEPT ![c] = "apply"] /\ at' = [at EXCEPT ![c] = at[c] + 1]
    <3>1. \A w \in 1 .. Latter(c) : w < at[c] + 1 => w \in rows
      BY <1>1, <1>2
    <3> QED BY <2>1, <3>1
  <2>2. CASE /\ at[c] = Latter(c)
             /\ step' = [step EXCEPT ![c] = "memoize"] /\ at' = [at EXCEPT ![c] = 1]
    <3>1. 1 .. Latter(c) \subseteq rows
      BY <1>1, <1>2, <2>2
    <3> QED BY <1>1, <2>2, <3>1
  <2> QED BY <1>2, <2>1, <2>2, NextFile
<1>3. CASE at[c] \in recorded /\ at[c] \in applied[c]
  <2>1. Schema!NextOf(c, "apply", "memoize") /\ UNCHANGED <<legacy, recorded, executed>>
    BY <1>3 DEF Schema!Apply, Schema!tables
  <2>2. PICK s \in {"apply", "memoize"}, v \in 1 .. Latter(c) :
                /\ step' = [step EXCEPT ![c] = s] /\ at' = [at EXCEPT ![c] = v]
                /\ s = "apply" => \A w \in 1 .. Latter(c) : w < v => w \in recorded
                /\ s = "memoize" => 1 .. Latter(c) \subseteq recorded
    BY <1>2, <1>3, <2>1
  <2> QED BY <1>1, <2>1, <2>2, MoveInv
<1>4. CASE at[c] \in recorded /\ at[c] \notin applied[c]
  <2>1. /\ step' = [step EXCEPT ![c] = "refused"] /\ at' = [at EXCEPT ![c] = 1]
        /\ UNCHANGED <<legacy, recorded, executed>>
    BY <1>4 DEF Schema!Apply, Schema!tables, Schema!Refuse
  <2> QED BY <1>1, <2>1, MoveInv
<1>5. CASE at[c] \notin recorded
  <2>1. /\ executed' = executed \cup {at[c]} /\ recorded' = recorded \cup {at[c]}
        /\ legacy' = IF at[c] = DropVersion THEN None ELSE legacy
        /\ Schema!NextOf(c, "apply", "memoize")
    BY <1>5 DEF Schema!Apply
  <2>2. PICK s \in {"apply", "memoize"}, v \in 1 .. Latter(c) :
                /\ step' = [step EXCEPT ![c] = s] /\ at' = [at EXCEPT ![c] = v]
                /\ s = "apply" => \A w \in 1 .. Latter(c) : w < v => w \in recorded'
                /\ s = "memoize" => 1 .. Latter(c) \subseteq recorded'
    <3> DEFINE rows == recorded \cup {at[c]}
    <3>1. recorded \subseteq rows /\ at[c] \in rows
      OBVIOUS
    <3> HIDE DEF rows
    <3>2. PICK s \in {"apply", "memoize"}, v \in 1 .. Latter(c) :
                /\ step' = [step EXCEPT ![c] = s] /\ at' = [at EXCEPT ![c] = v]
                /\ s = "apply" => \A w \in 1 .. Latter(c) : w < v => w \in rows
                /\ s = "memoize" => 1 .. Latter(c) \subseteq rows
      BY <1>2, <2>1, <3>1
    <3>3. recorded' = rows
      BY <2>1 DEF rows
    <3> QED BY <3>2, <3>3
  <2>3. at[c] = DropVersion /\ found # None => found \subseteq recorded'
    <3> SUFFICES ASSUME at[c] = DropVersion, found # None, NEW w \in found PROVE w \in recorded
      BY <2>1
    <3>1. found \in Legacies /\ w \in Nat
      BY LocksAssumption DEF SchemaInv, OldList, Schema!MigrationAssumption
    <3>2. PICK p \in Processes : w \in 1 .. Latest[p]
      BY <1>1 DEF Unknown
    <3>3. w < DropVersion /\ 1 <= w /\ DropVersion \in Nat
      BY <3>1, <3>2, LocksAssumption DEF Schema!MigrationAssumption
    <3>4. w \in 1 .. Latter(c)
      BY <1>1, <3>1, <3>3
    <3> QED BY <1>1, <3>3, <3>4
  <2>4. legacy' = legacy \/ (legacy' = None /\ (found # None => found \subseteq recorded'))
    BY <2>1, <2>3
  <2> QED BY <1>1, <2>1, <2>2, <2>4, RowInv
<1> QED BY <1>3, <1>4, <1>5

LEMMA MemoizeStep == ASSUME SchemaInv, NEW c \in Callers, Schema!Memoize(c) PROVE SchemaInv'
<1>1. /\ step[c] = "memoize" /\ ready' = [ready EXCEPT ![CallerHome[c]] = TRUE]
      /\ step' = [step EXCEPT ![c] = "off"] /\ at' = [at EXCEPT ![c] = 1]
      /\ UNCHANGED <<found, legacy, recorded, executed>>
  BY DEF Schema!Memoize, Schema!Go, Schema!tables
<1>2. 1 .. Latter(c) \subseteq recorded /\ 1 \in 1 .. Latter(c) /\ CallerHome[c] \in Processes
  BY <1>1, LatestType DEF SchemaInv, Progress
<1>3. Schema!ReadyIsMigrated'
  <2> SUFFICES ASSUME NEW d \in Callers, ready'[CallerHome[d]] PROVE Schema!Known(d) \subseteq recorded
    BY <1>1 DEF Schema!ReadyIsMigrated, SchemaInv, Schema!Known
  <2>1. CASE CallerHome[d] = CallerHome[c]
    BY <1>2, <2>1 DEF Schema!Known, Latter
  <2>2. CASE CallerHome[d] # CallerHome[c]
    BY <1>1, <2>2, LatestType DEF SchemaInv, Schema!ReadyIsMigrated
  <2> QED BY <2>1, <2>2
<1>4. Progress'
  BY <1>1, <1>2 DEF SchemaInv, Progress, Latter
<1>5. /\ step' \in [Callers -> {"off", "refused", "count", "exists", "versions", "read", "seed",
                               "lock", "list", "apply", "memoize"}]
      /\ at' \in [Callers -> Nat] /\ ready' \in [Processes -> BOOLEAN]
  BY <1>1, <1>2 DEF SchemaInv
<1>6. OldList' /\ NobodyPasses'
  BY <1>1 DEF SchemaInv, OldList, NobodyPasses, Unknown
<1> QED BY <1>3, <1>4, <1>5, <1>6 DEF SchemaInv

\* A process that dies takes its memo and its calls along, and no row.
LEMMA CrashStep == ASSUME SchemaInv, NEW p \in Processes, Schema!Crash(p) PROVE SchemaInv'
<1>1. /\ ready' = [ready EXCEPT ![p] = FALSE]
      /\ step' = [c \in Callers |-> IF CallerHome[c] = p THEN "off" ELSE step[c]]
      /\ at' = [c \in Callers |-> IF CallerHome[c] = p THEN 1 ELSE at[c]]
      /\ UNCHANGED <<found, legacy, recorded, executed>>
  BY DEF Schema!Crash, Schema!tables
<1>2. Schema!ReadyIsMigrated'
  BY <1>1, LatestType DEF SchemaInv, Schema!ReadyIsMigrated, Schema!Known
<1>3. Progress'
  <2> SUFFICES ASSUME NEW c \in Callers
               PROVE  /\ at'[c] \in 1 .. Latter(c)
                      /\ step'[c] = "seed" => found # None /\ at'[c] \in found
                      /\ step'[c] = "apply" => \A w \in 1 .. Latter(c) : w < at'[c] => w \in recorded
                      /\ step'[c] = "memoize" => 1 .. Latter(c) \subseteq recorded
    BY <1>1 DEF Progress, Latter
  <2>1. CASE CallerHome[c] = p
    BY <1>1, <2>1, LatestType
  <2>2. CASE CallerHome[c] # p
    BY <1>1, <2>2 DEF SchemaInv, Progress
  <2> QED BY <2>1, <2>2
<1>4. OldList' /\ NobodyPasses'
  BY <1>1 DEF SchemaInv, OldList, NobodyPasses, Unknown
<1>5. /\ step' \in [Callers -> {"off", "refused", "count", "exists", "versions", "read", "seed",
                               "lock", "list", "apply", "memoize"}]
      /\ at' \in [Callers -> Nat] /\ ready' \in [Processes -> BOOLEAN]
  BY <1>1 DEF SchemaInv
<1> QED BY <1>2, <1>3, <1>4, <1>5 DEF SchemaInv

LEMMA SchemaStep == SchemaInv /\ [Schema!Next]_schemaVars => SchemaInv'
<1> SUFFICES ASSUME SchemaInv, [Schema!Next]_schemaVars PROVE SchemaInv'
  OBVIOUS
<1>1. ASSUME NEW c \in Callers,
             Schema!Call(c) \/ Schema!Hit(c) \/ Schema!Lock(c) \/ Schema!Steps(c) \/ Schema!StatementFails(c)
      PROVE  SchemaInv'
  BY <1>1, LookingSteps, SeedStep, ApplyStep, MemoizeStep DEF Schema!Steps
<1>2. ASSUME NEW p \in Processes, Schema!Crash(p) PROVE SchemaInv'
  BY <1>2, CrashStep
<1>3. CASE UNCHANGED schemaVars
  BY <1>3 DEF schemaVars, SchemaInv, OldList, Progress, NobodyPasses, Unknown,
              Schema!ReadyIsMigrated, Schema!Known
<1> QED BY <1>1, <1>2, <1>3 DEF Schema!Next

-----------------------------------------------------------------------------
\* No advisory lock outlives its borrower, a domain has one writer, the nodes one
\* primary, and no process that is let through misses a file of its binary.
THEOREM OneWriterAlways == Spec => []OneWriter
<1>1. Init => LockInv /\ FenceInv /\ SchemaInv
  BY LockInit, FenceInit, SchemaInit DEF Init
<1>2. LockInv /\ FenceInv /\ SchemaInv /\ [Next]_vars => LockInv' /\ FenceInv' /\ SchemaInv'
  BY LockStep, FenceStep, SchemaStep DEF Next, vars, OfPaper, OfLock, OfFence, OfSchema
<1>3. LockInv /\ FenceInv /\ SchemaInv => OneWriter
  BY LockPromise, FencePromise DEF OneWriter, SchemaInv
<1> QED BY <1>1, <1>2, <1>3, PTL DEF Spec
=============================================================================
