---------------------------- MODULE DesktopProofs ----------------------------
(***************************************************************************)
(* Theorems about Desktop, for every number of sessions, pairs, events,    *)
(* turns and exits.                                                        *)
(*                                                                         *)
(* Both parts are about a slot and the tasks that were started through it. *)
(* What makes them hold is what a task can still do once it is out of the  *)
(* slot: TaskInv says for an observation how far it has come with its      *)
(* archive and its engine, and Owned for an analysis session that a stop   *)
(* has taken what the slot does not show.                                  *)
(***************************************************************************)
EXTENDS Desktop, TLAPS, FiniteSetTheorems

-----------------------------------------------------------------------------
(* Observation *)

\* The records of sessions' tasks.
TaskType ==
    [phase : Observation!Phases, pair : 1..Pairs + 1, told : BOOLEAN, failed : BOOLEAN,
     supervised : BOOLEAN, archived : Nat, offered : Nat,
     writer : {"none", "open", "closed"}, engine : {"none", "running", "aborted", "joined"}]

\* Before its start is done a task has nothing to flush; what it offered to the
\* engine it gives to the archive in the same turn; it does not end well with the
\* writer open or the engine running.
TaskInv(t) ==
    /\ t.phase \in {"none", "startup"} => t.writer = "none" /\ t.engine = "none" /\ t.offered = 0
    /\ t.offered <= IF t.phase = "submit" THEN t.archived + 1 ELSE t.archived
    /\ t.phase \in {"tick", "submit"} => t.pair <= Pairs
    /\ t.phase = "engine" => t.writer = "closed"
    /\ t.phase = "drop" => t.failed
    /\ t.phase = "ended" /\ ~t.failed => t.writer # "open" /\ t.engine # "running"

SessionInv ==
    /\ slot \in Observation!Sessions \cup {None}
    /\ waiting \in [Observation!Callers -> Observation!Sessions \cup {None}]
    /\ abandoned \subseteq Observation!Sessions
    /\ app \in {"up", "flushing", "gone"} /\ exits \in 0..MaxExits
    /\ session \in [Observation!Sessions -> TaskType]
    /\ \A s \in Observation!Sessions : TaskInv(session[s])
    /\ \E k \in 0..MaxSessions : Observation!Started = 1..k
    /\ stopped \subseteq {s \in Observation!Sessions :
                              session[s].phase = "ended" /\ ~session[s].failed}
    /\ Observation!OneUntold

LEMMA SessionInit == Observation!Init => SessionInv
<1> SUFFICES ASSUME Observation!Init PROVE SessionInv
  OBVIOUS
<1> USE DesktopAssumption DEF Observation!Init, Observation!SessionAssumption
<1>1. Observation!NoTask \in TaskType /\ TaskInv(Observation!NoTask)
  BY DEF TaskType, TaskInv, Observation!NoTask, Observation!Phases
<1>2. Observation!Started = 1..0
  BY DEF Observation!Started, Observation!NoTask
<1>3. Observation!OneUntold
  BY DEF Observation!OneUntold, Observation!Live, Observation!NoTask
<1> QED BY <1>1, <1>2, <1>3 DEF SessionInv

\* A task that goes on, told or untold, disturbs nothing but itself.
LEMMA TaskGoesOn ==
    ASSUME SessionInv, NEW s \in Observation!Sessions,
           session[s].phase \notin {"none", "ended"},
           NEW t \in TaskType, TaskInv(t), t.phase # "none", t.told = session[s].told,
           session' = [session EXCEPT ![s] = t],
           UNCHANGED Observation!control,
           app' \in {"up", "flushing", "gone"}, exits' \in 0..MaxExits
    PROVE  SessionInv'
<1> USE DEF SessionInv, Observation!control
<1>1. /\ session' \in [Observation!Sessions -> TaskType]
      /\ \A r \in Observation!Sessions : session'[r] = IF r = s THEN t ELSE session[r]
  OBVIOUS
<1>2. \A r \in Observation!Sessions : TaskInv(session[r])'
  <2> SUFFICES ASSUME NEW r \in Observation!Sessions PROVE TaskInv(session[r])'
    OBVIOUS
  <2>1. \A u : u = session'[r] => TaskInv(u)
    BY <1>1
  <2> QED BY <2>1 DEF TaskInv
<1>3. Observation!Started' = Observation!Started
  BY <1>1 DEF Observation!Started
<1>4. stopped' \subseteq {r \in Observation!Sessions :
                              session'[r].phase = "ended" /\ ~session'[r].failed}
  BY <1>1
<1>5. Observation!OneUntold'
  BY <1>1 DEF Observation!OneUntold, Observation!Live
<1> HIDE DEF Observation!Started
<1> QED BY <1>1, <1>2, <1>3, <1>4, <1>5

\* Each step of an observer loop gives a task of the kind it should be.
LEMMA ObserveInv ==
    ASSUME SessionInv, NEW s \in Observation!Sessions, Observation!Observe(s)
    PROVE  SessionInv'
<1> DEFINE old == session[s]
           Into(t) == /\ t \in TaskType /\ TaskInv(t) /\ t.phase # "none"
                      /\ t.told = old.told
                      /\ session' = [session EXCEPT ![s] = t]
                      /\ UNCHANGED Observation!control
                      /\ app' \in {"up", "flushing", "gone"} /\ exits' \in 0..MaxExits
<1>0. /\ old \in TaskType /\ TaskInv(old)
      /\ app \in {"up", "flushing", "gone"} /\ exits \in 0..MaxExits
      /\ session \in [Observation!Sessions -> TaskType]
      /\ Pairs \in Nat \ {0}
  BY DesktopAssumption DEF SessionInv, Observation!SessionAssumption
<1>1. old.phase \notin {"none", "ended"} /\ \E t : Into(t)
  <2> USE <1>0 DEF TaskType, TaskInv, Observation!Phases, Observation!process,
                   Observation!control, Observation!FailureExit, Observation!Leave,
                   Observation!Become
  <2>1. CASE Observation!PairReady(s)
    <3>1. Into([old EXCEPT !.pair = @ + 1])
      BY <2>1 DEF Observation!PairReady
    <3> QED BY <2>1, <3>1 DEF Observation!PairReady
  <2>2. CASE Observation!StartupDone(s)
    <3>1. PICK e \in {"none", "running"} :
                session' = [session EXCEPT ![s].phase = "loop", ![s].pair = 1,
                                           ![s].writer = "open", ![s].engine = e]
      BY <2>2 DEF Observation!StartupDone
    <3>2. Into([old EXCEPT !.phase = "loop", !.pair = 1, !.writer = "open", !.engine = e])
      BY <2>2, <3>1 DEF Observation!StartupDone
    <3> QED BY <2>2, <3>2 DEF Observation!StartupDone
  <2>3. CASE Observation!StartupFails(s)
    <3>1. Into([old EXCEPT !.phase = "ended", !.failed = TRUE])
      BY <2>3 DEF Observation!StartupFails
    <3> QED BY <2>3, <3>1 DEF Observation!StartupFails
  <2>4. CASE Observation!StartupStopped(s)
    <3>1. Into([old EXCEPT !.phase = "ended"])
      BY <2>4 DEF Observation!StartupStopped
    <3> QED BY <2>4, <3>1 DEF Observation!StartupStopped
  <2>5. CASE Observation!Tick(s)
    <3>1. 1 \in 1..Pairs + 1 /\ 1 <= Pairs /\ old.phase = "loop"
      BY <2>5 DEF Observation!Tick
    <3>2. session' = [session EXCEPT ![s] = [old EXCEPT !.phase = "tick", !.pair = 1]]
      BY <2>5 DEF Observation!Tick
    <3>3. Into([old EXCEPT !.phase = "tick", !.pair = 1])
      BY <2>5, <3>1, <3>2 DEF Observation!Tick
    <3> QED BY <3>1, <3>3
  <2>6. CASE Observation!ScanPair(s)
    <3>1. PICK n \in Nat : /\ n <= old.archived + 1
                           /\ n = IF old.engine = "running" THEN old.offered + 1 ELSE old.offered
      BY <2>6 DEF Observation!ScanPair
    <3>2. session' = [session EXCEPT ![s] = [old EXCEPT !.phase = "submit", !.offered = n]]
      BY <2>6, <3>1 DEF Observation!ScanPair
    <3>3. Into([old EXCEPT !.phase = "submit", !.offered = n])
      BY <2>6, <3>1, <3>2 DEF Observation!ScanPair
    <3> QED BY <2>6, <3>3 DEF Observation!ScanPair
  <2>7. CASE Observation!SkipPair(s)
    <3>1. Into([old EXCEPT !.phase = "submit"])
      BY <2>7 DEF Observation!SkipPair
    <3> QED BY <2>7, <3>1 DEF Observation!SkipPair
  <2>8. CASE Observation!Submit(s)
    <3>1. PICK n \in Nat : n = old.archived + 1
      OBVIOUS
    <3>2. PICK p \in 1..Pairs : p = IF old.pair < Pairs THEN old.pair + 1 ELSE 1
      BY <2>8 DEF Observation!Submit
    <3>3. PICK q \in {"tick", "loop"} : q = Observation!NextPair(s)
      BY DEF Observation!NextPair
    <3>4. PICK t : t = [old EXCEPT !.phase = q, !.archived = n, !.pair = p]
      OBVIOUS
    <3>5. old.offered <= n /\ old.phase = "submit" /\ p \in 1..Pairs + 1
      BY <2>8, <3>1 DEF Observation!Submit
    <3>6. session' = [session EXCEPT ![s] = t]
      BY <2>8, <3>1, <3>2, <3>3, <3>4 DEF Observation!Submit
    <3>7. t \in TaskType
      BY <3>4, <3>5
    <3>8. /\ t.phase = q /\ t.archived = n /\ t.pair = p /\ t.offered = old.offered
          /\ t.writer = old.writer /\ t.engine = old.engine /\ t.told = old.told
      BY <3>4
    <3>9. TaskInv(t)
      BY <3>5, <3>8
    <3>10. Into(t)
      BY <2>8, <3>6, <3>7, <3>8, <3>9 DEF Observation!Submit
    <3> QED BY <3>5, <3>10
  <2>9. CASE Observation!ScanFails(s)
    <3>1. PICK e \in {"none", "aborted", "joined"} :
                e = IF old.engine = "running" THEN "aborted" ELSE old.engine
      OBVIOUS
    <3>2. PICK t : t = [old EXCEPT !.phase = "drop", !.failed = TRUE, !.engine = e]
      OBVIOUS
    <3>3. old.phase = "tick" /\ session' = [session EXCEPT ![s] = t]
      BY <2>9, <3>1, <3>2 DEF Observation!ScanFails
    <3>4. t \in TaskType
      BY <3>2
    <3>5. /\ t.phase = "drop" /\ t.failed /\ t.offered = old.offered
          /\ t.archived = old.archived /\ t.told = old.told
      BY <3>2
    <3>6. TaskInv(t)
      BY <3>3, <3>5
    <3>7. Into(t)
      BY <2>9, <3>3, <3>4, <3>5, <3>6 DEF Observation!ScanFails
    <3> QED BY <3>3, <3>7
  <2>10. CASE Observation!Dropped(s)
    <3>1. Into([old EXCEPT !.phase = "ended", !.writer = "closed"])
      BY <2>10 DEF Observation!Dropped
    <3> QED BY <2>10, <3>1 DEF Observation!Dropped
  <2>11. CASE Observation!Refresh(s)
    <3>1. Into([old EXCEPT !.phase = "refresh"])
      BY <2>11 DEF Observation!Refresh
    <3> QED BY <2>11, <3>1 DEF Observation!Refresh
  <2>12. CASE Observation!Refreshed(s)
    <3>1. Into([old EXCEPT !.phase = Observation!AfterRefresh])
      BY <2>12 DEF Observation!Refreshed, Observation!AfterRefresh
    <3> QED BY <2>12, <3>1 DEF Observation!Refreshed
  <2>13. CASE Observation!Shutdown(s)
    <3>1. Into([old EXCEPT !.phase = "finish"])
      BY <2>13 DEF Observation!Shutdown
    <3> QED BY <2>13, <3>1 DEF Observation!Shutdown
  <2>14. CASE Observation!ArchiveFinished(s)
    <3>1. PICK q \in {"engine", "ended"} :
                q = IF old.engine = "running" THEN "engine" ELSE "ended"
      OBVIOUS
    <3>2. PICK t : t = [old EXCEPT !.writer = "closed", !.phase = q]
      OBVIOUS
    <3>3. old.phase = "finish" /\ session' = [session EXCEPT ![s] = t]
      BY <2>14, <3>1, <3>2 DEF Observation!ArchiveFinished
    <3>4. t \in TaskType
      BY <3>2
    <3>5. /\ t.phase = q /\ t.writer = "closed" /\ t.engine = old.engine
          /\ t.offered = old.offered /\ t.archived = old.archived /\ t.told = old.told
      BY <3>2
    <3>6. TaskInv(t)
      BY <3>1, <3>3, <3>5
    <3>7. Into(t)
      BY <2>14, <3>3, <3>4, <3>5, <3>6 DEF Observation!ArchiveFinished
    <3> QED BY <3>3, <3>7
  <2>15. CASE Observation!FinishFails(s)
    <3>1. Into([old EXCEPT !.writer = "closed", !.phase = "ended", !.failed = TRUE,
                !.engine = IF @ = "running" THEN "aborted" ELSE @])
      BY <2>15 DEF Observation!FinishFails
    <3> QED BY <2>15, <3>1 DEF Observation!FinishFails
  <2>16. CASE Observation!EngineJoined(s)
    <3>1. Into([old EXCEPT !.phase = "ended", !.engine = "joined"])
      BY <2>16 DEF Observation!EngineJoined
    <3> QED BY <2>16, <3>1 DEF Observation!EngineJoined
  <2> QED BY <2>1, <2>2, <2>3, <2>4, <2>5, <2>6, <2>7, <2>8,
             <2>9, <2>10, <2>11, <2>12, <2>13, <2>14, <2>15, <2>16 DEF Observation!Observe
<1> QED BY <1>0, <1>1, TaskGoesOn

\* A start fills a free slot, with a task that was not there before.
LEMMA StartInv ==
    ASSUME SessionInv, NEW supervised \in BOOLEAN, Observation!Start(supervised)
    PROVE  SessionInv'
<1> DEFINE n == Cardinality(Observation!Started) + 1
           t == [Observation!NoTask EXCEPT !.phase = "startup", !.supervised = supervised]
<1> USE DesktopAssumption DEF Observation!SessionAssumption
<1>1. PICK k \in 0..MaxSessions : Observation!Started = 1..k
  BY DEF SessionInv
<1>2. Cardinality(1..k) = k
  BY <1>1, FS_Interval
<1>3. n = k + 1 /\ k < MaxSessions /\ k \in Nat
  <2>1. Cardinality(Observation!Started) = k
    BY <1>1, <1>2
  <2>2. Cardinality(Observation!Started) < MaxSessions
    BY DEF Observation!Start, Observation!Cardinality, Cardinality
  <2> QED BY <2>1, <2>2
<1>4. n \in Observation!Sessions /\ n \notin Observation!Started
  <2>1. k + 1 \in 1..MaxSessions /\ k + 1 \notin 1..k
    BY <1>3
  <2> QED BY <1>1, <1>3, <2>1 DEF Observation!Sessions
<1>5. /\ session' = [session EXCEPT ![n] = t] /\ slot = None /\ slot' = n
      /\ UNCHANGED <<waiting, stopped, abandoned, app, exits>>
  BY DEF Observation!Start, Observation!SlotFree, Observation!process, Observation!Cardinality,
         Cardinality
<1>6. PICK m \in Observation!Sessions : m = n /\ m = k + 1
  BY <1>3, <1>4
<1>7. PICK u : u = t
  OBVIOUS
<1>8. u \in TaskType /\ TaskInv(u) /\ u.phase = "startup"
  <2>1. Observation!NoTask \in TaskType /\ 1 \in 1..Pairs + 1
    BY DEF TaskType, Observation!NoTask, Observation!Phases
  <2>2. /\ u = [phase |-> "startup", pair |-> 1, told |-> FALSE, failed |-> FALSE,
                supervised |-> supervised, archived |-> 0, offered |-> 0,
                writer |-> "none", engine |-> "none"]
    BY <1>7 DEF Observation!NoTask
  <2> QED BY <2>1, <2>2 DEF TaskType, TaskInv, Observation!Phases
<1>9. /\ session' = [session EXCEPT ![m] = u] /\ slot = None /\ slot' = m
      /\ UNCHANGED <<waiting, stopped, abandoned, app, exits>>
      /\ m \notin Observation!Started
  BY <1>4, <1>5, <1>6, <1>7
<1> HIDE DEF n, t
<1>10. /\ session' \in [Observation!Sessions -> TaskType]
       /\ \A r \in Observation!Sessions : session'[r] = IF r = m THEN u ELSE session[r]
  BY <1>8, <1>9 DEF SessionInv
<1>11. \A r \in Observation!Sessions : TaskInv(session[r])'
  <2> SUFFICES ASSUME NEW r \in Observation!Sessions PROVE TaskInv(session[r])'
    OBVIOUS
  <2>1. \A v : v = session'[r] => TaskInv(v)
    BY <1>8, <1>10 DEF SessionInv
  <2> QED BY <2>1 DEF TaskInv
<1>12. Observation!Started' = 1..(k + 1) /\ k + 1 \in 0..MaxSessions
  <2>1. Observation!Started' = Observation!Started \cup {m}
    BY <1>8, <1>9, <1>10 DEF Observation!Started
  <2>2. k + 1 \in 0..MaxSessions
    BY <1>6 DEF Observation!Sessions
  <2> QED BY <1>1, <1>6, <2>1, <2>2
<1>13. stopped' \subseteq {r \in Observation!Sessions :
                               session'[r].phase = "ended" /\ ~session'[r].failed}
  <2>1. m \notin stopped
    BY <1>9 DEF SessionInv, Observation!Started
  <2> QED BY <1>9, <1>10, <2>1 DEF SessionInv
<1>14. Observation!OneUntold'
  BY <1>9, <1>10 DEF SessionInv, Observation!OneUntold, Observation!Live,
     Observation!Sessions
<1> QED BY <1>1, <1>9, <1>10, <1>11, <1>12, <1>13, <1>14 DEF SessionInv

\* A stop frees the slot and signals the task that was in it; the task itself goes on.
LEMMA StopInv ==
    ASSUME SessionInv, NEW c \in Observation!Callers, Observation!Stop(c)
    PROVE  SessionInv'
<1> USE DesktopAssumption DEF Observation!SessionAssumption
<1>1. /\ slot \in Observation!Sessions /\ slot' = None
      /\ session' = [session EXCEPT ![slot] = [session[slot] EXCEPT !.told = TRUE]]
      /\ waiting' = [waiting EXCEPT ![c] = slot]
      /\ UNCHANGED <<stopped, abandoned, app, exits>>
  BY DEF SessionInv, Observation!Stop, Observation!Signalled, Observation!process
<1>2. PICK s \in Observation!Sessions : s = slot
  BY <1>1
<1>3. PICK t : t = [session[s] EXCEPT !.told = TRUE]
  OBVIOUS
<1>4. /\ t \in TaskType /\ TaskInv(t) /\ t.told
      /\ t.phase = session[s].phase /\ t.failed = session[s].failed
  <2> DEFINE old == session[s]
  <2>1. old \in TaskType /\ TaskInv(old)
    BY DEF SessionInv
  <2> HIDE DEF old
  <2>2. t = [old EXCEPT !.told = TRUE]
    BY <1>3 DEF old
  <2>3. t \in TaskType /\ t.told
    BY <2>1, <2>2 DEF TaskType
  <2>4. TaskInv(t) /\ t.phase = old.phase /\ t.failed = old.failed
    BY <2>1, <2>2 DEF TaskType, TaskInv
  <2> QED BY <2>3, <2>4 DEF old
<1>5. /\ session' \in [Observation!Sessions -> TaskType]
      /\ \A r \in Observation!Sessions : session'[r] = IF r = s THEN t ELSE session[r]
  BY <1>1, <1>2, <1>3, <1>4 DEF SessionInv
<1>6. \A r \in Observation!Sessions : TaskInv(session[r])'
  <2> SUFFICES ASSUME NEW r \in Observation!Sessions PROVE TaskInv(session[r])'
    OBVIOUS
  <2>1. \A v : v = session'[r] => TaskInv(v)
    BY <1>4, <1>5 DEF SessionInv
  <2> QED BY <2>1 DEF TaskInv
<1>7. Observation!Started' = Observation!Started
  BY <1>4, <1>5 DEF Observation!Started
<1>8. stopped' \subseteq {r \in Observation!Sessions :
                              session'[r].phase = "ended" /\ ~session'[r].failed}
  BY <1>1, <1>4, <1>5 DEF SessionInv
<1>9. Observation!OneUntold'
  BY <1>1, <1>2, <1>4, <1>5 DEF SessionInv, Observation!OneUntold, Observation!Live
<1> HIDE DEF Observation!Started
<1> QED BY <1>1, <1>2, <1>5, <1>6, <1>7, <1>8, <1>9 DEF SessionInv

\* The other steps leave every task and the slot as they are.
LEMMA WaitInv ==
    ASSUME SessionInv, UNCHANGED <<slot, session>>,
           \/ Observation!NothingToStop \/ Observation!RequestExit
           \/ \E c \in Observation!Callers :
                 Observation!StopReturns(c) \/ Observation!StopTimesOut(c)
           \/ UNCHANGED <<waiting, app, exits, stopped, abandoned>>
    PROVE  SessionInv'
<1> USE DesktopAssumption DEF Observation!SessionAssumption, SessionInv
<1>1. (\A s \in Observation!Sessions : TaskInv(session[s]))'
  BY DEF TaskInv
<1>2. Observation!Started' = Observation!Started /\ Observation!OneUntold'
  BY DEF Observation!Started, Observation!OneUntold, Observation!Live
<1> HIDE DEF Observation!Started, Observation!OneUntold, TaskInv, TaskType
<1>3. CASE Observation!NothingToStop
  BY <1>1, <1>2, <1>3 DEF Observation!NothingToStop, Observation!control
<1>4. CASE Observation!RequestExit
  BY <1>1, <1>2, <1>4 DEF Observation!RequestExit, Observation!control, Observation!Leave
<1>5. ASSUME NEW c \in Observation!Callers, Observation!StopReturns(c) PROVE SessionInv'
  <2>1. /\ waiting[c] \in Observation!Sessions /\ session[waiting[c]].phase = "ended"
        /\ stopped' \subseteq {s \in Observation!Sessions :
                                   session'[s].phase = "ended" /\ ~session'[s].failed}
    BY <1>5 DEF Observation!StopReturns, Observation!TaskDone
  <2> QED BY <1>1, <1>2, <1>5, <2>1 DEF Observation!StopReturns
<1>6. ASSUME NEW c \in Observation!Callers, Observation!StopTimesOut(c) PROVE SessionInv'
  BY <1>1, <1>2, <1>6 DEF Observation!StopTimesOut
<1>7. CASE UNCHANGED <<waiting, app, exits, stopped, abandoned>>
  BY <1>1, <1>2, <1>7
<1> QED BY <1>3, <1>4, <1>5, <1>6, <1>7

LEMMA SessionNext == SessionInv /\ Observation!Next => SessionInv'
<1> SUFFICES ASSUME SessionInv, Observation!Next PROVE SessionInv'
  OBVIOUS
<1>1. CASE Observation!NothingToStop \/ Observation!RequestExit
  BY <1>1, WaitInv DEF Observation!NothingToStop, Observation!RequestExit, Observation!control
<1>2. ASSUME NEW supervised \in BOOLEAN, Observation!Start(supervised) PROVE SessionInv'
  BY <1>2, StartInv
<1>3. ASSUME NEW s \in Observation!Sessions, Observation!Observe(s) PROVE SessionInv'
  BY <1>3, ObserveInv
<1>4. ASSUME NEW c \in Observation!Callers,
             \/ Observation!Stop(c) \/ Observation!StopReturns(c) \/ Observation!StopTimesOut(c)
      PROVE  SessionInv'
  BY <1>4, StopInv, WaitInv DEF Observation!StopReturns, Observation!StopTimesOut
<1> QED BY <1>1, <1>2, <1>3, <1>4 DEF Observation!Next

\* What the invariant says of the promises.
LEMMA SessionPromises == SessionInv => SessionsAccountedFor
<1> SUFFICES ASSUME SessionInv PROVE Observation!StopMeansFlushed
  BY DEF SessionInv, SessionsAccountedFor
<1> QED BY DEF SessionInv, TaskInv, TaskType, Observation!StopMeansFlushed, Observation!Live

-----------------------------------------------------------------------------
(* Analysis *)

\* A session that was started is the one in the slot, with the level on display, or a
\* stop has taken it; one that was not has no runtime.
Owned ==
    \A a \in Controller!Agents :
        IF agents[a].task = "none"
        THEN ~agents[a].runtime
        ELSE (inner = a /\ agents[a].level = access) \/ stops[a] # "none"

AgentType ==
    [task : {"none", "launching", "connected", "idle", "turn", "ended"}, runtime : BOOLEAN,
     level : Controller!Levels,
     phase : {"none", "starting", "ready", "running", "error", "stopped"},
     live : Nat \cup {None}, queue : Seq({"ask", "stop"}), asked : Nat, turns : Nat,
     finished : Nat]

ControllerInv ==
    /\ inner \in Controller!Agents \cup {None}
    /\ access \in Controller!Levels
    /\ agents \in [Controller!Agents -> AgentType]
    /\ stops \in [Controller!Agents -> {"none", "sending", "waiting", "answered", "abandoned"}]
    /\ \A a \in Controller!Agents : Len(agents[a].queue) <= Capacity
    /\ Owned

LEMMA ControllerInit == Controller!Init => ControllerInv
<1> SUFFICES ASSUME Controller!Init PROVE ControllerInv
  OBVIOUS
<1> USE DesktopAssumption DEF Controller!Init, Controller!ControllerAssumption,
        Controller!NoAgent, Controller!Levels
<1>1. Controller!NoAgent \in AgentType /\ Len(<<>>) <= Capacity
  BY DEF AgentType
<1> QED BY <1>1 DEF ControllerInv, Owned

\* A session's record after a step of its task, with the queue it is left with.
Becomes(old, t, queue) ==
    t \in AgentType /\ t.task # "none" /\ t.level = old.level /\ t.queue = queue

\* What a step of a session's task makes of its record is a record of the same type.
LEMMA AgentRecords ==
    ASSUME NEW old \in AgentType, old.task # "none",
           NEW q \in Seq({"ask", "stop"}), NEW n \in Nat, NEW m \in Nat \cup {None}
    PROVE  \A t :
           /\ t = [old EXCEPT !.task = "connected", !.runtime = TRUE]
                => Becomes(old, t, old.queue)
           /\ t = [old EXCEPT !.task = "ended", !.phase = "error", !.runtime = FALSE, !.queue = q]
                => Becomes(old, t, q)
           /\ t = [old EXCEPT !.task = "turn", !.phase = "running", !.queue = q,
                            !.live = m, !.turns = n]
                => Becomes(old, t, q)
           /\ t = [old EXCEPT !.task = "idle", !.phase = "ready", !.live = None, !.finished = n]
                => Becomes(old, t, old.queue)
           /\ t = [old EXCEPT !.runtime = FALSE]
                => Becomes(old, t, old.queue)
           /\ t = [old EXCEPT !.task = "ended", !.phase = "stopped", !.runtime = FALSE, !.queue = q]
                => Becomes(old, t, q)
<1>1. ASSUME NEW t, t = [old EXCEPT !.task = "connected", !.runtime = TRUE] PROVE Becomes(old, t, old.queue)
  <2>1. t \in AgentType
    BY <1>1 DEF AgentType
  <2>2. t.task # "none" /\ t.level = old.level /\ t.queue = old.queue
    BY <1>1 DEF AgentType
  <2> QED BY <2>1, <2>2 DEF Becomes
<1>2. ASSUME NEW t, t = [old EXCEPT !.task = "ended", !.phase = "error", !.runtime = FALSE, !.queue = q] PROVE Becomes(old, t, q)
  <2>1. t \in AgentType
    BY <1>2 DEF AgentType
  <2>2. t.task # "none" /\ t.level = old.level /\ t.queue = q
    BY <1>2 DEF AgentType
  <2> QED BY <2>1, <2>2 DEF Becomes
<1>3. ASSUME NEW t, t = [old EXCEPT !.task = "turn", !.phase = "running", !.queue = q,
                                                !.live = m, !.turns = n] PROVE Becomes(old, t, q)
  <2>1. t \in AgentType
    BY <1>3 DEF AgentType
  <2>2. t.task # "none" /\ t.level = old.level /\ t.queue = q
    BY <1>3 DEF AgentType
  <2> QED BY <2>1, <2>2 DEF Becomes
<1>4. ASSUME NEW t, t = [old EXCEPT !.task = "idle", !.phase = "ready", !.live = None, !.finished = n] PROVE Becomes(old, t, old.queue)
  <2>1. t \in AgentType
    BY <1>4 DEF AgentType
  <2>2. t.task # "none" /\ t.level = old.level /\ t.queue = old.queue
    BY <1>4 DEF AgentType
  <2> QED BY <2>1, <2>2 DEF Becomes
<1>5. ASSUME NEW t, t = [old EXCEPT !.runtime = FALSE] PROVE Becomes(old, t, old.queue)
  <2>1. t \in AgentType
    BY <1>5 DEF AgentType
  <2>2. t.task # "none" /\ t.level = old.level /\ t.queue = old.queue
    BY <1>5 DEF AgentType
  <2> QED BY <2>1, <2>2 DEF Becomes
<1>6. ASSUME NEW t, t = [old EXCEPT !.task = "ended", !.phase = "stopped", !.runtime = FALSE, !.queue = q] PROVE Becomes(old, t, q)
  <2>1. t \in AgentType
    BY <1>6 DEF AgentType
  <2>2. t.task # "none" /\ t.level = old.level /\ t.queue = q
    BY <1>6 DEF AgentType
  <2> QED BY <2>1, <2>2 DEF Becomes
<1> QED BY <1>1, <1>2, <1>3, <1>4, <1>5, <1>6

\* A session that goes on, whatever it does, belongs to whom it belonged.
LEMMA AgentGoesOn ==
    ASSUME ControllerInv, NEW a \in Controller!Agents, agents[a].task # "none",
           NEW t \in AgentType, t.task # "none", t.level = agents[a].level,
           Len(t.queue) <= Capacity,
           agents' = [agents EXCEPT ![a] = t],
           UNCHANGED <<inner, access>>,
           stops' \in [Controller!Agents ->
                          {"none", "sending", "waiting", "answered", "abandoned"}],
           \A b \in Controller!Agents : stops'[b] = "none" => stops[b] = "none"
    PROVE  ControllerInv'
<1>1. /\ agents' \in [Controller!Agents -> AgentType]
      /\ \A b \in Controller!Agents : agents'[b] = IF b = a THEN t ELSE agents[b]
  BY DEF ControllerInv
<1>2. Owned'
  BY <1>1 DEF ControllerInv, Owned
<1> QED BY <1>1, <1>2 DEF ControllerInv

\* The synchronous commands and the stops that touch no session's task.
LEMMA CommandInv ==
    ASSUME ControllerInv,
           \/ Controller!Start \/ Controller!StopTakes
           \/ \E level \in Controller!Levels : Controller!SetAccessLevel(level)
           \/ \E a \in Controller!Agents : Controller!StopDropped(a) \/ Controller!StopTimesOut(a)
    PROVE  ControllerInv'
<1> USE DesktopAssumption DEF ControllerInv, Controller!ControllerAssumption
<1>1. CASE Controller!Start
  <2>1. PICK a \in Controller!Agents :
            /\ agents[a].task = "none" /\ inner = None /\ inner' = a
            /\ agents' = [agents EXCEPT ![a] =
                  [Controller!NoAgent EXCEPT !.task = "launching", !.phase = "starting",
                                             !.level = access]]
            /\ UNCHANGED <<access, stops>>
    BY <1>1 DEF Controller!Start, Controller!Started, Controller!Step
  <2>2. PICK t : t = [Controller!NoAgent EXCEPT !.task = "launching", !.phase = "starting",
                                                !.level = access]
    OBVIOUS
  <2>3. /\ t \in AgentType /\ t.level = access /\ t.task # "none"
        /\ Len(t.queue) <= Capacity
    <3>1. t = [task |-> "launching", runtime |-> FALSE, level |-> access, phase |-> "starting",
               live |-> None, queue |-> <<>>, asked |-> 0, turns |-> 0, finished |-> 0]
      BY <2>2 DEF Controller!NoAgent
    <3>2. <<>> \in Seq({"ask", "stop"}) /\ Len(<<>>) <= Capacity
      OBVIOUS
    <3> QED BY <3>1, <3>2 DEF AgentType
  <2>4. /\ agents' \in [Controller!Agents -> AgentType]
        /\ \A b \in Controller!Agents : agents'[b] = IF b = a THEN t ELSE agents[b]
    BY <2>1, <2>2, <2>3
  <2>5. Owned'
    BY <2>1, <2>3, <2>4 DEF Owned, Controller!Agents
  <2> QED BY <2>1, <2>3, <2>4, <2>5
<1>2. CASE Controller!StopTakes
  BY <1>2 DEF Controller!StopTakes, Owned
<1>3. ASSUME NEW level \in Controller!Levels, Controller!SetAccessLevel(level)
      PROVE  ControllerInv'
  BY <1>3 DEF Controller!SetAccessLevel, Controller!LevelAccepted, Owned, Controller!Agents
<1>4. ASSUME NEW a \in Controller!Agents, Controller!StopDropped(a) \/ Controller!StopTimesOut(a)
      PROVE  ControllerInv'
  BY <1>4 DEF Controller!StopDropped, Controller!StopTimesOut, Owned
<1> QED BY <1>1, <1>2, <1>3, <1>4

\* Each step that touches a session's task leaves one of the same level.
LEMMA AgentInv ==
    ASSUME ControllerInv, NEW a \in Controller!Agents,
           \/ Controller!Ask /\ inner = a
           \/ Controller!Connect(a) \/ Controller!ThreadStarted(a) \/ Controller!LaunchFails(a)
           \/ Controller!BeginTurn(a) \/ Controller!EndTurn(a) \/ Controller!RuntimeExits(a)
           \/ Controller!Shutdown(a) \/ Controller!StopSends(a)
    PROVE  ControllerInv'
<1> DEFINE old == agents[a]
           Into(t) == /\ t \in AgentType /\ t.task # "none" /\ t.level = old.level
                      /\ Len(t.queue) <= Capacity
                      /\ agents' = [agents EXCEPT ![a] = t]
<1>0. /\ old \in AgentType /\ Len(old.queue) <= Capacity
      /\ agents \in [Controller!Agents -> AgentType]
      /\ stops \in [Controller!Agents ->
                       {"none", "sending", "waiting", "answered", "abandoned"}]
      /\ Capacity \in Nat \ {0}
      /\ <<>> \in Seq({"ask", "stop"}) /\ Len(<<>>) <= Capacity
  BY DesktopAssumption DEF ControllerInv, Controller!ControllerAssumption
<1>1. ASSUME Controller!Ask, inner = a PROVE ControllerInv'
  <2>1. /\ old.task # "none" /\ UNCHANGED <<inner, access, stops>>
        /\ Into([old EXCEPT !.queue = Append(@, "ask"), !.asked = @ + 1])
    BY <1>0, <1>1 DEF Controller!Ask, Controller!Alive, AgentType
  <2> QED BY <1>0, <2>1, AgentGoesOn
<1>2. CASE Controller!Connect(a)
  <2>1. /\ old.task # "none" /\ UNCHANGED <<inner, access, stops>>
        /\ agents' = [agents EXCEPT ![a] = [old EXCEPT !.task = "connected", !.runtime = TRUE]]
    BY <1>2 DEF Controller!Connect, Controller!Step
  <2>2. \A t : t = [old EXCEPT !.task = "connected", !.runtime = TRUE]
            => Becomes(old, t, old.queue)
    <3>1. old.task # "none" /\ <<>> \in Seq({"ask", "stop"}) /\ 0 \in Nat
      BY <1>0, <2>1
    <3> HIDE DEF old
    <3> QED BY <1>0, <3>1, AgentRecords
  <2>3. \E t : Into(t)
    BY <1>0, <2>1, <2>2 DEF Becomes
  <2> QED BY <1>0, <2>1, <2>3, AgentGoesOn
<1>3. CASE Controller!ThreadStarted(a)
  <2>1. /\ old.task # "none" /\ UNCHANGED <<inner, access, stops>>
        /\ Into([old EXCEPT !.task = "idle", !.phase = "ready"])
    BY <1>0, <1>3 DEF Controller!ThreadStarted, Controller!Step, AgentType
  <2> QED BY <1>0, <2>1, AgentGoesOn
<1>4. CASE Controller!LaunchFails(a)
  <2>1. /\ old.task # "none" /\ UNCHANGED <<inner, access, stops>>
        /\ agents' = [agents EXCEPT ![a] =
               [old EXCEPT !.task = "ended", !.phase = "error", !.runtime = FALSE,
                           !.queue = <<>>]]
    BY <1>4 DEF Controller!LaunchFails, Controller!Step
  <2>2. \A t : t = [old EXCEPT !.task = "ended", !.phase = "error", !.runtime = FALSE,
                               !.queue = <<>>]
            => Becomes(old, t, <<>>)
    <3>1. old.task # "none" /\ <<>> \in Seq({"ask", "stop"}) /\ 0 \in Nat
      BY <1>0, <2>1
    <3> HIDE DEF old
    <3> QED BY <1>0, <3>1, AgentRecords
  <2>3. \E t : Into(t)
    BY <1>0, <2>1, <2>2 DEF Becomes
  <2> QED BY <1>0, <2>1, <2>3, AgentGoesOn
<1>5. CASE Controller!BeginTurn(a)
  <2>1. old.queue # <<>> /\ old.queue \in Seq({"ask", "stop"})
    BY <1>0, <1>5 DEF Controller!BeginTurn, AgentType
  <2>2. Tail(old.queue) \in Seq({"ask", "stop"}) /\ Len(Tail(old.queue)) <= Capacity
    BY <1>0, <2>1
  <2>3. /\ old.task # "none" /\ UNCHANGED <<inner, access, stops>>
        /\ agents' = [agents EXCEPT ![a] =
               [old EXCEPT !.task = "turn", !.phase = "running", !.queue = Tail(@),
                           !.live = old.turns, !.turns = @ + 1]]
    BY <1>5 DEF Controller!BeginTurn, Controller!Step
  <2>4. \A t : t = [old EXCEPT !.task = "turn", !.phase = "running", !.queue = Tail(@),
                               !.live = old.turns, !.turns = @ + 1]
            => Becomes(old, t, Tail(old.queue))
    <3>1. PICK n \in Nat : n = old.turns + 1
      BY <1>0 DEF AgentType
    <3>2. PICK m \in Nat \cup {None} : m = old.turns
      BY <1>0 DEF AgentType
    <3>3. PICK q \in Seq({"ask", "stop"}) : q = Tail(old.queue)
      BY <2>2
    <3>4. old.task # "none"
      BY <2>3
    <3> HIDE DEF old
    <3> QED BY <1>0, <3>1, <3>2, <3>3, <3>4, AgentRecords
  <2>5. \E t : Into(t)
    BY <2>2, <2>3, <2>4 DEF Becomes
  <2> QED BY <1>0, <2>3, <2>5, AgentGoesOn
<1>6. CASE Controller!EndTurn(a)
  <2>1. /\ old.task # "none" /\ UNCHANGED <<inner, access, stops>>
        /\ agents' = [agents EXCEPT ![a] =
               [old EXCEPT !.task = "idle", !.phase = "ready", !.live = None,
                           !.finished = @ + 1]]
    BY <1>6 DEF Controller!EndTurn, Controller!Step
  <2>2. \A t : t = [old EXCEPT !.task = "idle", !.phase = "ready", !.live = None,
                               !.finished = @ + 1]
            => Becomes(old, t, old.queue)
    <3>1. PICK n \in Nat : n = old.finished + 1
      BY <1>0 DEF AgentType
    <3>2. PICK q \in Seq({"ask", "stop"}) : q = <<>>
      BY <1>0
    <3>3. old.task # "none"
      BY <2>1
    <3> HIDE DEF old
    <3> QED BY <1>0, <3>1, <3>2, <3>3, AgentRecords
  <2>3. \E t : Into(t)
    BY <1>0, <2>1, <2>2 DEF Becomes
  <2> QED BY <1>0, <2>1, <2>3, AgentGoesOn
<1>7. CASE Controller!RuntimeExits(a)
  <2>1. /\ old.task # "none" /\ UNCHANGED <<inner, access, stops>>
        /\ agents' = [agents EXCEPT ![a] = [old EXCEPT !.runtime = FALSE]]
    BY <1>7 DEF Controller!RuntimeExits, Controller!Step
  <2>2. \A t : t = [old EXCEPT !.runtime = FALSE]
            => Becomes(old, t, old.queue)
    <3>1. old.task # "none" /\ <<>> \in Seq({"ask", "stop"}) /\ 0 \in Nat
      BY <1>0, <2>1
    <3> HIDE DEF old
    <3> QED BY <1>0, <3>1, AgentRecords
  <2>3. \E t : Into(t)
    BY <1>0, <2>1, <2>2 DEF Becomes
  <2> QED BY <1>0, <2>1, <2>3, AgentGoesOn
<1>8. CASE Controller!Shutdown(a)
  <2>1. /\ old.task # "none" /\ UNCHANGED <<inner, access>>
        /\ agents' = [agents EXCEPT ![a] =
               [old EXCEPT !.task = "ended", !.phase = "stopped", !.runtime = FALSE,
                           !.queue = <<>>]]
    BY <1>8 DEF Controller!Shutdown, Controller!Step, Controller!AfterShutdown
  <2>2. /\ stops' \in [Controller!Agents ->
                          {"none", "sending", "waiting", "answered", "abandoned"}]
        /\ \A b \in Controller!Agents : stops'[b] = "none" => stops[b] = "none"
    BY <1>0, <1>8 DEF Controller!Shutdown
  <2>3. \A t : t = [old EXCEPT !.task = "ended", !.phase = "stopped", !.runtime = FALSE,
                               !.queue = <<>>]
            => Becomes(old, t, <<>>)
    <3>1. old.task # "none" /\ <<>> \in Seq({"ask", "stop"}) /\ 0 \in Nat
      BY <1>0, <2>1
    <3> HIDE DEF old
    <3> QED BY <1>0, <3>1, AgentRecords
  <2>4. \E t : Into(t)
    BY <1>0, <2>1, <2>3 DEF Becomes
  <2> QED BY <1>0, <2>1, <2>2, <2>4, AgentGoesOn
<1>9. CASE Controller!StopSends(a)
  <2>1. /\ UNCHANGED <<inner, access>>
        /\ stops' \in [Controller!Agents ->
                          {"none", "sending", "waiting", "answered", "abandoned"}]
        /\ \A b \in Controller!Agents : stops'[b] = "none" => stops[b] = "none"
    BY <1>0, <1>9 DEF Controller!StopSends
  <2>2. CASE Controller!Alive(a)
    <3>1. /\ old.task # "none" /\ Len(old.queue) < Capacity
          /\ agents' = [agents EXCEPT ![a] = [old EXCEPT !.queue = Append(@, "stop")]]
      BY <1>9, <2>2 DEF Controller!StopSends, Controller!Alive
    <3>2. /\ Append(old.queue, "stop") \in Seq({"ask", "stop"})
          /\ Len(Append(old.queue, "stop")) <= Capacity
      BY <1>0, <3>1 DEF AgentType
    <3>3. \A t : t = [old EXCEPT !.queue = Append(@, "stop")]
              => /\ t \in AgentType /\ t.task = old.task /\ t.level = old.level
                 /\ t.queue = Append(old.queue, "stop")
      BY <1>0, <3>2 DEF AgentType
    <3>4. \E t : Into(t)
      BY <3>1, <3>2, <3>3
    <3> QED BY <1>0, <2>1, <3>1, <3>4, AgentGoesOn
  <2>3. CASE ~Controller!Alive(a)
    BY <1>9, <2>1, <2>3 DEF Controller!StopSends, ControllerInv, Owned
  <2> QED BY <2>2, <2>3
<1> QED BY <1>1, <1>2, <1>3, <1>4, <1>5, <1>6, <1>7, <1>8, <1>9

LEMMA ControllerNext == ControllerInv /\ Controller!Next => ControllerInv'
<1> SUFFICES ASSUME ControllerInv, Controller!Next PROVE ControllerInv'
  OBVIOUS
<1>1. CASE Controller!Ask
  <2>1. inner \in Controller!Agents
    BY <1>1 DEF ControllerInv, Controller!Ask
  <2> QED BY <1>1, <2>1, AgentInv
<1> QED BY <1>1, AgentInv, CommandInv DEF Controller!Next

-----------------------------------------------------------------------------
(* The theorems *)

DesktopInv == SessionInv /\ ControllerInv

LEMMA DesktopStep == DesktopInv /\ [Next]_vars => DesktopInv'
<1> SUFFICES ASSUME DesktopInv, [Next]_vars PROVE DesktopInv'
  OBVIOUS
<1>1. ASSUME UNCHANGED sessionVars PROVE SessionInv'
  BY <1>1, WaitInv DEF sessionVars, DesktopInv
<1>2. ASSUME UNCHANGED controllerVars PROVE ControllerInv'
  BY <1>2 DEF controllerVars, DesktopInv, ControllerInv, Owned
<1>3. CASE Next
  <2>1. CASE OfSession(Observation!Next)
    BY <1>2, <2>1, SessionNext DEF OfSession, DesktopInv
  <2>2. CASE OfController(Controller!Next)
    BY <1>1, <2>2, ControllerNext DEF OfController, DesktopInv
  <2> QED BY <1>3, <2>1, <2>2 DEF Next
<1>4. CASE UNCHANGED vars
  BY <1>1, <1>2, <1>4 DEF vars, DesktopInv
<1> QED BY <1>3, <1>4

LEMMA DesktopInvariant == FairSpec => []DesktopInv
<1>1. Init => DesktopInv
  BY SessionInit, ControllerInit DEF Init, DesktopInv
<1> QED BY <1>1, DesktopStep, PTL DEF FairSpec

\* Every variable of the two handles stays in its range.
THEOREM DesktopTypes == FairSpec => [](Observation!TypeOK /\ Controller!TypeOK)
<1>1. DesktopInv => Observation!TypeOK /\ Controller!TypeOK
  BY DEF DesktopInv, SessionInv, ControllerInv, Observation!TypeOK, Controller!TypeOK,
         TaskType, AgentType
<1> QED BY <1>1, DesktopInvariant, PTL

\* SessionController (commands/session.rs): of the observations alive one at most has
\* not been told to stop, the one in the slot, whatever failed starts, late stops and
\* new starts leave behind; and a stop that was answered with success has waited for
\* the archive to be flushed and the engine to end, with nothing offered and not archived.
THEOREM SessionsAreAccountedFor == FairSpec => []SessionsAccountedFor
<1>1. DesktopInv => SessionsAccountedFor
  BY SessionPromises DEF DesktopInv
<1> QED BY <1>1, DesktopInvariant, PTL

\* AgentController (commands/agent.rs): a runtime that is alive belongs to the session
\* in the slot and is confined as the level on display says, or a stop has taken its
\* session, however starts, stops and changes of the level are interleaved.
THEOREM RuntimesAreAccountedFor == FairSpec => []RuntimesAccountedFor
<1>1. DesktopInv => RuntimesAccountedFor
  BY DEF DesktopInv, ControllerInv, Owned, RuntimesAccountedFor,
         Controller!RuntimesAccountedFor
<1> QED BY <1>1, DesktopInvariant, PTL
=============================================================================
