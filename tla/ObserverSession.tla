--------------------------- MODULE ObserverSession ---------------------------
(***************************************************************************)
(* Continuous observation on the desktop: the SessionController (commands/ *)
(* session.rs) with its one slot, the observer loops it has started        *)
(* (observer.rs, observe_continuously), and the exit path of the           *)
(* application (lib.rs).  A loop scans pair after pair at each tick, offers *)
(* what it scanned to the simulation engine and submits it to the archive. *)
(*                                                                         *)
(* A session taken out of the slot goes on until its loop has seen the     *)
(* shutdown signal and has flushed; the slot is free meanwhile.            *)
(***************************************************************************)
EXTENDS Integers, FiniteSets

CONSTANTS
    MaxSessions,    \* bound: sessions started
    Pairs,          \* the number of configured pairs
    MaxEvents,      \* bound: events of one session
    MaxExits,       \* bound: requests to leave the application
    None

SessionAssumption ==
    /\ MaxSessions \in Nat /\ MaxEvents \in Nat /\ MaxExits \in Nat
    /\ Pairs \in Nat \ {0}
    /\ None \notin 1..MaxSessions

VARIABLES
    slot,       \* SessionController.inner: the running session, or None
    session,    \* every session's task
    waiting,    \* a call of stop that waits for a session's task, or None
    app,        \* "up", "flushing" (the exit path has begun) or "gone"
    exits,      \* exits requested so far
    stopped,    \* history: sessions whose stop was answered with success
    abandoned   \* history: sessions whose stop ran out of time

control == <<slot, waiting, stopped, abandoned>>
process == <<app, exits>>
vars == <<control, session, process>>

Sessions == 1..MaxSessions
Callers == {"command", "exit"}
Phases == {"none", "startup", "loop", "tick", "submit", "refresh", "finish",
           "engine", "drop", "ended"}

\* [task]: where the task is, which pair it is at, whether it got the shutdown
\* signal, whether it failed or an autostart watches it; the records it gave to
\* the archive and to the engine; the state of its archive writer and its engine.
NoTask == [phase |-> "none", pair |-> 1, told |-> FALSE, failed |-> FALSE,
           supervised |-> FALSE, archived |-> 0, offered |-> 0,
           writer |-> "none", engine |-> "none"]

TypeOK ==
    /\ slot \in Sessions \cup {None}
    /\ waiting \in [Callers -> Sessions \cup {None}]
    /\ stopped \subseteq Sessions /\ abandoned \subseteq Sessions
    /\ app \in {"up", "flushing", "gone"} /\ exits \in 0..MaxExits
    /\ \A s \in Sessions :
          /\ session[s].phase \in Phases /\ session[s].pair \in 1..Pairs + 1
          /\ session[s].writer \in {"none", "open", "closed"}
          /\ session[s].engine \in {"none", "running", "aborted", "joined"}

Init ==
    /\ slot = None
    /\ session = [s \in Sessions |-> NoTask]
    /\ waiting = [c \in Callers |-> None]
    /\ app = "up" /\ exits = 0
    /\ stopped = {} /\ abandoned = {}

-----------------------------------------------------------------------------
Started == {s \in Sessions : session[s].phase # "none"}
Live(s) == session[s].phase \notin {"none", "ended"}
Running == app # "gone"

Become(s, phase) == session' = [session EXCEPT ![s].phase = phase]

\* A finished session is in the way too, until it is stopped.
SlotFree == slot = None

\* SessionController::start, under the mutex.
Start(supervised) ==
    /\ Running /\ SlotFree
    /\ Cardinality(Started) < MaxSessions
    /\ supervised => \A s \in Started : ~session[s].supervised
    /\ LET s == Cardinality(Started) + 1
       IN  /\ session' = [session EXCEPT ![s] = [NoTask EXCEPT !.phase = "startup",
                                                               !.supervised = supervised]]
           /\ slot' = s
    /\ UNCHANGED <<waiting, stopped, abandoned, process>>

-----------------------------------------------------------------------------
(* observe_continuously.                                                   *)

\* The books of a pair are VALID or not whenever their status is read: each read
\* has both outcomes.

\* PairRun::new of one pair after the other: wait_for_valid_pair saw both books.
PairReady(s) ==
    /\ Running /\ session[s].phase = "startup"
    /\ session[s].pair <= Pairs
    /\ session' = [session EXCEPT ![s].pair = @ + 1]
    /\ UNCHANGED <<control, process>>

\* All pairs are up: the writer starts, and the engine if its database answers.
StartupDone(s) ==
    /\ Running /\ session[s].phase = "startup"
    /\ session[s].pair = Pairs + 1
    /\ \E engine \in {"none", "running"} :
          session' = [session EXCEPT ![s].phase = "loop", ![s].pair = 1,
                                     ![s].writer = "open", ![s].engine = engine]
    /\ UNCHANGED <<control, process>>

\* RunEvent::ExitRequested: the first one starts the flush, the next one leaves.
Leave == app' = IF app = "up" THEN "flushing" ELSE "gone"

\* A supervised task that failed asks the application to leave.
FailureExit(s) == IF session[s].supervised THEN Leave ELSE UNCHANGED app

\* A request fails, or the books are not VALID within the start timeout.
StartupFails(s) ==
    /\ Running /\ session[s].phase = "startup"
    /\ session' = [session EXCEPT ![s].phase = "ended", ![s].failed = TRUE]
    /\ FailureExit(s)
    /\ UNCHANGED <<control, exits>>

StartupStopped(s) ==
    /\ Running /\ session[s].phase = "startup" /\ session[s].told
    /\ Become(s, "ended")
    /\ UNCHANGED <<control, process>>

Tick(s) ==
    /\ Running /\ session[s].phase = "loop"
    /\ session[s].archived + Pairs <= MaxEvents
    /\ session' = [session EXCEPT ![s].phase = "tick", ![s].pair = 1]
    /\ UNCHANGED <<control, process>>

\* The pair's books are both VALID: it is scanned, and the event offered.
ScanPair(s) ==
    /\ Running /\ session[s].phase = "tick"
    /\ session' = [session EXCEPT ![s].phase = "submit",
                      ![s].offered = IF session[s].engine = "running" THEN @ + 1 ELSE @]
    /\ UNCHANGED <<control, process>>

\* They are not: only a health record is submitted.
SkipPair(s) ==
    /\ Running /\ session[s].phase = "tick"
    /\ Become(s, "submit")
    /\ UNCHANGED <<control, process>>

NextPair(s) == IF session[s].pair < Pairs THEN "tick" ELSE "loop"

Submit(s) ==
    /\ Running /\ session[s].phase = "submit"
    /\ session' = [session EXCEPT ![s].phase = NextPair(s), ![s].archived = @ + 1,
                      ![s].pair = IF @ < Pairs THEN @ + 1 ELSE 1]
    /\ UNCHANGED <<control, process>>

\* The scan fails: the function returns, the engine is dropped, the writer closes.
ScanFails(s) ==
    /\ Running /\ session[s].phase = "tick"
    /\ session' = [session EXCEPT ![s].phase = "drop", ![s].failed = TRUE,
                      ![s].engine = IF @ = "running" THEN "aborted" ELSE @]
    /\ UNCHANGED <<control, process>>

Dropped(s) ==
    /\ Running /\ session[s].phase = "drop"
    /\ session' = [session EXCEPT ![s].phase = "ended", ![s].writer = "closed"]
    /\ FailureExit(s)
    /\ UNCHANGED <<control, exits>>

\* The account tick: the loop looks at nothing else until all accounts are loaded.
Refresh(s) ==
    /\ Running /\ session[s].phase = "loop"
    /\ Become(s, "refresh")
    /\ UNCHANGED <<control, process>>

\* Mutant of AfterRefresh: accounts that could not be loaded are asked for again.
AfterRefresh_Retries == "refresh"

\* load_account_data always answers, with data that admit nothing if need be.
AfterRefresh == "loop"

Refreshed(s) ==
    /\ Running /\ session[s].phase = "refresh"
    /\ Become(s, AfterRefresh)
    /\ UNCHANGED <<control, process>>

Shutdown(s) ==
    /\ Running /\ session[s].phase = "loop" /\ session[s].told
    /\ Become(s, "finish")
    /\ UNCHANGED <<control, process>>

\* archive.finish drains and joins, then the engine is shut down if there is one.
ArchiveFinished(s) ==
    /\ Running /\ session[s].phase = "finish"
    /\ session' = [session EXCEPT ![s].writer = "closed",
                      ![s].phase = IF session[s].engine = "running" THEN "engine" ELSE "ended"]
    /\ UNCHANGED <<control, process>>

FinishFails(s) ==
    /\ Running /\ session[s].phase = "finish"
    /\ session' = [session EXCEPT ![s].writer = "closed", ![s].phase = "ended",
                      ![s].failed = TRUE,
                      ![s].engine = IF @ = "running" THEN "aborted" ELSE @]
    /\ FailureExit(s)
    /\ UNCHANGED <<control, exits>>

EngineJoined(s) ==
    /\ Running /\ session[s].phase = "engine"
    /\ session' = [session EXCEPT ![s].phase = "ended", ![s].engine = "joined"]
    /\ UNCHANGED <<control, process>>

Observe(s) ==
    \/ PairReady(s) \/ StartupDone(s) \/ StartupFails(s) \/ StartupStopped(s)
    \/ Tick(s) \/ ScanPair(s) \/ SkipPair(s) \/ Submit(s) \/ ScanFails(s) \/ Dropped(s)
    \/ Refresh(s) \/ Refreshed(s)
    \/ Shutdown(s) \/ ArchiveFinished(s) \/ FinishFails(s) \/ EngineJoined(s)

-----------------------------------------------------------------------------
(* stop, and leaving the application.                                      *)

\* The signal stays with the task until its loop, or its startup, polls for it.
Signalled(t) == [t EXCEPT !.told = TRUE]

\* stop takes the session out of the slot and signals it.
Stop(c) ==
    /\ Running /\ waiting[c] = None /\ slot # None
    /\ c = "exit" => app = "flushing"
    /\ session' = [session EXCEPT ![slot] = Signalled(@)]
    /\ waiting' = [waiting EXCEPT ![c] = slot]
    /\ slot' = None
    /\ UNCHANGED <<stopped, abandoned, process>>

\* The exit path finds no session (the command finds none: nothing happens).
NothingToStop ==
    /\ app = "flushing" /\ waiting["exit"] = None /\ slot = None
    /\ app' = "gone"
    /\ UNCHANGED <<control, session, exits>>

\* Mutant of TaskDone: the signal is taken for the end of the task.
TaskDone_Told(s) == session[s].told

\* The join handle is ready.
TaskDone(s) == session[s].phase = "ended"

StopReturns(c) ==
    /\ Running /\ waiting[c] # None /\ TaskDone(waiting[c])
    /\ stopped' = IF session[waiting[c]].failed THEN stopped ELSE stopped \cup {waiting[c]}
    /\ waiting' = [waiting EXCEPT ![c] = None]
    /\ app' = IF c = "exit" THEN "gone" ELSE app
    /\ UNCHANGED <<slot, session, abandoned, exits>>

\* The flush timeout passes: the task goes on, nobody waits for it any more.
StopTimesOut(c) ==
    /\ Running /\ waiting[c] # None /\ ~TaskDone(waiting[c])
    /\ abandoned' = abandoned \cup {waiting[c]}
    /\ waiting' = [waiting EXCEPT ![c] = None]
    /\ app' = IF c = "exit" THEN "gone" ELSE app
    /\ UNCHANGED <<slot, session, stopped, exits>>

\* SIGTERM, or the window is closed.
RequestExit ==
    /\ Running /\ exits < MaxExits
    /\ exits' = exits + 1
    /\ Leave
    /\ UNCHANGED <<control, session>>

Next ==
    \/ NothingToStop \/ RequestExit
    \/ \E supervised \in BOOLEAN : Start(supervised)
    \/ \E s \in Sessions : Observe(s)
    \/ \E c \in Callers : Stop(c) \/ StopReturns(c) \/ StopTimesOut(c)

\* The runtime polls the task of every session; requests, the wait for valid
\* books, the archive's drain and the engine's join all end (the loop's turns
\* compete: a signalled loop is eventually polled with the signal ready, which is
\* strong fairness of Shutdown).
Fairness ==
    /\ \A s \in Sessions :
          /\ WF_vars(StartupDone(s)) /\ WF_vars(StartupFails(s)) /\ WF_vars(StartupStopped(s))
          /\ WF_vars(SkipPair(s) \/ ScanPair(s)) /\ WF_vars(Submit(s))
          /\ WF_vars(Dropped(s)) /\ WF_vars(Refreshed(s))
          /\ WF_vars(ArchiveFinished(s)) /\ WF_vars(EngineJoined(s))
          /\ SF_vars(Shutdown(s))
    /\ \A c \in Callers : WF_vars(StopReturns(c))
    /\ WF_vars(Stop("exit")) /\ WF_vars(NothingToStop)

Spec == Init /\ [][Next]_vars /\ Fairness

-----------------------------------------------------------------------------
(* What observation promises.                                              *)

\* Of the sessions whose tasks are alive, one at most has not been told to stop,
\* and it is the one in the slot: what a failed start, a stop that runs out of
\* time or a start during a stop leave behind is always on its way out.
OneUntold ==
    \A s \in Sessions : Live(s) /\ ~session[s].told => s = slot

\* A stop that was answered with success has waited for everything: the archive
\* is flushed and closed, the engine has ended, and what was offered to the engine
\* had been given to the archive as well.
StopMeansFlushed ==
    \A s \in stopped :
        /\ ~Live(s)
        /\ session[s].writer # "open" /\ session[s].engine # "running"
        /\ session[s].offered <= session[s].archived

\* A session that was taken out of the slot ends, unless the process does, though
\* its loop may be scanning, loading accounts or still waiting for its books.
TakenSessionEnds ==
    \A s \in Sessions : (s \in Started /\ slot # s) ~> (~Live(s) \/ ~Running)

\* Leaving the application once flushes the archive first, whatever else goes on
\* (session.rs, lib.rs: the exit path waits for stop, up to its timeout).
ExitFlushes ==
    ~Running /\ exits <= 1 /\ (\A s \in Started : ~session[s].supervised)
        => \A s \in Started \ abandoned : session[s].writer # "open"

=============================================================================
