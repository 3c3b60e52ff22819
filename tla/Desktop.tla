------------------------------- MODULE Desktop -------------------------------
(***************************************************************************)
(* The two handles the desktop keeps on long tasks: the observation        *)
(* session (ObserverSession) and the analysis session (AgentController).   *)
(* They share no state, so a behaviour is about one of them; each has the  *)
(* fairness of its own module.                                             *)
(***************************************************************************)
EXTENDS Integers, Sequences

CONSTANTS
    Parts,
    MaxSessions, Pairs, MaxEvents, MaxExits,  \* observation
    MaxTurns, Capacity,                       \* analysis
    None

VARIABLES
    part,
    slot, session, waiting, app, exits, stopped, abandoned,
    inner, access, agents, stops

sessionVars == <<slot, session, waiting, app, exits, stopped, abandoned>>
controllerVars == <<inner, access, agents, stops>>
vars == <<part, sessionVars, controllerVars>>

Observation == INSTANCE ObserverSession
Controller == INSTANCE AgentController WITH MaxAgents <- MaxSessions

ASSUME DesktopAssumption ==
    /\ Parts \subseteq {"observation", "analysis"}
    /\ Observation!SessionAssumption
    /\ Controller!ControllerAssumption

Init == part \in Parts /\ Observation!Init /\ Controller!Init

OfSession(A) == part = "observation" /\ A /\ UNCHANGED <<part, controllerVars>>
OfController(A) == part = "analysis" /\ A /\ UNCHANGED <<part, sessionVars>>

Next == OfSession(Observation!Next) \/ OfController(Controller!Next)

\* The fairness of both modules, which are about sessions 1 .. n alike, taken
\* together two by two: part never changes.
Fairness ==
    /\ \A s \in 1 .. MaxSessions :
          /\ WF_vars(OfSession(Observation!StartupDone(s)) \/ OfController(Controller!Connect(s)))
          /\ WF_vars(OfSession(Observation!StartupFails(s))
                     \/ OfController(Controller!ThreadStarted(s) \/ Controller!LaunchFails(s)))
          /\ WF_vars(OfSession(Observation!StartupStopped(s)) \/ OfController(Controller!BeginTurn(s)))
          /\ WF_vars(OfSession(Observation!SkipPair(s) \/ Observation!ScanPair(s))
                     \/ OfController(Controller!EndTurn(s)))
          /\ WF_vars(OfSession(Observation!Submit(s)) \/ OfController(Controller!Shutdown(s)))
          /\ WF_vars(OfSession(Observation!Dropped(s)) \/ OfController(Controller!StopSends(s)))
          /\ WF_vars(OfSession(Observation!Refreshed(s))
                     \/ OfController(Controller!StopDropped(s) \/ Controller!StopTimesOut(s)))
          /\ WF_vars(OfSession(Observation!ArchiveFinished(s)))
          /\ WF_vars(OfSession(Observation!EngineJoined(s)))
          /\ SF_vars(OfSession(Observation!Shutdown(s)))
    /\ \A c \in {"command", "exit"} : WF_vars(OfSession(Observation!StopReturns(c)))
    /\ WF_vars(OfSession(Observation!Stop("exit")))
    /\ WF_vars(OfSession(Observation!NothingToStop))

FairSpec == Init /\ [][Next]_vars /\ Fairness

-----------------------------------------------------------------------------
\* Of the live sessions one at most has not been told to stop: the one in the slot; and
\* a stop answered with success has waited for the archive and the engine.
SessionsAccountedFor == Observation!OneUntold /\ Observation!StopMeansFlushed

\* A session taken out of the slot ends.
TakenSessionEnds == Observation!TakenSessionEnds

\* Leaving the application flushes the archive first.
ExitFlushes == Observation!ExitFlushes

\* A runtime belongs to the session on display, with the level on display, or has
\* been told to stop.
RuntimesAccountedFor == Controller!RuntimesAccountedFor

\* A session told to stop loses its runtime, and queued questions are settled.
CommandsTakeEffect == Controller!CommandsTakeEffect
=============================================================================
