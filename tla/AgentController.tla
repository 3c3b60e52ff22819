--------------------------- MODULE AgentController ---------------------------
(***************************************************************************)
(* The desktop's analysis sessions (commands/agent.rs): AgentController     *)
(* with its one slot and its access level, and the task of every session it *)
(* has started (run_agent), which owns a runtime and takes its commands     *)
(* from a bounded channel, one at a time: a stop waits behind the turn that *)
(* runs and the questions queued before it.                                 *)
(*                                                                         *)
(* start, ask, decide and set_access_level are synchronous commands, which  *)
(* the main thread runs one after the other; only stop waits.  The course   *)
(* of one turn is AgentTurn.                                                *)
(***************************************************************************)
EXTENDS Integers, Sequences

CONSTANTS
    MaxAgents,      \* bound: sessions started
    MaxTurns,       \* bound: questions asked in one session
    Capacity,       \* of the command channel
    None

ControllerAssumption ==
    /\ MaxAgents \in Nat /\ MaxTurns \in Nat /\ Capacity \in Nat \ {0}
    /\ None \notin 1..MaxAgents

VARIABLES
    inner,      \* AgentController.inner: the session in the slot, or None
    access,     \* AgentController.access: the level a new session will have
    agents,     \* every session: its shared status, its channel, its task
    stops       \* the call of stop that took a session: where it is

vars == <<inner, access, agents, stops>>

Agents == 1..MaxAgents

\* AccessLevel (agent/access.rs).
Levels == {"ask", "auto_approve", "full_access"}

\* [task, runtime]: where run_agent is and whether its child process runs;
\* [phase, live]: the shared status, with the turn that the live view shows;
\* [turns, finished]: turns begun and turns whose record is complete.
NoAgent == [task |-> "none", runtime |-> FALSE, level |-> "ask", phase |-> "none",
            live |-> None, queue |-> <<>>, asked |-> 0, turns |-> 0, finished |-> 0]

TypeOK ==
    /\ inner \in Agents \cup {None} /\ access \in Levels
    /\ stops \in [Agents -> {"none", "sending", "waiting", "answered", "abandoned"}]
    /\ \A a \in Agents :
          /\ agents[a].task \in {"none", "launching", "connected", "idle", "turn", "ended"}
          /\ agents[a].phase \in {"none", "starting", "ready", "running", "error", "stopped"}
          /\ agents[a].level \in Levels /\ Len(agents[a].queue) <= Capacity

Init ==
    /\ inner = None /\ access = "ask"
    /\ agents = [a \in Agents |-> NoAgent]
    /\ stops = [a \in Agents |-> "none"]

Started == {a \in Agents : agents[a].task # "none"}
Alive(a) == agents[a].task \notin {"none", "ended"}
Step(a, next) == agents' = [agents EXCEPT ![a] = next]

-----------------------------------------------------------------------------
(* The synchronous commands.                                               *)

\* The slot is looked at, and a session in it reported as it is, whatever its phase.
Start ==
    /\ inner = None
    /\ \E a \in Agents \ Started :
          /\ \A b \in 1..a - 1 : b \in Started
          /\ Step(a, [NoAgent EXCEPT !.task = "launching", !.phase = "starting", !.level = access])
          /\ inner' = a
    /\ UNCHANGED <<access, stops>>

\* A question is queued unless a turn runs, the session is starting, its task has
\* ended or the channel is full.  The phase changes only when the task takes it.
Ask ==
    /\ inner # None
    /\ agents[inner].phase \notin {"running", "starting"}
    /\ Alive(inner) /\ Len(agents[inner].queue) < Capacity
    /\ agents[inner].asked < MaxTurns
    /\ agents' = [agents EXCEPT ![inner].queue = Append(@, "ask"), ![inner].asked = @ + 1]
    /\ UNCHANGED <<inner, access, stops>>

\* Mutant of LevelAccepted: the slot is not looked at.
LevelAccepted_Always(level) == TRUE

\* A session in the slot admits its own level only.
LevelAccepted(level) == inner # None => agents[inner].level = level

SetAccessLevel(level) ==
    /\ LevelAccepted(level) /\ level # access
    /\ access' = level
    /\ UNCHANGED <<inner, agents, stops>>

-----------------------------------------------------------------------------
(* run_agent.                                                              *)

\* The runtime is launched with the confinement of the session's level.
Connect(a) ==
    /\ agents[a].task = "launching"
    /\ Step(a, [agents[a] EXCEPT !.task = "connected", !.runtime = TRUE])
    /\ UNCHANGED <<inner, access, stops>>

\* The handshake and the thread succeed.
ThreadStarted(a) ==
    /\ agents[a].task = "connected"
    /\ Step(a, [agents[a] EXCEPT !.task = "idle", !.phase = "ready"])
    /\ UNCHANGED <<inner, access, stops>>

\* Any step of the launch fails: the error is shown, the child killed on drop, and
\* the session stays in the slot.
LaunchFails(a) ==
    /\ agents[a].task \in {"launching", "connected"}
    /\ Step(a, [agents[a] EXCEPT !.task = "ended", !.phase = "error",
                                 !.runtime = FALSE, !.queue = <<>>])
    /\ UNCHANGED <<inner, access, stops>>

\* The task takes a question: the turn's record and its live view appear.
BeginTurn(a) ==
    /\ agents[a].task = "idle" /\ agents[a].queue # <<>> /\ Head(agents[a].queue) = "ask"
    /\ Step(a, [agents[a] EXCEPT !.task = "turn", !.phase = "running", !.queue = Tail(@),
                                 !.live = agents[a].turns, !.turns = @ + 1])
    /\ UNCHANGED <<inner, access, stops>>

\* run_turn returned, with an outcome or an error: the session goes on either way.
EndTurn(a) ==
    /\ agents[a].task = "turn"
    /\ Step(a, [agents[a] EXCEPT !.task = "idle", !.phase = "ready", !.live = None,
                                 !.finished = @ + 1])
    /\ UNCHANGED <<inner, access, stops>>

\* The child process ends by itself; the next turn will fail.
RuntimeExits(a) ==
    /\ agents[a].task \in {"idle", "turn"} /\ agents[a].runtime
    /\ Step(a, [agents[a] EXCEPT !.runtime = FALSE])
    /\ UNCHANGED <<inner, access, stops>>

\* Mutant of AfterShutdown: the session's runtime is left to itself.
AfterShutdown_Detached(a) == agents[a].runtime

\* shutdown closes stdin, waits, and kills the process group of what is left.
AfterShutdown(a) == FALSE

Shutdown(a) ==
    /\ agents[a].task = "idle" /\ agents[a].queue # <<>> /\ Head(agents[a].queue) = "stop"
    /\ Step(a, [agents[a] EXCEPT !.task = "ended", !.phase = "stopped",
                                 !.runtime = AfterShutdown(a), !.queue = <<>>])
    /\ stops' = [stops EXCEPT ![a] = IF @ = "waiting" THEN "answered" ELSE @]
    /\ UNCHANGED <<inner, access>>

-----------------------------------------------------------------------------
(* stop.                                                                   *)

StopTakes ==
    /\ inner # None
    /\ stops' = [stops EXCEPT ![inner] = "sending"]
    /\ inner' = None
    /\ UNCHANGED <<access, agents>>

\* send waits for room in the channel; without a receiver it fails at once.
StopSends(a) ==
    /\ stops[a] = "sending"
    /\ IF Alive(a)
       THEN /\ Len(agents[a].queue) < Capacity
            /\ agents' = [agents EXCEPT ![a].queue = Append(@, "stop")]
            /\ stops' = [stops EXCEPT ![a] = "waiting"]
       ELSE /\ stops' = [stops EXCEPT ![a] = "answered"]
            /\ UNCHANGED agents
    /\ UNCHANGED <<inner, access>>

\* The task has ended without answering: the sender of done is dropped with it.
StopDropped(a) ==
    /\ stops[a] = "waiting" /\ ~Alive(a)
    /\ stops' = [stops EXCEPT ![a] = "answered"]
    /\ UNCHANGED <<inner, access, agents>>

\* Twenty seconds pass: the command answers "stopped" all the same.
StopTimesOut(a) ==
    /\ stops[a] = "waiting" /\ Alive(a)
    /\ stops' = [stops EXCEPT ![a] = "abandoned"]
    /\ UNCHANGED <<inner, access, agents>>

Next ==
    \/ Start \/ Ask \/ StopTakes
    \/ \E level \in Levels : SetAccessLevel(level)
    \/ \E a \in Agents :
          \/ Connect(a) \/ ThreadStarted(a) \/ LaunchFails(a)
          \/ BeginTurn(a) \/ EndTurn(a) \/ RuntimeExits(a) \/ Shutdown(a)
          \/ StopSends(a) \/ StopDropped(a) \/ StopTimesOut(a)

\* The tasks are polled, and every turn returns (AgentTurn, TurnReturns).
Fairness ==
    \A a \in Agents :
        /\ WF_vars(Connect(a)) /\ WF_vars(ThreadStarted(a) \/ LaunchFails(a))
        /\ WF_vars(BeginTurn(a)) /\ WF_vars(EndTurn(a)) /\ WF_vars(Shutdown(a))
        /\ WF_vars(StopSends(a)) /\ WF_vars(StopDropped(a) \/ StopTimesOut(a))

Spec == Init /\ [][Next]_vars /\ Fairness

-----------------------------------------------------------------------------
(* What the controller promises.                                           *)

\* What runs is what is shown: a runtime is the one of the session in the slot,
\* confined as the level on display says, or it has been told to stop (commands/
\* agent.rs: the level and the confinement must agree, or the label is a lie).
RuntimesAccountedFor ==
    \A a \in Agents :
        agents[a].runtime =>
            \/ inner = a /\ agents[a].level = access
            \/ stops[a] # "none"

\* A session that was told to stop has no runtime in the end, though a turn, queued
\* questions or a full channel stand before the command; and every question that
\* was queued is answered or given up with the session.
CommandsTakeEffect ==
    \A a \in Agents :
        /\ (stops[a] # "none") ~> ~agents[a].runtime
        /\ (agents[a].asked > agents[a].finished)
              ~> (agents[a].asked = agents[a].finished \/ ~Alive(a))

\* At most one analysis session at a time, and stop waits for the runtime to exit
\* (the comments on AgentController and its stop): beside a session that is just being
\* stopped there may be a new one, but once stop has answered its runtime is gone.
OneSession ==
    \A a, b \in Agents :
        agents[a].runtime /\ agents[b].runtime /\ a # b
            => {"sending", "waiting"} \cap {stops[a], stops[b]} # {}

=============================================================================
