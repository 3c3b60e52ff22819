------------------------------ MODULE Analysis ------------------------------
(***************************************************************************)
(* An analysis turn: the session that drives it (AgentTurn), the client of *)
(* the runtime under it (AppServer) and what the interface shows of it     *)
(* (LiveTurn).  Each of the three has the runtime it needs and they share  *)
(* no state, so a behaviour is about one of them; each has the fairness of *)
(* its own module.                                                         *)
(***************************************************************************)
EXTENDS Integers, Sequences

CONSTANTS
    Parts,
    MaxTurns, MaxToolCalls, MaxMessages, Asks, Level,     \* the session
    MaxRequests, MaxLines,                          \* the client
    MaxItems, MaxChunks, MaxNotices, TextTail,      \* the interface
    None

VARIABLES
    part,
    runtime, frames, messages, call, host, slot, reply, ruling, trace,
    outcome, misled, approvals, ruled,
    group, stdin, asked, stdout, written, reader, pending, answer, incoming, heard, client,
    notifier, notices, driver, live, turns

turnVars == <<runtime, frames, messages, call, host, slot, reply, ruling, trace,
              outcome, misled, approvals, ruled>>
clientVars == <<group, stdin, asked, stdout, written, reader, pending, answer, incoming,
                heard, client>>
liveVars == <<notifier, notices, driver, live, turns>>
vars == <<part, turnVars, clientVars, liveVars>>

Turn == INSTANCE AgentTurn
Client == INSTANCE AppServer WITH messages <- incoming
Shown == INSTANCE LiveTurn WITH runtime <- notifier, messages <- notices, host <- driver

ASSUME AnalysisAssumption ==
    /\ Parts \subseteq {"turn", "client", "live"}
    /\ Turn!TurnAssumption
    /\ Client!ClientAssumption
    /\ Shown!LiveAssumption

Init == part \in Parts /\ Turn!Init /\ Client!Init /\ Shown!Init

OfTurn(A) == part = "turn" /\ A /\ UNCHANGED <<part, clientVars, liveVars>>
OfClient(A) == part = "client" /\ A /\ UNCHANGED <<part, turnVars, liveVars>>
OfLive(A) == part = "live" /\ A /\ UNCHANGED <<part, turnVars, clientVars>>

Next == OfTurn(Turn!Next) \/ OfClient(Client!Next) \/ OfLive(Shown!Next)

\* The fairness of the session and of the client, two of its actions taken together
\* with two of the session's: part never changes.
Fairness ==
    /\ WF_vars(OfTurn(Turn!TurnIsStarted \/ Turn!StartFails)
               \/ OfClient(Client!Answered \/ Client!TimesOut))
    /\ WF_vars(OfTurn(Turn!ReceiveToolCall \/ Turn!ReceiveOther \/ Turn!ReceiveItem
                      \/ Turn!ReceiveCompleted \/ Turn!ReceiveFailed \/ Turn!ReceiveApproval)
               \/ OfClient(Client!ShutdownEnds))
    /\ WF_vars(OfTurn(Turn!TurnTimesOut \/ Turn!RuntimeIsGone))
    /\ WF_vars(OfTurn(Turn!Interrupted))
    /\ WF_vars(OfTurn(Turn!VerdictArrives \/ Turn!ApprovalTimesOut))

FairSpec == Init /\ [][Next]_vars /\ Fairness

-----------------------------------------------------------------------------
\* Two requests that differ in what they can be answered with, for an instance: a
\* command that comes with a rule to remember, and permissions without a profile.
TwoAsks == {[kind |-> "command_execution", rule |-> TRUE, profile |-> FALSE],
            [kind |-> "permissions", rule |-> FALSE, profile |-> FALSE]}

\* No action is allowed that the owner did not allow.
GrantedByOwner == Turn!GrantedByOwner

\* A turn is not driven by the messages of another, nor a call of the client answered
\* by the answer to another.
KeptApart == Turn!TurnsKeptApart /\ Client!AnswersMatch /\ Client!NothingUnheard

\* The trace can be replayed at any moment; what is shown and recorded of a turn is what
\* the runtime said.
TurnsAreRecorded == Turn!TraceReplays /\ Shown!TurnIsShown

\* A client that is gone leaves no process of its runtime.
NoProcessLeft == Client!NoProcessLeft

\* run_turn returns, and so does every call of the client under it: TurnReturns and
\* CallsReturn in one formula, which says the same because part never changes.
EverythingReturns ==
    (\/ part = "turn" /\ host.pc # "idle"
     \/ part = "client" /\ client.pc \in {"waiting", "closing"})
      ~> (\/ part = "turn" /\ host.pc \in {"idle", "closed"}
          \/ part = "client" /\ client.pc \in {"idle", "gone"})

\* A refusal whose source is the decider was made by the owner.
DenialsAreTheOwners == Turn!DenialsAreTheOwners
=============================================================================
