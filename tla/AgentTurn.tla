------------------------------ MODULE AgentTurn ------------------------------
(***************************************************************************)
(* One analysis session: AgentSession (agent/mod.rs) drives the turns of a *)
(* runtime, a child process it talks to over stdin and stdout through       *)
(* CodexAppServer (agent/app_server.rs).  A turn is a request, turn/start,  *)
(* followed by messages the runtime sends on its own: notifications, and    *)
(* requests of its own that the host answers, approvals among them, which    *)
(* the owner decides through UiApprovalDecider (commands/agent.rs).          *)
(*                                                                         *)
(* The runtime is modelled by what the code and its comments say of it: one *)
(* turn at a time on a thread; a turn/start that meets a running turn is     *)
(* ignored and re-reports it; turn/interrupt stops the turn.                *)
(***************************************************************************)
EXTENDS Integers, Sequences, FiniteSets

CONSTANTS
    MaxTurns,       \* bound: calls of run_turn
    MaxToolCalls,   \* TurnLimits.max_tool_calls
    MaxMessages,    \* bound: messages the runtime sends
    Asks,           \* what the runtime asks approval for
    Level,          \* the access level of the session
    None

-----------------------------------------------------------------------------
(* Approvals (agent/approval.rs, agent/access.rs): what a request of the   *)
(* runtime can be answered with, and what an answer grants.                *)

\* ApprovalKind: the methods the runtime asks with; any other is not an approval.
Kinds == {"command_execution", "file_change", "permissions", "exec_command", "apply_patch"}

\* What of a request's params decides its answers: the rule it proposes to add to
\* the execution policy, and the permissions it asks for.
AskType == [kind : Kinds, rule : BOOLEAN, profile : BOOLEAN]

Decisions == {"allow_once", "allow_for_session", "allow_always", "deny"}
IsGrant(decision) == decision # "deny"

\* proposed_amendment: neither of the two kinds carries a proposal.
ProposedRule(ask) == ask.rule /\ ask.kind \notin {"file_change", "permissions"}

\* available_decisions: every kind has a session scope; a permanent grant needs a
\* rule to add and a store it can be written to.
AvailableDecisions(ask, persistent) ==
    {"allow_once", "allow_for_session", "deny"}
        \cup (IF persistent /\ ProposedRule(ask) THEN {"allow_always"} ELSE {})

\* Decisions that response_payload can put into words for the kind.
Expressible(ask) ==
    {"deny"}
        \cup (IF ask.kind = "permissions" /\ ~ask.profile THEN {}
              ELSE {"allow_once", "allow_for_session"})
        \cup (IF ProposedRule(ask) THEN {"allow_always"} ELSE {})

\* Where a verdict came from: a decider, the deadline, or the lack of words for it.
DecisionSources == {"decider", "timeout", "unsupported"}

\* ApprovalRecord: one line of the log.
RecordType(ids) == [id : ids, decision : Decisions, source : DecisionSources]

\* ApprovalLog::append: a line behind the others.
Appended(log, record) == log \cup {record}

\* Access levels (agent/access.rs).
Levels == {"ask", "auto_approve", "full_access"}

\* Whether the host confines the child at a level.
Confined(level) == level # "full_access"

\* run_agent: every confined level denies the directory of the rules.
Persistent(level) == ~Confined(level)

-----------------------------------------------------------------------------
(* The record the host keeps of a session (agent/trace.rs): one line per   *)
(* event, appended and flushed by TraceWriter, and replay_str, which       *)
(* rebuilds the session from the lines or refuses them.  A trace file is   *)
(* represented by what replay_str has made of its lines so far.  Times are *)
(* left out: the lines carry the times of one clock, which replay requires *)
(* not to run backwards.                                                   *)

\* TraceEvent, by the fields replay looks at.
SessionStarted == [event |-> "session_started"]
TurnStarted(turn) == [event |-> "turn_started", turn |-> turn]
Item(turn) == [event |-> "item", turn |-> turn]
ToolCall == [event |-> "tool_call"]
ApprovalEvent == [event |-> "approval"]
RefusedRequest == [event |-> "refused_request"]
TurnFinished(turn) == [event |-> "turn_finished", turn |-> turn]
SessionFinished == [event |-> "session_finished"]

\* The turn being rebuilt is held apart from the finished ones until it finishes;
\* here `turns` has the ids of all of them, and the open one, if any, is the last.
Unread == [ok |-> TRUE, started |-> FALSE, finished |-> FALSE, open |-> FALSE, turns |-> <<>>]
Current(read) == read.turns[Len(read.turns)]

\* An event that replay accepts where it stands.
Ordered(read, e) ==
    /\ ~read.finished
    /\ CASE e.event = "session_started" -> ~read.started
         [] e.event = "turn_started" -> read.started /\ ~read.open
         [] e.event \in {"tool_call", "approval", "refused_request"} -> read.open
         [] e.event \in {"item", "turn_finished"} -> read.open /\ Current(read) = e.turn
         [] e.event = "session_finished" -> TRUE

\* The file with one line more (TraceWriter.record), as replay_str reads it.
Record(read, e) ==
    IF ~read.ok \/ ~Ordered(read, e) THEN [read EXCEPT !.ok = FALSE]
    ELSE CASE e.event = "session_started" -> [read EXCEPT !.started = TRUE]
           [] e.event = "turn_started" ->
                [read EXCEPT !.open = TRUE, !.turns = Append(@, e.turn)]
           [] e.event = "turn_finished" -> [read EXCEPT !.open = FALSE]
           [] e.event = "session_finished" -> [read EXCEPT !.finished = TRUE]
           [] OTHER -> read

\* A file without session_started is refused too.
Replayed(read) == read.ok /\ read.started

-----------------------------------------------------------------------------
(* The session.                                                            *)

Prompts == 1..MaxTurns

\* What waits for somebody, one at a time: the request shown to the owner
\* (PendingApproval), his decision on its way, the call the host waits in.
PendingApproval == [id : 1..MaxMessages, ask : Asks, decided : BOOLEAN]
Ruling == [id : 1..MaxMessages, decision : Decisions]
Call == [method : {"start", "interrupt"}, prompt : Prompts, answer : 0..MaxTurns \cup {None}]

TurnAssumption ==
    /\ MaxTurns \in Nat /\ MaxToolCalls \in Nat /\ MaxMessages \in Nat
    /\ Asks \subseteq AskType
    /\ Level \in Levels
    /\ None \notin PendingApproval \cup Ruling \cup Call \cup 0..MaxTurns \cup Asks

VARIABLES
    runtime,    \* [alive, turn, sent]: its running turn (0: none), messages sent
    frames,     \* stdin of the runtime: calls of the host, in order
    messages,   \* what the reader task has queued for the session
    call,       \* the host's request in flight, with the answer once it has come
    host,       \* run_turn: where it is, and in which turn
    slot,       \* the approval shown to the owner (PendingApproval), or None
    reply,      \* the verdict sent to the waiting decider, or None
    ruling,     \* agent_decide between its two looks at the slot, or None
    trace,      \* the session's trace file, as replay reads it
    outcome,    \* history: how each call of run_turn ended
    misled,     \* history: the calls of run_turn that acted on another turn's message
    approvals,  \* history: the approval records, [id, decision, source]
    ruled       \* history: <<id, decision>> of every decision the owner was told took effect

wire == <<runtime, frames, messages, call>>
approval == <<slot, reply, ruling>>
history == <<outcome, misled, approvals, ruled>>
vars == <<wire, host, approval, trace, history>>

Requests == {"tool", "approval", "other"}
Notifications == {"item", "completed", "failed"}
\* How a call of run_turn ended: by the runtime's own notification, after the
\* runtime's answer to the interrupt, or otherwise (every other error).
Outcomes == {"none", "ended", "interrupted", "abandoned"}

\* What the session reads: the approvals among the messages are numbered by `id'.
Message == [type : Requests \cup Notifications, turn : 0..MaxTurns, id : 1..MaxMessages + 1,
            ask : Asks \cup {None}]

Offered(ask) == AvailableDecisions(ask, Persistent(Level))

TypeOK ==
    /\ runtime \in [alive : BOOLEAN, turn : 0..MaxTurns, sent : 0..MaxMessages]
    /\ \A i \in DOMAIN messages : messages[i] \in Message
    /\ host.pc \in {"idle", "starting", "driving", "approving", "interrupting", "closed"}
    /\ host.prompt \in 0..MaxTurns /\ host.turn \in 0..MaxTurns
    /\ host.tools \in 0..MaxToolCalls
    /\ outcome \in [Prompts -> Outcomes]
    /\ misled \subseteq Prompts
    /\ approvals \subseteq RecordType(1..MaxMessages)

Init ==
    /\ runtime = [alive |-> TRUE, turn |-> 0, sent |-> 0]
    /\ frames = <<>> /\ messages = <<>> /\ call = None
    /\ host = [pc |-> "idle", prompt |-> 0, turn |-> 0, tools |-> 0, request |-> None]
    /\ slot = None /\ reply = None /\ ruling = None
    /\ trace = Record(Unread, SessionStarted)
    /\ outcome = [p \in Prompts |-> "none"]
    /\ misled = {}
    /\ approvals = {} /\ ruled = {}

-----------------------------------------------------------------------------
(* The runtime.                                                            *)

Notice(type, turn, ask) == [type |-> type, turn |-> turn, id |-> runtime.sent + 1, ask |-> ask]

\* It takes the next frame.  An answer reaches the host only if the request it
\* belongs to is still pending: the entry is removed when the host's wait ends.
\* A turn that was stopped may still announce its end.
TakeFrame ==
    /\ runtime.alive /\ frames # <<>>
    /\ LET f == Head(frames)
           pending == call # None /\ call.prompt = f.prompt /\ call.method = f.method
           turn == CASE f.method = "start" -> IF runtime.turn = 0 THEN f.prompt ELSE runtime.turn
                     [] f.method = "interrupt" -> IF runtime.turn = f.turn THEN 0 ELSE runtime.turn
           stopped == f.method = "interrupt" /\ runtime.turn # 0 /\ runtime.turn = f.turn
       IN  /\ runtime' = [runtime EXCEPT !.turn = turn]
           /\ call' = IF pending THEN [call EXCEPT !.answer = turn] ELSE call
           /\ \E announced \in {FALSE, stopped} :
                 messages' = IF announced THEN Append(messages, Notice("completed", f.turn, None))
                                          ELSE messages
    /\ frames' = Tail(frames)
    /\ UNCHANGED <<host, approval, trace, history>>

\* It works on its turn: it reports an item, asks, or ends the turn.
SendMessage(type) ==
    /\ runtime.alive /\ runtime.turn # 0 /\ runtime.sent < MaxMessages
    /\ \E ask \in IF type = "approval" THEN Asks ELSE {None} :
          messages' = Append(messages, Notice(type, runtime.turn, ask))
    /\ runtime' = [runtime EXCEPT !.sent = @ + 1,
                                  !.turn = IF type \in {"completed", "failed"} THEN 0 ELSE @]
    /\ UNCHANGED <<frames, call, host, approval, trace, history>>

\* The process ends, or is killed: what it had written can still be read.
RuntimeExits ==
    /\ runtime.alive
    /\ runtime' = [runtime EXCEPT !.alive = FALSE]
    /\ frames' = <<>>
    /\ UNCHANGED <<messages, call, host, approval, trace, history>>

-----------------------------------------------------------------------------
(* run_turn and drive_turn.                                                *)

Request(method, prompt, turn) ==
    /\ call' = [method |-> method, prompt |-> prompt, answer |-> None]
    /\ frames' = IF runtime.alive
                 THEN Append(frames, [method |-> method, prompt |-> prompt, turn |-> turn])
                 ELSE frames
    /\ UNCHANGED <<runtime, messages>>

\* A call that has a turn ends: turn_finished is recorded on every path.
TurnEnds(result) ==
    /\ host' = [host EXCEPT !.pc = "idle", !.request = None]
    /\ trace' = Record(trace, TurnFinished(host.turn))
    /\ outcome' = [outcome EXCEPT ![host.prompt] = result]

StartTurn ==
    /\ host.pc = "idle" /\ host.prompt < MaxTurns
    /\ LET prompt == host.prompt + 1
       IN  /\ host' = [pc |-> "starting", prompt |-> prompt, turn |-> 0, tools |-> 0,
                       request |-> None]
           /\ Request("start", prompt, 0)
    /\ UNCHANGED <<approval, trace, history>>

TurnIsStarted ==
    /\ host.pc = "starting" /\ call.answer # None
    /\ host' = [host EXCEPT !.pc = "driving", !.turn = call.answer]
    /\ trace' = Record(trace, TurnStarted(call.answer))
    /\ call' = None
    /\ UNCHANGED <<runtime, frames, messages, approval, history>>

\* The wait for the answer ends without one: nothing tells the runtime.
StartFails ==
    /\ host.pc = "starting" /\ call.answer = None
    /\ host' = [host EXCEPT !.pc = "idle"]
    /\ outcome' = [outcome EXCEPT ![host.prompt] = "abandoned"]
    /\ call' = None
    /\ UNCHANGED <<runtime, frames, messages, approval, trace, misled, approvals, ruled>>

\* next_message returned the head of the queue.
Receive(type) ==
    /\ host.pc = "driving" /\ messages # <<>> /\ Head(messages).type = type
    /\ messages' = Tail(messages)
    /\ misled' = IF Head(messages).turn = host.prompt THEN misled ELSE misled \cup {host.prompt}
    /\ UNCHANGED <<runtime, frames, call>>

\* An answer that cannot be written, to a process that is gone, ends the turn.
Answer(event, next) ==
    IF runtime.alive THEN /\ host' = next
                          /\ trace' = Record(trace, event)
                          /\ UNCHANGED outcome
                     ELSE TurnEnds("abandoned")

\* dispatch_tool_call: a tool runs on a thread of its own and always yields a result,
\* a failed one if there is no such tool or it panics, which is sent back.
DispatchToolCall == Answer(ToolCall, [host EXCEPT !.tools = @ + 1])

\* Past the limit the turn is left as it is, without an answer.
ReceiveToolCall ==
    /\ Receive("tool")
    /\ IF host.tools < MaxToolCalls
       THEN DispatchToolCall
       ELSE TurnEnds("abandoned")
    /\ UNCHANGED <<approval, approvals, ruled>>

\* What the runtime asks and the host does not implement is answered with an error.
ReceiveOther ==
    /\ Receive("other")
    /\ Answer(RefusedRequest, host)
    /\ UNCHANGED <<approval, approvals, ruled>>

\* An agent message is kept as the final message, and the turn goes on.
ReceiveItem ==
    /\ Receive("item")
    /\ trace' = Record(trace, Item(host.turn))
    /\ UNCHANGED <<host, outcome, approval, approvals, ruled>>

ReceiveCompleted ==
    /\ Receive("completed")
    /\ TurnEnds("ended")
    /\ UNCHANGED <<approval, approvals, ruled>>

ReceiveFailed ==
    /\ Receive("failed")
    /\ TurnEnds("ended")
    /\ UNCHANGED <<approval, approvals, ruled>>

\* Silence for idle_timeout, or the ceiling; a queued message would be taken first.
TurnTimesOut ==
    /\ host.pc = "driving" /\ messages = <<>>
    /\ host' = [host EXCEPT !.pc = "interrupting"]
    /\ Request("interrupt", host.prompt, host.turn)
    /\ UNCHANGED <<approval, trace, history>>

\* interrupt_turn returns whatever became of it; the turn's error is the timeout.
Interrupted ==
    /\ host.pc = "interrupting"
    /\ TurnEnds(IF call.answer # None THEN "interrupted" ELSE "abandoned")
    /\ call' = None
    /\ UNCHANGED <<runtime, frames, messages, approval, misled, approvals, ruled>>

\* All messages are read and stdout is at its end.
RuntimeIsGone ==
    /\ host.pc = "driving" /\ messages = <<>> /\ ~runtime.alive
    /\ TurnEnds("abandoned")
    /\ UNCHANGED <<wire, approval, misled, approvals, ruled>>

\* shutdown consumes the session: stdin is closed and the process waited for.
\* session_finished is written when that went well.
Shutdown ==
    /\ host.pc = "idle"
    /\ host' = [host EXCEPT !.pc = "closed"]
    /\ slot' = None
    /\ runtime' = [runtime EXCEPT !.alive = FALSE]
    /\ frames' = <<>>
    /\ \E ok \in BOOLEAN : trace' = IF ok THEN Record(trace, SessionFinished) ELSE trace
    /\ UNCHANGED <<messages, call, reply, ruling, history>>

-----------------------------------------------------------------------------
(* Approvals.                                                              *)

\* decide_approval, once there is a verdict: one that cannot be put into words
\* becomes a refusal; it is recorded, and only then sent.
Resolve(id, ask, verdict, source) ==
    LET said == verdict \in Expressible(ask)
        decision == IF said THEN verdict ELSE "deny"
        record == [id |-> id, decision |-> decision,
                   source |-> IF said THEN source ELSE "unsupported"]
    IN  /\ approvals' = Appended(approvals, record)
        /\ IF runtime.alive
           THEN /\ host' = [host EXCEPT !.pc = "driving", !.request = None]
                /\ trace' = Record(trace, ApprovalEvent)
                /\ UNCHANGED outcome
           ELSE /\ host' = [host EXCEPT !.pc = "idle", !.request = None]
                /\ trace' = Record(Record(trace, ApprovalEvent), TurnFinished(host.turn))
                /\ outcome' = [outcome EXCEPT ![host.prompt] = "abandoned"]
        /\ UNCHANGED ruled

\* UiApprovalDecider::decide puts the request into the slot and waits; a slot that
\* is not empty refuses at once.
ReceiveApproval ==
    /\ Receive("approval")
    /\ LET m == Head(messages) IN
       IF slot = None
       THEN /\ slot' = [id |-> m.id, ask |-> m.ask, decided |-> FALSE]
            /\ host' = [host EXCEPT !.pc = "approving", !.request = m]
            /\ reply' = None
            /\ UNCHANGED <<trace, outcome, approvals, ruled>>
       ELSE /\ Resolve(m.id, m.ask, "deny", "decider")
            /\ UNCHANGED <<slot, reply>>
    /\ UNCHANGED ruling

\* The decider's wait is over: it empties the slot.
VerdictArrives ==
    /\ host.pc = "approving" /\ reply # None
    /\ Resolve(host.request.id, host.request.ask, reply, "decider")
    /\ slot' = None /\ reply' = None
    /\ UNCHANGED <<wire, ruling, misled>>

\* Mutant of ApprovalTimesOut: the owner is waited for as long as it takes.
ApprovalTimesOut_Never == FALSE /\ UNCHANGED vars

\* The deadline of the session cancels the decider, which leaves the slot as it is.
ApprovalTimesOut ==
    /\ host.pc = "approving"
    /\ Resolve(host.request.id, host.request.ask, "deny", "timeout")
    /\ reply' = None
    /\ UNCHANGED <<wire, slot, ruling, misled>>

\* Mutant of Named: the answer may be to another request than the one shown.
Named_AnyRequest(id) == TRUE

Named(id) == slot.id = id

\* agent_decide(id, decision), its first look at the slot: the request must be the
\* one named and not decided, and the decision one of those it offers.
MarkDecided(id, decision) ==
    /\ ruling = None /\ slot # None /\ Named(id) /\ ~slot.decided
    /\ decision \in Offered(slot.ask)
    /\ slot' = [slot EXCEPT !.decided = TRUE]
    /\ ruling' = [id |-> id, decision |-> decision]
    /\ UNCHANGED <<wire, host, reply, trace, history>>

\* Its second: the request is taken and its waiting decider, if there still is one, answered.
SendVerdict ==
    /\ ruling # None
    /\ slot' = None
    /\ IF slot # None /\ host.pc = "approving" /\ host.request.id = slot.id
       THEN /\ reply' = ruling.decision
            /\ ruled' = ruled \cup {<<ruling.id, ruling.decision>>}
       ELSE UNCHANGED <<reply, ruled>>
    /\ ruling' = None
    /\ UNCHANGED <<wire, host, trace, outcome, misled, approvals>>

Ids == 1..MaxMessages

Next ==
    \/ TakeFrame \/ RuntimeExits
    \/ \E type \in Requests \cup Notifications : SendMessage(type)
    \/ StartTurn \/ TurnIsStarted \/ StartFails
    \/ ReceiveToolCall \/ ReceiveOther \/ ReceiveItem \/ ReceiveCompleted \/ ReceiveFailed
    \/ TurnTimesOut \/ Interrupted \/ RuntimeIsGone \/ Shutdown
    \/ ReceiveApproval \/ VerdictArrives \/ ApprovalTimesOut
    \/ \E id \in Ids, decision \in Decisions : MarkDecided(id, decision)
    \/ SendVerdict

\* Timers fire and the session's task is polled; of the runtime and of the owner
\* nothing is assumed.
Fairness ==
    /\ WF_vars(TurnIsStarted \/ StartFails)
    /\ WF_vars(ReceiveToolCall \/ ReceiveOther \/ ReceiveItem \/ ReceiveCompleted
               \/ ReceiveFailed \/ ReceiveApproval)
    /\ WF_vars(TurnTimesOut \/ RuntimeIsGone)
    /\ WF_vars(Interrupted)
    /\ WF_vars(VerdictArrives \/ ApprovalTimesOut)

Spec == Init /\ [][Next]_vars /\ Fairness

-----------------------------------------------------------------------------
(* What a session promises.                                                *)

\* No action is allowed that the owner did not allow: a grant sent to the runtime
\* answers the very request the owner decided, with the scope he chose, once, whatever
\* was shown, timed out or was decided too late in between.
GrantedByOwner ==
    /\ \A r \in approvals : IsGrant(r.decision) => <<r.id, r.decision>> \in ruled
    /\ \A r1, r2 \in ruled : r1[1] = r2[1] => r1 = r2

\* The call ended on the end of its own turn, or after the answer to its interrupt.
IsOver(q) == outcome[q] = "interrupted" \/ (outcome[q] = "ended" /\ q \notin misled)

\* A turn that its own notification ended, or whose interrupt the runtime answered,
\* is not the running turn when the next one starts (mod.rs, interrupt_turn): the
\* next call gets a turn of its own.  Nor does it hear of earlier turns if the
\* runtime ended them all.
TurnsKeptApart ==
    \A p \in Prompts :
        /\ (\A q \in 1..p - 1 : outcome[q] = "ended") => p \notin misled
        /\ (\A q \in 1..p - 1 : IsOver(q)) /\ host.prompt = p /\ host.pc = "driving"
             => host.turn = p

\* The trace is replayed without an objection at any moment, and shows every turn
\* that was started, in order, open only while run_turn is in it.
TraceReplays ==
    /\ Replayed(trace)
    /\ trace.open <=> host.pc \in {"driving", "approving", "interrupting"}
    /\ trace.finished => host.pc = "closed"

\* run_turn returns, though the owner may stay away and the runtime hang or go on
\* and on: every wait in it has an end.
TurnReturns == (host.pc # "idle") ~> (host.pc \in {"idle", "closed"})

\* A refusal whose source is the decider is one the owner made (docs: the trace is
\* the only place that tells an owner's refusal from one forced by a timeout).
DenialsAreTheOwners ==
    \A r \in approvals :
        r.decision = "deny" /\ r.source = "decider" => <<r.id, "deny">> \in ruled

=============================================================================
