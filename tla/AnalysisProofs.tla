--------------------------- MODULE AnalysisProofs ---------------------------
(***************************************************************************)
(* Proofs about an analysis turn: the session that drives it, the client   *)
(* of the runtime, and what the interface shows.                           *)
(***************************************************************************)
EXTENDS Analysis, TLAPS, SequenceTheorems

-----------------------------------------------------------------------------
(* The session: types                                                      *)

Sessions == [pc : {"idle", "starting", "driving", "approving", "interrupting", "closed"},
             prompt : 0..MaxTurns, turn : 0..MaxTurns, tools : 0..MaxToolCalls,
             request : Turn!Message \cup {None}]
Frames == [method : {"start", "interrupt"}, prompt : Turn!Prompts, turn : 0..MaxTurns]
Traces == [ok : BOOLEAN, started : BOOLEAN, finished : BOOLEAN, open : BOOLEAN,
           turns : Seq(0..MaxTurns)]

\* Each variable of a session is in its range.
TurnTypes ==
    /\ runtime \in [alive : BOOLEAN, turn : 0..MaxTurns, sent : 0..MaxMessages]
    /\ frames \in Seq(Frames)
    /\ messages \in Seq(Turn!Message)
    /\ call \in Turn!Call \cup {None}
    /\ host \in Sessions
    /\ slot \in Turn!PendingApproval \cup {None}
    /\ reply \in Turn!Decisions \cup {None}
    /\ ruling \in Turn!Ruling \cup {None}
    /\ trace \in Traces
    /\ outcome \in [Turn!Prompts -> Turn!Outcomes]
    /\ misled \subseteq Turn!Prompts
    /\ approvals \subseteq Turn!RecordType(1..MaxMessages)
    /\ ruled \subseteq (1..MaxMessages) \X Turn!Decisions

\* What a step of run_turn waits for.
CallShape ==
    /\ host.pc = "starting" =>
          call # None /\ call.method = "start" /\ call.prompt = host.prompt
    /\ host.pc = "interrupting" =>
          call # None /\ call.method = "interrupt" /\ call.prompt = host.prompt
    /\ host.pc \notin {"starting", "interrupting"} => call = None
    /\ host.pc \notin {"idle", "closed"} => host.prompt \in Turn!Prompts
    /\ host.pc = "approving" =>
          /\ host.request \in Turn!Message /\ host.request.type = "approval"
          /\ host.request.id <= runtime.sent

-----------------------------------------------------------------------------
(* The session: approvals                                                  *)

Asking(n) == messages[n].type = "approval"

\* The requests for approval come in the order of their numbers, each after the one
\* that is shown and after those the owner has decided.
AskedInOrder ==
    /\ \A n \in DOMAIN messages : Asking(n) =>
          /\ messages[n].id \in 1..runtime.sent /\ messages[n].ask \in Asks
          /\ \A m \in 1..n - 1 : Asking(m) => messages[m].id < messages[n].id
          /\ slot # None => slot.id < messages[n].id
          /\ \A r \in ruled : r[1] < messages[n].id
    /\ slot # None => slot.id <= runtime.sent /\ \A r \in ruled : r[1] # slot.id
    /\ \A r \in ruled : r[1] <= runtime.sent

\* A verdict on its way is the owner's on the request that is waited for, and a decision
\* on its way is on the request that is shown.
VerdictsKept ==
    /\ reply # None =>
          /\ host.pc = "approving" /\ slot = None /\ ruling = None
          /\ <<host.request.id, reply>> \in ruled
    /\ ruling # None =>
          IF slot # None THEN slot.id = ruling.id ELSE host.pc = "closed"

-----------------------------------------------------------------------------
(* The session: turns                                                      *)

Busy == host.pc \in {"starting", "driving", "approving", "interrupting"}
Ends(n) == messages[n].type \in {"completed", "failed"}

\* Nothing is about a call of run_turn that has not been made.
NotAhead ==
    /\ runtime.turn <= host.prompt /\ host.turn <= host.prompt
    /\ \A n \in DOMAIN messages : messages[n].turn <= host.prompt
    /\ \A n \in DOMAIN frames : frames[n].prompt <= host.prompt /\ frames[n].turn <= host.prompt
    /\ call # None /\ call.answer # None => call.answer <= host.prompt
    /\ misled \subseteq 1..host.prompt
    /\ \A q \in host.prompt + 1..MaxTurns : outcome[q] = "none"
    /\ Busy => outcome[host.prompt] = "none"

Frame(method) == [method |-> method, prompt |-> host.prompt,
                  turn |-> IF method = "start" THEN 0 ELSE host.turn]

\* While every earlier call is over, the runtime works on the turn of this one or on
\* none, and on none once this one is over.
Settled == \A q \in 1..host.prompt - 1 : Turn!IsOver(q)

TurnIsOwn ==
    Settled =>
        /\ host.pc = "starting" =>
              \/ /\ frames = <<Frame("start")>> /\ runtime.turn = 0 /\ call.answer = None
                 /\ \A n \in DOMAIN messages : messages[n].turn # host.prompt
              \/ /\ frames = <<>> /\ runtime.turn \in {0, host.prompt}
                 /\ call.answer \in {None, host.prompt}
        /\ host.pc \in {"driving", "approving"} =>
              frames = <<>> /\ runtime.turn \in {0, host.prompt} /\ host.turn = host.prompt
        /\ host.pc = "interrupting" =>
              /\ host.turn = host.prompt
              /\ runtime.turn \in {0, host.prompt}
              /\ \/ frames = <<Frame("interrupt")>> /\ call.answer = None
                 \/ frames = <<>> /\ (call.answer # None => runtime.turn = 0)
        /\ Busy => \A n \in DOMAIN messages :
              Ends(n) /\ messages[n].turn = host.prompt => runtime.turn = 0
        /\ ~Busy /\ (host.prompt = 0 \/ Turn!IsOver(host.prompt)) =>
              frames = <<>> /\ runtime.turn = 0

\* While the runtime ended every earlier turn, it has said nothing of another turn that
\* is not read, and its end of a turn is the last it said.
Ended == \A q \in 1..host.prompt - 1 : outcome[q] = "ended"

NothingLeft ==
    Ended =>
        /\ host.pc \in {"starting", "driving", "approving"} =>
              /\ \A n \in DOMAIN messages : messages[n].turn = host.prompt
              /\ \A n \in DOMAIN messages : Ends(n) => n = Len(messages)
              /\ frames # <<>> => messages = <<>>
        /\ ~Busy /\ (host.prompt = 0 \/ outcome[host.prompt] = "ended") => messages = <<>>

\* The last turn of the trace is the one run_turn is in.
TraceShape == trace.open => trace.turns # <<>> /\ Turn!Current(trace) = host.turn

TurnInv ==
    /\ TurnTypes /\ CallShape
    /\ AskedInOrder /\ VerdictsKept /\ Turn!GrantedByOwner
    /\ NotAhead /\ TurnIsOwn /\ NothingLeft /\ Turn!TurnsKeptApart
    /\ TraceShape /\ Turn!TraceReplays

-----------------------------------------------------------------------------
(* The session: its steps                                                  *)

\* What a line does to a trace that can be replayed and has an open turn.
LEMMA OpenTrace ==
    ASSUME TurnTypes, TraceShape, Turn!TraceReplays,
           host.pc \in {"driving", "approving", "interrupting"}
    PROVE  /\ Turn!Record(trace, Turn!ToolCall) = trace
           /\ Turn!Record(trace, Turn!RefusedRequest) = trace
           /\ Turn!Record(trace, Turn!ApprovalEvent) = trace
           /\ Turn!Record(trace, Turn!Item(host.turn)) = trace
           /\ Turn!Record(trace, Turn!TurnFinished(host.turn)) = [trace EXCEPT !.open = FALSE]
<1>1. /\ trace.ok = TRUE /\ trace.started = TRUE /\ trace.open = TRUE /\ trace.finished = FALSE
      /\ Turn!Current(trace) = host.turn
  BY DEF TraceShape, Turn!TraceReplays, Turn!Replayed, TurnTypes, Traces
<1> USE DEF Turn!Record, Turn!Ordered
<1>2. Turn!Record(trace, Turn!ToolCall) = trace
  BY <1>1 DEF Turn!ToolCall
<1>3. Turn!Record(trace, Turn!RefusedRequest) = trace
  BY <1>1 DEF Turn!RefusedRequest
<1>4. Turn!Record(trace, Turn!ApprovalEvent) = trace
  BY <1>1 DEF Turn!ApprovalEvent
<1>5. Turn!Record(trace, Turn!Item(host.turn)) = trace
  BY <1>1 DEF Turn!Item
<1>6. Turn!Record(trace, Turn!TurnFinished(host.turn)) = [trace EXCEPT !.open = FALSE]
  BY <1>1 DEF Turn!TurnFinished
<1> QED BY <1>2, <1>3, <1>4, <1>5, <1>6

\* The line of a turn that starts, in a trace that has no open turn.
LEMMA StartedTrace ==
    ASSUME TurnTypes, Turn!TraceReplays, host.pc = "starting", NEW turn \in 0..MaxTurns
    PROVE  /\ Turn!Record(trace, Turn!TurnStarted(turn)) =
                  [trace EXCEPT !.open = TRUE, !.turns = Append(trace.turns, turn)]
           /\ Append(trace.turns, turn) \in Seq(0..MaxTurns)
<1>1. /\ trace.ok = TRUE /\ trace.started = TRUE /\ trace.open = FALSE /\ trace.finished = FALSE
      /\ trace.turns \in Seq(0..MaxTurns)
  BY DEF Turn!TraceReplays, Turn!Replayed, TurnTypes, Traces
<1> QED BY <1>1 DEF Turn!Record, Turn!Ordered, Turn!TurnStarted

\* A message is read.
Reads ==
    /\ host.pc = "driving" /\ messages # <<>>
    /\ messages' = Tail(messages)
    /\ misled' = IF Head(messages).turn = host.prompt THEN misled
                 ELSE misled \cup {host.prompt}
    /\ UNCHANGED <<runtime, frames, call>>

\* The turn goes on.
GoesOn ==
    /\ host' \in Sessions /\ host'.pc = "driving"
    /\ host'.prompt = host.prompt /\ host'.turn = host.turn
    /\ UNCHANGED <<trace, outcome>>

\* The call of run_turn ends.
Finishes(result) ==
    /\ host' = [host EXCEPT !.pc = "idle", !.request = None]
    /\ trace' = [trace EXCEPT !.open = FALSE]
    /\ outcome' = [outcome EXCEPT ![host.prompt] = result]

\* A message other than an approval is handled.
Handles ==
    /\ Reads
    /\ UNCHANGED <<slot, reply, ruling, approvals, ruled>>
    /\ \/ GoesOn /\ ~Ends(1)
       \/ Finishes("abandoned")
       \/ Finishes("ended") /\ Ends(1)

LEMMA HandlersHandle ==
    ASSUME TurnInv,
           \/ Turn!ReceiveToolCall \/ Turn!ReceiveOther \/ Turn!ReceiveItem
           \/ Turn!ReceiveCompleted \/ Turn!ReceiveFailed
    PROVE  Handles
<1> USE DEF Turn!Receive, Turn!approval, Turn!TurnEnds
<1>0. PICK type : Turn!Receive(type)
  BY DEF Turn!ReceiveToolCall, Turn!ReceiveOther, Turn!ReceiveItem,
     Turn!ReceiveCompleted, Turn!ReceiveFailed
<1>1. Reads /\ host \in Sessions
  BY <1>0 DEF Reads, TurnInv, TurnTypes
<1>2. /\ Turn!Record(trace, Turn!ToolCall) = trace
      /\ Turn!Record(trace, Turn!RefusedRequest) = trace
      /\ Turn!Record(trace, Turn!Item(host.turn)) = trace
      /\ Turn!Record(trace, Turn!TurnFinished(host.turn)) = [trace EXCEPT !.open = FALSE]
  BY <1>0, OpenTrace DEF TurnInv
<1> USE DEF Handles, GoesOn, Finishes, Ends, Sessions, Turn!Answer
<1>3. CASE Turn!ReceiveToolCall
  <2>1. host.tools < MaxToolCalls => [host EXCEPT !.tools = @ + 1] \in Sessions
    BY <1>1, AnalysisAssumption DEF Turn!TurnAssumption
  <2>2. ~Ends(1) /\ UNCHANGED <<slot, reply, ruling, approvals, ruled>>
    BY <1>1, <1>3 DEF Turn!ReceiveToolCall, Reads
  <2>3. CASE host.tools < MaxToolCalls /\ runtime.alive
    <3>1. GoesOn
      BY <1>1, <1>2, <1>3, <2>1, <2>3 DEF Turn!ReceiveToolCall, Turn!DispatchToolCall, Reads
    <3> QED BY <1>1, <2>2, <3>1
  <2>4. CASE ~(host.tools < MaxToolCalls /\ runtime.alive)
    <3>1. Finishes("abandoned")
      BY <1>1, <1>2, <1>3, <2>4 DEF Turn!ReceiveToolCall, Turn!DispatchToolCall
    <3> QED BY <1>1, <2>2, <3>1
  <2> QED BY <2>3, <2>4
<1>4. CASE Turn!ReceiveOther
  BY <1>1, <1>2, <1>4 DEF Turn!ReceiveOther
<1>5. CASE Turn!ReceiveItem
  <2>1. GoesOn
    BY <1>1, <1>2, <1>5 DEF Turn!ReceiveItem, Reads
  <2>2. ~Ends(1) /\ UNCHANGED <<slot, reply, ruling, approvals, ruled>>
    BY <1>0, <1>1, <1>5 DEF Turn!ReceiveItem, Reads
  <2> QED BY <1>1, <2>1, <2>2
<1>6. CASE Turn!ReceiveCompleted
  BY <1>1, <1>2, <1>6 DEF Turn!ReceiveCompleted
<1>7. CASE Turn!ReceiveFailed
  BY <1>1, <1>2, <1>7 DEF Turn!ReceiveFailed
<1> QED BY <1>3, <1>4, <1>5, <1>6, <1>7

\* A request for approval is answered and recorded.
Resolves(id, verdict) ==
    /\ \E r \in Turn!RecordType(1..MaxMessages) :
          /\ approvals' = approvals \cup {r}
          /\ r.id = id /\ r.decision \in {verdict, "deny"}
    /\ ruled' = ruled
    /\ GoesOn \/ Finishes("abandoned")

LEMMA ResolveResolves ==
    ASSUME TurnInv, host.pc \in {"driving", "approving"},
           NEW id \in 1..MaxMessages, NEW ask, NEW verdict \in Turn!Decisions,
           NEW source \in {"decider", "timeout"},
           Turn!Resolve(id, ask, verdict, source)
    PROVE  Resolves(id, verdict)
<1> DEFINE said == verdict \in Turn!Expressible(ask)
           record == [id |-> id, decision |-> IF said THEN verdict ELSE "deny",
                      source |-> IF said THEN source ELSE "unsupported"]
<1>1. record \in Turn!RecordType(1..MaxMessages)
  BY DEF Turn!RecordType, Turn!Decisions, Turn!DecisionSources
<1>2. approvals' = approvals \cup {record} /\ ruled' = ruled
  BY DEF Turn!Resolve, Turn!Appended
<1>3. record.id = id /\ record.decision \in {verdict, "deny"}
  OBVIOUS
<1>4. GoesOn \/ Finishes("abandoned")
  <2>1. host \in Sessions /\ [host EXCEPT !.pc = "driving", !.request = None] \in Sessions
    BY DEF TurnInv, TurnTypes, Sessions
  <2>2. /\ Turn!Record(trace, Turn!ApprovalEvent) = trace
        /\ Turn!Record(trace, Turn!TurnFinished(host.turn)) = [trace EXCEPT !.open = FALSE]
    BY OpenTrace DEF TurnInv
  <2>3. CASE runtime.alive
    BY <2>1, <2>2, <2>3 DEF Turn!Resolve, GoesOn, Sessions
  <2>4. CASE ~runtime.alive
    BY <2>1, <2>2, <2>4 DEF Turn!Resolve, Finishes
  <2> QED BY <2>3, <2>4
<1> HIDE DEF record
<1> QED BY <1>1, <1>2, <1>3, <1>4 DEF Resolves

\* A request for approval is shown to the owner, or refused while another one is shown.
Shows ==
    /\ Reads /\ Asking(1) /\ slot = None
    /\ slot' = [id |-> messages[1].id, ask |-> messages[1].ask, decided |-> FALSE]
    /\ host' = [host EXCEPT !.pc = "approving", !.request = messages[1]]
    /\ reply' = None
    /\ UNCHANGED <<trace, outcome, approvals, ruled, ruling>>

Refuses ==
    /\ Reads /\ Asking(1) /\ Resolves(messages[1].id, "deny")
    /\ UNCHANGED <<slot, reply, ruling>>

LEMMA ReceiveApprovalShowsOrRefuses ==
    ASSUME TurnInv, Turn!ReceiveApproval
    PROVE  Shows \/ Refuses
<1>1. Reads /\ Asking(1) /\ ruling' = ruling
  BY DEF Turn!ReceiveApproval, Turn!Receive, Reads, Asking
<1>2. messages[1] = Head(messages) /\ 1 \in DOMAIN messages
  BY <1>1 DEF Reads, TurnInv, TurnTypes
<1>3. CASE slot = None
  BY <1>1, <1>2, <1>3 DEF Turn!ReceiveApproval, Shows
<1>4. CASE slot # None
  <2>1. messages[1].id \in 1..MaxMessages
    BY <1>1, <1>2, AnalysisAssumption
       DEF TurnInv, AskedInOrder, TurnTypes, Turn!TurnAssumption
  <2>2. Turn!Resolve(messages[1].id, messages[1].ask, "deny", "decider")
        /\ UNCHANGED <<slot, reply>>
    BY <1>2, <1>4 DEF Turn!ReceiveApproval
  <2>3. Resolves(messages[1].id, "deny")
    BY <1>1, <2>1, <2>2, ResolveResolves DEF Reads, Turn!Decisions
  <2> QED BY <1>1, <2>2, <2>3 DEF Refuses
<1> QED BY <1>3, <1>4

\* The wait for the owner ends, with his verdict or at the deadline.
StopsWaiting ==
    /\ host.pc = "approving"
    /\ \/ reply # None /\ Resolves(host.request.id, reply) /\ slot' = None
       \/ Resolves(host.request.id, "deny") /\ slot' = slot
    /\ reply' = None
    /\ UNCHANGED <<runtime, frames, messages, call, ruling, misled>>

LEMMA WaitStops ==
    ASSUME TurnInv, Turn!VerdictArrives \/ Turn!ApprovalTimesOut
    PROVE  StopsWaiting
<1> USE DEF Turn!wire
<1>1. host.pc = "approving" /\ host.request.id \in 1..MaxMessages
  <2>1. host.pc = "approving"
    BY DEF Turn!VerdictArrives, Turn!ApprovalTimesOut
  <2> QED BY <2>1, AnalysisAssumption
    DEF TurnInv, CallShape, TurnTypes, Turn!Message, Turn!TurnAssumption
<1>2. CASE Turn!VerdictArrives
  <2>1. reply \in Turn!Decisions
    BY <1>2 DEF Turn!VerdictArrives, TurnInv, TurnTypes
  <2>2. Turn!Resolve(host.request.id, host.request.ask, reply, "decider")
    BY <1>2 DEF Turn!VerdictArrives
  <2>3. Resolves(host.request.id, reply)
    BY <1>1, <2>1, <2>2, ResolveResolves
  <2> QED BY <1>1, <1>2, <2>3 DEF Turn!VerdictArrives, StopsWaiting
<1>3. CASE Turn!ApprovalTimesOut
  <2>1. Turn!Resolve(host.request.id, host.request.ask, "deny", "timeout")
    BY <1>3 DEF Turn!ApprovalTimesOut
  <2>2. Resolves(host.request.id, "deny")
    BY <1>1, <2>1, ResolveResolves DEF Turn!Decisions
  <2> QED BY <1>1, <1>3, <2>2 DEF Turn!ApprovalTimesOut, StopsWaiting
<1> QED BY <1>2, <1>3

\* The steps of a session, as the proofs below tell them apart.
TurnStep ==
    \/ Turn!TakeFrame \/ Turn!RuntimeExits
    \/ \E type \in Turn!Requests \cup Turn!Notifications : Turn!SendMessage(type)
    \/ Turn!StartTurn \/ Turn!TurnIsStarted \/ Turn!StartFails
    \/ Handles
    \/ Turn!TurnTimesOut \/ Turn!Interrupted \/ Turn!RuntimeIsGone \/ Turn!Shutdown
    \/ Shows \/ Refuses \/ StopsWaiting
    \/ \E id \in Turn!Ids, decision \in Turn!Decisions : Turn!MarkDecided(id, decision)
    \/ Turn!SendVerdict

LEMMA NextIsTurnStep == ASSUME TurnInv, Turn!Next PROVE TurnStep
BY HandlersHandle, ReceiveApprovalShowsOrRefuses, WaitStops DEF Turn!Next, TurnStep

-----------------------------------------------------------------------------
(* The session: types are kept                                             *)

LEMMA Bounds ==
    /\ MaxTurns \in Nat /\ MaxToolCalls \in Nat /\ MaxMessages \in Nat
    /\ 0 \in 0..MaxTurns /\ 0 \in 0..MaxToolCalls
BY AnalysisAssumption DEF Turn!TurnAssumption

\* A notice of the runtime is a message.
LEMMA NoticeIsMessage ==
    ASSUME TurnTypes, NEW type \in Turn!Requests \cup Turn!Notifications,
           NEW turn \in 0..MaxTurns, NEW ask \in Asks \cup {None}
    PROVE  Turn!Notice(type, turn, ask) \in Turn!Message
BY AnalysisAssumption DEF TurnTypes, Turn!Notice, Turn!Message, Turn!TurnAssumption

LEMMA TakeFrameTypes ==
    ASSUME TurnInv, Turn!TakeFrame
    PROVE  TurnTypes' /\ CallShape'
<1> DEFINE f == Head(frames)
           waits == call # None /\ call.prompt = f.prompt /\ call.method = f.method
           turn == CASE f.method = "start" ->
                          IF runtime.turn = 0 THEN f.prompt ELSE runtime.turn
                     [] f.method = "interrupt" ->
                          IF runtime.turn = f.turn THEN 0 ELSE runtime.turn
<1>0. f \in Frames /\ Tail(frames) \in Seq(Frames) /\ MaxTurns \in Nat
  BY AnalysisAssumption DEF Turn!TakeFrame, TurnInv, TurnTypes, Turn!TurnAssumption
<1>1. turn \in 0..MaxTurns /\ f.turn \in 0..MaxTurns
  <2>1. f.prompt \in 0..MaxTurns /\ f.turn \in 0..MaxTurns /\ runtime.turn \in 0..MaxTurns
    BY <1>0 DEF Frames, Turn!Prompts, TurnInv, TurnTypes
  <2>2. f.method \in {"start", "interrupt"}
    BY <1>0 DEF Frames
  <2>3. CASE f.method = "start"
    BY <2>1, <2>3
  <2>4. CASE f.method = "interrupt"
    BY <1>0, <2>1, <2>4
  <2> QED BY <2>2, <2>3, <2>4
<1>2. /\ runtime' = [runtime EXCEPT !.turn = turn]
      /\ call' = IF waits THEN [call EXCEPT !.answer = turn] ELSE call
      /\ messages' = messages \/ messages' = Append(messages, Turn!Notice("completed", f.turn, None))
      /\ frames' = Tail(frames)
      /\ UNCHANGED <<host, slot, reply, ruling, trace, outcome, misled, approvals, ruled>>
  BY DEF Turn!TakeFrame, Turn!approval, Turn!history
<1> HIDE DEF turn, f
<1>3. runtime' \in [alive : BOOLEAN, turn : 0..MaxTurns, sent : 0..MaxMessages]
      /\ runtime'.sent = runtime.sent
  BY <1>1, <1>2 DEF TurnInv, TurnTypes
<1>4. messages' \in Seq(Turn!Message)
  <2>1. Turn!Notice("completed", f.turn, None) \in Turn!Message
    BY <1>1, NoticeIsMessage DEF TurnInv, Turn!Notifications
  <2>2. messages \in Seq(Turn!Message)
    BY DEF TurnInv, TurnTypes
  <2> QED BY <1>2, <2>1, <2>2
<1>5. /\ call' \in Turn!Call \cup {None}
      /\ (call' = None) <=> (call = None)
      /\ call # None => call'.method = call.method /\ call'.prompt = call.prompt
  <2>1. CASE waits
    <3>1. call \in Turn!Call
      BY <2>1 DEF TurnInv, TurnTypes
    <3>2. [call EXCEPT !.answer = turn] \in Turn!Call
      BY <3>1, <1>1 DEF Turn!Call
    <3> QED BY <1>2, <2>1, <3>1, <3>2, AnalysisAssumption DEF Turn!Call, Turn!TurnAssumption
  <2>2. CASE ~waits
    BY <1>2, <2>2 DEF TurnInv, TurnTypes
  <2> QED BY <2>1, <2>2
<1>6. TurnTypes'
  BY <1>0, <1>2, <1>3, <1>4, <1>5 DEF TurnInv, TurnTypes
<1>7. CallShape'
  BY <1>2, <1>3, <1>5 DEF TurnInv, CallShape
<1> QED BY <1>6, <1>7

LEMMA RuntimeTypes ==
    ASSUME TurnInv,
           Turn!RuntimeExits \/
           \E type \in Turn!Requests \cup Turn!Notifications : Turn!SendMessage(type)
    PROVE  TurnTypes' /\ CallShape'
<1> USE DEF Turn!approval, Turn!history, Turn!wire
<1>1. CASE Turn!RuntimeExits
  <2>1. <<>> \in Seq(Frames)
    OBVIOUS
  <2>2. runtime' \in [alive : BOOLEAN, turn : 0..MaxTurns, sent : 0..MaxMessages]
        /\ runtime'.sent = runtime.sent
    BY <1>1 DEF Turn!RuntimeExits, TurnInv, TurnTypes
  <2> QED BY <1>1, <2>1, <2>2 DEF Turn!RuntimeExits, TurnInv, TurnTypes, CallShape
<1>2. ASSUME NEW type \in Turn!Requests \cup Turn!Notifications, Turn!SendMessage(type)
      PROVE  TurnTypes' /\ CallShape'
  <2>1. PICK ask \in Asks \cup {None} :
            messages' = Append(messages, Turn!Notice(type, runtime.turn, ask))
    BY <1>2 DEF Turn!SendMessage
  <2>2. messages' \in Seq(Turn!Message)
    <3>1. Turn!Notice(type, runtime.turn, ask) \in Turn!Message
      BY NoticeIsMessage DEF TurnInv, TurnTypes
    <3> QED BY <2>1, <3>1 DEF TurnInv, TurnTypes
  <2>3. runtime' \in [alive : BOOLEAN, turn : 0..MaxTurns, sent : 0..MaxMessages]
        /\ runtime.sent <= runtime'.sent
    <3>1. runtime \in [alive : BOOLEAN, turn : 0..MaxTurns, sent : 0..MaxMessages]
      BY DEF TurnInv, TurnTypes
    <3>2. runtime.sent < MaxMessages
      BY <1>2 DEF Turn!SendMessage
    <3>6. runtime.sent \in 0..MaxMessages
      BY <3>1
    <3>7. runtime.sent + 1 \in 0..MaxMessages /\ runtime.sent <= runtime.sent + 1
      BY <3>2, <3>6, Bounds
    <3>3. \E t \in {0, runtime.turn} :
              runtime' = [runtime EXCEPT !.sent = runtime.sent + 1, !.turn = t]
      BY <1>2 DEF Turn!SendMessage
    <3>4. PICK t \in {0, runtime.turn} :
              runtime' = [runtime EXCEPT !.sent = runtime.sent + 1, !.turn = t]
      BY <3>3
    <3>5. t \in 0..MaxTurns
      BY <3>1, Bounds
    <3> QED BY <3>1, <3>4, <3>5, <3>7
  <2>4. UNCHANGED <<frames, call, host, slot, reply, ruling, trace, outcome, misled,
                    approvals, ruled>>
    BY <1>2 DEF Turn!SendMessage
  <2>5. CallShape'
    BY <2>3, <2>4 DEF TurnInv, TurnTypes, CallShape, Sessions, Turn!Message
  <2> QED BY <2>2, <2>3, <2>4, <2>5 DEF TurnInv, TurnTypes
<1> QED BY <1>1, <1>2

LEMMA CallTypes ==
    ASSUME TurnTypes, NEW method \in {"start", "interrupt"}, NEW prompt \in Turn!Prompts,
           NEW turn \in 0..MaxTurns, Turn!Request(method, prompt, turn)
    PROVE  /\ call' \in Turn!Call /\ call' # None
           /\ call'.method = method /\ call'.prompt = prompt
           /\ frames' \in Seq(Frames)
           /\ UNCHANGED <<runtime, messages>>
<1>1. call' \in Turn!Call
  BY DEF Turn!Request, Turn!Call
<1>2. [method |-> method, prompt |-> prompt, turn |-> turn] \in Frames
  BY DEF Frames
<1>3. frames' \in Seq(Frames)
  BY <1>2 DEF TurnTypes, Turn!Request
<1>4. call' # None
  BY <1>1, AnalysisAssumption DEF Turn!TurnAssumption
<1> QED BY <1>1, <1>3, <1>4 DEF Turn!Request

LEMMA StartTypes ==
    ASSUME TurnInv, Turn!StartTurn \/ Turn!TurnIsStarted \/ Turn!StartFails
    PROVE  TurnTypes' /\ CallShape'
<1> USE DEF Turn!approval, Turn!history
<1>1. CASE Turn!StartTurn
  <2>1. host.pc = "idle" /\ host.prompt < MaxTurns /\ host.prompt \in Nat
    BY <1>1 DEF Turn!StartTurn, TurnInv, TurnTypes, Sessions
  <2>2. host.prompt + 1 \in Turn!Prompts /\ host.prompt + 1 \in 0..MaxTurns
    BY <2>1, Bounds DEF Turn!Prompts
  <2>3. Turn!Request("start", host.prompt + 1, 0) /\ TurnTypes
    BY <1>1 DEF Turn!StartTurn, TurnInv
  <2>4. /\ call' \in Turn!Call /\ call' # None
        /\ call'.method = "start" /\ call'.prompt = host.prompt + 1
        /\ frames' \in Seq(Frames)
        /\ UNCHANGED <<runtime, messages>>
    BY <2>2, <2>3, CallTypes, Bounds
  <2>5. host' = [pc |-> "starting", prompt |-> host.prompt + 1, turn |-> 0, tools |-> 0,
                 request |-> None]
        /\ UNCHANGED <<slot, reply, ruling, trace, outcome, misled, approvals, ruled>>
    BY <1>1 DEF Turn!StartTurn
  <2>6. host' \in Sessions
    BY <2>2, <2>5, Bounds DEF Sessions
  <2> QED BY <2>2, <2>4, <2>5, <2>6 DEF TurnInv, TurnTypes, CallShape
<1>2. CASE Turn!TurnIsStarted
  <2>1. call \in Turn!Call /\ call.answer \in 0..MaxTurns
    BY <1>2 DEF Turn!TurnIsStarted, TurnInv, TurnTypes, CallShape, Turn!Call
  <2>2. host' = [host EXCEPT !.pc = "driving", !.turn = call.answer] /\ call' = None
        /\ trace' = Turn!Record(trace, Turn!TurnStarted(call.answer))
        /\ UNCHANGED <<runtime, frames, messages, slot, reply, ruling, outcome, misled,
                       approvals, ruled>>
    BY <1>2 DEF Turn!TurnIsStarted
  <2>3. trace' \in Traces
    <3>1. trace' = [trace EXCEPT !.open = TRUE, !.turns = Append(trace.turns, call.answer)]
          /\ Append(trace.turns, call.answer) \in Seq(0..MaxTurns)
      BY <1>2, <2>1, <2>2, StartedTrace DEF Turn!TurnIsStarted, TurnInv
    <3> QED BY <3>1 DEF TurnInv, TurnTypes, Traces
  <2>4. host' \in Sessions /\ host'.pc = "driving" /\ host'.prompt = host.prompt
        /\ host.pc = "starting"
    BY <1>2, <2>1, <2>2 DEF TurnInv, TurnTypes, Sessions, Turn!TurnIsStarted
  <2> QED BY <2>2, <2>3, <2>4 DEF TurnInv, TurnTypes, CallShape
<1>3. CASE Turn!StartFails
  <2>1. host' \in Sessions /\ host'.pc = "idle"
    BY <1>3 DEF TurnInv, TurnTypes, Sessions, Turn!StartFails
  <2>2. outcome' \in [Turn!Prompts -> Turn!Outcomes]
    BY <1>3 DEF TurnInv, TurnTypes, Turn!StartFails, Turn!Outcomes
  <2> QED BY <1>3, <2>1, <2>2 DEF Turn!StartFails, TurnInv, TurnTypes, CallShape
<1> QED BY <1>1, <1>2, <1>3

LEMMA FinishTypes ==
    ASSUME TurnInv, NEW result \in Turn!Outcomes, Finishes(result)
    PROVE  /\ host' \in Sessions /\ host'.pc = "idle"
           /\ trace' \in Traces
           /\ outcome' \in [Turn!Prompts -> Turn!Outcomes]
<1>1. host' \in Sessions /\ host'.pc = "idle"
  BY DEF TurnInv, TurnTypes, Sessions, Finishes
<1>2. trace' \in Traces
  BY DEF TurnInv, TurnTypes, Traces, Finishes
<1>3. outcome' \in [Turn!Prompts -> Turn!Outcomes]
  BY DEF TurnInv, TurnTypes, Finishes
<1> QED BY <1>1, <1>2, <1>3

\* What the handler of a message does, or the end of a wait, keeps types.
LEMMA EitherTypes ==
    ASSUME TurnInv, GoesOn \/ Finishes("abandoned") \/ Finishes("ended"),
           host.pc \in {"driving", "approving"}, runtime' = runtime, call' = call
    PROVE  /\ host' \in Sessions
           /\ trace' \in Traces
           /\ outcome' \in [Turn!Prompts -> Turn!Outcomes]
           /\ CallShape'
<1>1. CASE GoesOn
  BY <1>1 DEF GoesOn, TurnInv, TurnTypes, CallShape
<1>2. CASE \E result \in {"abandoned", "ended"} : Finishes(result)
  <2>1. PICK result \in Turn!Outcomes : Finishes(result)
    BY <1>2 DEF Turn!Outcomes
  <2>2. /\ host' \in Sessions /\ host'.pc = "idle"
        /\ trace' \in Traces
        /\ outcome' \in [Turn!Prompts -> Turn!Outcomes]
    BY <2>1, FinishTypes
  <2> QED BY <2>2 DEF TurnInv, CallShape
<1> QED BY <1>1, <1>2

LEMMA ReadTypes ==
    ASSUME TurnInv, Reads
    PROVE  /\ frames' \in Seq(Frames) /\ messages' \in Seq(Turn!Message)
           /\ misled' \subseteq Turn!Prompts
           /\ Head(messages) \in Turn!Message /\ messages[1] = Head(messages)
           /\ 1 \in DOMAIN messages
<1>1. messages \in Seq(Turn!Message) /\ messages # <<>>
  BY DEF TurnInv, TurnTypes, Reads
<1>2. /\ Tail(messages) \in Seq(Turn!Message) /\ Head(messages) \in Turn!Message
      /\ messages[1] = Head(messages) /\ 1 \in DOMAIN messages
  BY <1>1
<1>3. host.prompt \in Turn!Prompts
  BY DEF TurnInv, CallShape, Reads
<1> QED BY <1>2, <1>3 DEF TurnInv, TurnTypes, Reads

LEMMA HandleTypes ==
    ASSUME TurnInv, Handles
    PROVE  TurnTypes' /\ CallShape'
<1>1. Reads /\ UNCHANGED <<slot, reply, ruling, approvals, ruled>>
      /\ (GoesOn \/ Finishes("abandoned") \/ Finishes("ended"))
  BY DEF Handles
<1>2. /\ frames' \in Seq(Frames) /\ messages' \in Seq(Turn!Message)
      /\ misled' \subseteq Turn!Prompts
  BY <1>1, ReadTypes
<1>3. /\ host' \in Sessions
      /\ trace' \in Traces
      /\ outcome' \in [Turn!Prompts -> Turn!Outcomes]
      /\ CallShape'
  BY <1>1, EitherTypes DEF Reads
<1> QED BY <1>1, <1>2, <1>3 DEF TurnInv, TurnTypes, Reads

\* The end of a turn that is driven or interrupted.
LEMMA EndTypes ==
    ASSUME TurnInv, Turn!TurnTimesOut \/ Turn!Interrupted \/ Turn!RuntimeIsGone \/ Turn!Shutdown
    PROVE  TurnTypes' /\ CallShape'
<1> USE DEF Turn!approval, Turn!history
<1>1. CASE Turn!TurnTimesOut
  <2>1. host.prompt \in Turn!Prompts /\ host.turn \in 0..MaxTurns
    BY <1>1 DEF Turn!TurnTimesOut, TurnInv, TurnTypes, CallShape, Sessions
  <2>2. Turn!Request("interrupt", host.prompt, host.turn) /\ TurnTypes
    BY <1>1 DEF Turn!TurnTimesOut, TurnInv
  <2>3. /\ call' \in Turn!Call /\ call' # None
        /\ call'.method = "interrupt" /\ call'.prompt = host.prompt
        /\ frames' \in Seq(Frames)
        /\ UNCHANGED <<runtime, messages>>
    BY <2>1, <2>2, CallTypes
  <2>4. host' \in Sessions /\ host'.pc = "interrupting" /\ host'.prompt = host.prompt
    <3>1. PICK h \in Sessions : h = host
      BY <2>2 DEF TurnTypes
    <3>2. host' = [h EXCEPT !.pc = "interrupting"]
      BY <1>1, <3>1 DEF Turn!TurnTimesOut
    <3>3. [h EXCEPT !.pc = "interrupting"] \in Sessions
      BY DEF Sessions
    <3> QED BY <3>1, <3>2, <3>3 DEF Sessions
  <2> QED BY <1>1, <2>1, <2>3, <2>4 DEF Turn!TurnTimesOut, TurnInv, TurnTypes, CallShape
<1>2. CASE Turn!Interrupted \/ Turn!RuntimeIsGone
  <2>1. PICK result \in Turn!Outcomes : Turn!TurnEnds(result) /\ host.pc \in {"driving", "interrupting"}
    BY <1>2 DEF Turn!Interrupted, Turn!RuntimeIsGone, Turn!Outcomes
  <2>2. Finishes(result)
    BY <2>1, OpenTrace DEF Turn!TurnEnds, Finishes, TurnInv
  <2>3. /\ host' \in Sessions /\ host'.pc = "idle"
        /\ trace' \in Traces
        /\ outcome' \in [Turn!Prompts -> Turn!Outcomes]
    BY <2>2, FinishTypes
  <2>4. call' = None
    BY <1>2 DEF Turn!Interrupted, Turn!RuntimeIsGone, TurnInv, CallShape, Turn!wire
  <2>5. UNCHANGED <<runtime, frames, messages, slot, reply, ruling, misled, approvals, ruled>>
    BY <1>2 DEF Turn!Interrupted, Turn!RuntimeIsGone, Turn!wire
  <2> QED BY <2>3, <2>4, <2>5 DEF TurnInv, TurnTypes, CallShape
<1>3. CASE Turn!Shutdown
  <2>1. host' \in Sessions /\ host'.pc = "closed" /\ call = None
    BY <1>3 DEF Turn!Shutdown, TurnInv, TurnTypes, CallShape, Sessions
  <2>2. <<>> \in Seq(Frames)
    OBVIOUS
  <2>3. trace' \in Traces
    <3>1. trace \in Traces
      BY DEF TurnInv, TurnTypes
    <3>2. Turn!Record(trace, Turn!SessionFinished) \in Traces
      <4>1. [trace EXCEPT !.ok = FALSE] \in Traces /\ [trace EXCEPT !.finished = TRUE] \in Traces
        BY <3>1 DEF Traces
      <4> QED BY <4>1 DEF Turn!Record, Turn!SessionFinished
    <3> QED BY <1>3, <3>1, <3>2 DEF Turn!Shutdown
  <2>4. runtime' \in [alive : BOOLEAN, turn : 0..MaxTurns, sent : 0..MaxMessages]
    BY <1>3 DEF Turn!Shutdown, TurnInv, TurnTypes
  <2> QED BY <1>3, <2>1, <2>2, <2>3, <2>4 DEF Turn!Shutdown, TurnInv, TurnTypes, CallShape
<1> QED BY <1>1, <1>2, <1>3

LEMMA ApprovalTypes ==
    ASSUME TurnInv,
           \/ Shows \/ Refuses \/ StopsWaiting
           \/ \E id \in Turn!Ids, decision \in Turn!Decisions : Turn!MarkDecided(id, decision)
           \/ Turn!SendVerdict
    PROVE  TurnTypes' /\ CallShape'
<1>1. CASE Shows
  <2>1. /\ frames' \in Seq(Frames) /\ messages' \in Seq(Turn!Message)
        /\ misled' \subseteq Turn!Prompts
        /\ messages[1] \in Turn!Message /\ 1 \in DOMAIN messages
    BY <1>1, ReadTypes DEF Shows
  <2>2. messages[1].id \in 1..runtime.sent /\ messages[1].ask \in Asks
        /\ messages[1].id \in 1..MaxMessages
    BY <1>1, <2>1, Bounds DEF Shows, TurnInv, TurnTypes, AskedInOrder
  <2>3. slot' \in Turn!PendingApproval
    BY <1>1, <2>2 DEF Shows, Turn!PendingApproval
  <2>4. host' \in Sessions /\ host'.pc = "approving" /\ host'.request = messages[1]
        /\ host'.prompt = host.prompt
    BY <1>1, <2>1 DEF Shows, TurnInv, TurnTypes, Sessions
  <2>5. CallShape'
    BY <1>1, <2>1, <2>2, <2>4 DEF Shows, Reads, Asking, TurnInv, CallShape
  <2> QED BY <1>1, <2>1, <2>3, <2>4, <2>5 DEF Shows, Reads, TurnInv, TurnTypes
<1>2. CASE Refuses
  <2>1. /\ frames' \in Seq(Frames) /\ messages' \in Seq(Turn!Message)
        /\ misled' \subseteq Turn!Prompts
    BY <1>2, ReadTypes DEF Refuses
  <2>2. /\ host' \in Sessions
        /\ trace' \in Traces
        /\ outcome' \in [Turn!Prompts -> Turn!Outcomes]
        /\ CallShape'
    BY <1>2, EitherTypes DEF Refuses, Resolves, Reads
  <2> QED BY <1>2, <2>1, <2>2 DEF Refuses, Resolves, Reads, TurnInv, TurnTypes
<1>3. CASE StopsWaiting
  <2>1. /\ host' \in Sessions
        /\ trace' \in Traces
        /\ outcome' \in [Turn!Prompts -> Turn!Outcomes]
        /\ CallShape'
    BY <1>3, EitherTypes DEF StopsWaiting, Resolves
  <2> QED BY <1>3, <2>1 DEF StopsWaiting, Resolves, TurnInv, TurnTypes
<1>4. ASSUME NEW id \in Turn!Ids, NEW decision \in Turn!Decisions,
             Turn!MarkDecided(id, decision)
      PROVE  TurnTypes' /\ CallShape'
  <2>1. slot \in Turn!PendingApproval
    BY <1>4 DEF Turn!MarkDecided, TurnInv, TurnTypes
  <2>2. slot' \in Turn!PendingApproval /\ ruling' \in Turn!Ruling
    BY <1>4, <2>1 DEF Turn!MarkDecided, Turn!PendingApproval, Turn!Ruling, Turn!Ids
  <2> QED BY <1>4, <2>2 DEF Turn!MarkDecided, Turn!wire, Turn!history, TurnInv, TurnTypes, CallShape
<1>5. CASE Turn!SendVerdict
  <2>1. ruling \in Turn!Ruling
    BY <1>5 DEF Turn!SendVerdict, TurnInv, TurnTypes
  <2>2. ruling.decision \in Turn!Decisions /\ <<ruling.id, ruling.decision>> \in (1..MaxMessages) \X Turn!Decisions
    BY <2>1 DEF Turn!Ruling
  <2> QED BY <1>5, <2>2 DEF Turn!SendVerdict, Turn!wire, TurnInv, TurnTypes, CallShape
<1> QED BY <1>1, <1>2, <1>3, <1>4, <1>5

LEMMA TypesNext == ASSUME TurnInv, Turn!Next PROVE TurnTypes' /\ CallShape'
BY NextIsTurnStep, TakeFrameTypes, RuntimeTypes, StartTypes, HandleTypes, EndTypes,
   ApprovalTypes DEF TurnStep

-----------------------------------------------------------------------------
(* The session: a grant is the owner's                                     *)

\* The order of the requests survives a message that is none, and one that is read.
LEMMA AppendedInOrder ==
    ASSUME TurnInv, NEW m \in Turn!Message, messages' = Append(messages, m),
           UNCHANGED <<slot, ruled>>,
           \/ m.type # "approval" /\ runtime.sent <= runtime'.sent /\ runtime'.sent \in Nat
           \/ m.id = runtime.sent + 1 /\ m.ask \in Asks /\ runtime'.sent = runtime.sent + 1
    PROVE  AskedInOrder'
<1>1. /\ messages \in Seq(Turn!Message) /\ runtime.sent \in Nat
      /\ \A r \in ruled : r[1] \in Nat /\ r[1] <= runtime.sent
      /\ slot # None => slot.id \in Nat /\ slot.id <= runtime.sent
      /\ \A n \in DOMAIN messages : Asking(n) =>
            messages[n].id \in 1..runtime.sent
  BY DEF TurnInv, TurnTypes, AskedInOrder, Turn!PendingApproval
<1>2. /\ \A n \in DOMAIN messages' : n \in DOMAIN messages \/ n = Len(messages) + 1
      /\ \A n \in DOMAIN messages : messages'[n] = messages[n]
      /\ messages'[Len(messages) + 1] = m
      /\ DOMAIN messages = 1..Len(messages) /\ Len(messages) \in Nat
  BY <1>1
<1>3. ASSUME NEW n \in DOMAIN messages', Asking(n)'
      PROVE  /\ messages'[n].id \in 1..runtime'.sent /\ messages'[n].ask \in Asks
             /\ \A k \in 1..n - 1 : Asking(k)' => messages'[k].id < messages'[n].id
             /\ slot # None => slot.id < messages'[n].id
             /\ \A r \in ruled : r[1] < messages'[n].id
  <2>1. CASE n \in DOMAIN messages
    <3>1. /\ messages[n].id \in 1..runtime.sent /\ messages[n].ask \in Asks
          /\ \A k \in 1..n - 1 : Asking(k) => messages[k].id < messages[n].id
          /\ slot # None => slot.id < messages[n].id
          /\ \A r \in ruled : r[1] < messages[n].id
      BY <1>2, <1>3, <2>1 DEF TurnInv, AskedInOrder, Asking
    <3> QED BY <1>1, <1>2, <2>1, <3>1 DEF Asking
  <2>2. CASE n = Len(messages) + 1
    <3>1. m.id = runtime.sent + 1 /\ m.ask \in Asks /\ runtime'.sent = runtime.sent + 1
      BY <1>2, <1>3, <2>2 DEF Asking
    <3>2. \A k \in 1..n - 1 : Asking(k)' => messages'[k].id < messages'[n].id
      BY <1>1, <1>2, <2>2, <3>1 DEF Asking
    <3> QED BY <1>1, <1>2, <2>2, <3>1, <3>2
  <2> QED BY <1>2, <1>3, <2>1, <2>2
<1> QED BY <1>1, <1>3 DEF TurnInv, AskedInOrder

LEMMA ReadInOrder ==
    ASSUME TurnInv, messages # <<>>, messages' = Tail(messages), runtime' = runtime
    PROVE  /\ \A n \in DOMAIN messages' : Asking(n)' =>
                /\ n + 1 \in DOMAIN messages /\ messages'[n] = messages[n + 1]
                /\ messages'[n].id \in 1..runtime'.sent /\ messages'[n].ask \in Asks
                /\ \A m \in 1..n - 1 : Asking(m)' => messages'[m].id < messages'[n].id
                /\ slot # None => slot.id < messages'[n].id
                /\ \A r \in ruled : r[1] < messages'[n].id
                /\ Asking(1) => messages[1].id < messages'[n].id
           /\ UNCHANGED <<slot, ruled>> => AskedInOrder'
<1>1. messages \in Seq(Turn!Message)
  BY DEF TurnInv, TurnTypes
<1>2. \A n \in DOMAIN messages' :
          n \in Nat /\ n + 1 \in DOMAIN messages /\ messages'[n] = messages[n + 1]
          /\ \A m \in 1..n - 1 : messages'[m] = messages[m + 1]
  <2>1. messages # <<>> /\ messages' = Tail(messages)
    OBVIOUS
  <2>2. /\ Len(messages') = Len(messages) - 1 /\ Len(messages) \in Nat
        /\ DOMAIN messages' = 1..Len(messages') /\ DOMAIN messages = 1..Len(messages)
        /\ \A n \in 1..Len(messages') : messages'[n] = messages[n + 1]
    BY <1>1, <2>1
  <2> QED BY <2>2
<1>3. ASSUME NEW n \in DOMAIN messages', Asking(n)'
      PROVE  /\ n + 1 \in DOMAIN messages /\ messages'[n] = messages[n + 1]
             /\ messages'[n].id \in 1..runtime'.sent /\ messages'[n].ask \in Asks
             /\ \A m \in 1..n - 1 : Asking(m)' => messages'[m].id < messages'[n].id
             /\ slot # None => slot.id < messages'[n].id
             /\ \A r \in ruled : r[1] < messages'[n].id
             /\ Asking(1) => messages[1].id < messages'[n].id
  <2>1. /\ messages[n + 1].id \in 1..runtime.sent /\ messages[n + 1].ask \in Asks
        /\ \A m \in 1..n : Asking(m) => messages[m].id < messages[n + 1].id
        /\ slot # None => slot.id < messages[n + 1].id
        /\ \A r \in ruled : r[1] < messages[n + 1].id
    BY <1>2, <1>3 DEF TurnInv, AskedInOrder, Asking
  <2>2. \A m \in 1..n - 1 : m + 1 \in 1..n /\ (Asking(m)' => Asking(m + 1))
    BY <1>2 DEF Asking
  <2>3. 1 \in 1..n
    BY <1>1, <1>2
  <2> QED BY <1>2, <2>1, <2>2, <2>3
<1> QED BY <1>3 DEF TurnInv, AskedInOrder

LEMMA TakeFrameApprovals ==
    ASSUME TurnInv, Turn!TakeFrame
    PROVE  AskedInOrder' /\ VerdictsKept' /\ Turn!GrantedByOwner'
<1> DEFINE f == Head(frames)
<1>1. /\ messages' = messages \/ messages' = Append(messages, Turn!Notice("completed", f.turn, None))
      /\ UNCHANGED <<host, slot, reply, ruling, approvals, ruled>> /\ runtime'.sent = runtime.sent
  BY DEF Turn!TakeFrame, Turn!approval, Turn!history, TurnInv, TurnTypes
<1>2. Turn!Notice("completed", f.turn, None) \in Turn!Message
      /\ Turn!Notice("completed", f.turn, None).type # "approval"
  <2>1. f.turn \in 0..MaxTurns
    <3>1. frames \in Seq(Frames) /\ frames # <<>>
      BY DEF Turn!TakeFrame, TurnInv, TurnTypes
    <3>2. f \in Frames
      BY <3>1
    <3> QED BY <3>2 DEF Frames
  <2> QED BY <2>1, NoticeIsMessage DEF TurnInv, Turn!Notifications, Turn!Notice
<1> HIDE DEF f
<1>3. AskedInOrder'
  <2>1. CASE messages' = messages
    BY <1>1, <2>1 DEF TurnInv, AskedInOrder, Asking
  <2>2. CASE messages' = Append(messages, Turn!Notice("completed", f.turn, None))
    <3>1. runtime.sent <= runtime'.sent /\ runtime'.sent \in Nat
      BY <1>1 DEF TurnInv, TurnTypes
    <3> QED BY <1>1, <1>2, <2>2, <3>1, AppendedInOrder
  <2> QED BY <1>1, <2>1, <2>2
<1> QED BY <1>1, <1>3 DEF TurnInv, VerdictsKept, Turn!GrantedByOwner

LEMMA SendMessageApprovals ==
    ASSUME TurnInv, NEW type \in Turn!Requests \cup Turn!Notifications, Turn!SendMessage(type)
    PROVE  AskedInOrder' /\ VerdictsKept' /\ Turn!GrantedByOwner'
<1>1. PICK ask \in IF type = "approval" THEN Asks ELSE {None} :
          messages' = Append(messages, Turn!Notice(type, runtime.turn, ask))
  BY DEF Turn!SendMessage
<1>2. UNCHANGED <<host, slot, reply, ruling, approvals, ruled>> /\ runtime'.sent = runtime.sent + 1
  BY DEF Turn!SendMessage, Turn!approval, Turn!history, TurnInv, TurnTypes
<1>3. /\ Turn!Notice(type, runtime.turn, ask) \in Turn!Message
      /\ Turn!Notice(type, runtime.turn, ask).type = type
      /\ Turn!Notice(type, runtime.turn, ask).id = runtime.sent + 1
      /\ Turn!Notice(type, runtime.turn, ask).ask = ask
  BY NoticeIsMessage DEF TurnInv, TurnTypes, Turn!Notice
<1>4. AskedInOrder'
  <2>1. runtime.sent <= runtime'.sent /\ runtime'.sent \in Nat
    BY <1>2 DEF TurnInv, TurnTypes
  <2>2. PICK m \in Turn!Message : m = Turn!Notice(type, runtime.turn, ask)
    BY <1>3
  <2>3. CASE type = "approval"
    BY <1>1, <1>2, <1>3, <2>1, <2>2, <2>3, AppendedInOrder
  <2>4. CASE type # "approval"
    BY <1>1, <1>2, <1>3, <2>1, <2>2, <2>4, AppendedInOrder
  <2> QED BY <2>3, <2>4
<1> QED BY <1>2, <1>4 DEF TurnInv, VerdictsKept, Turn!GrantedByOwner

LEMMA QuietApprovals ==
    ASSUME TurnInv,
           \/ Turn!RuntimeExits
           \/ Turn!StartTurn \/ Turn!TurnIsStarted \/ Turn!StartFails
           \/ Turn!TurnTimesOut \/ Turn!Interrupted \/ Turn!RuntimeIsGone
    PROVE  AskedInOrder' /\ VerdictsKept' /\ Turn!GrantedByOwner'
<1> USE DEF Turn!RuntimeExits, Turn!StartTurn, Turn!TurnIsStarted, Turn!StartFails,
        Turn!TurnTimesOut, Turn!Interrupted, Turn!RuntimeIsGone, Turn!Request,
        Turn!wire, Turn!approval, Turn!history
<1>1. UNCHANGED <<messages, slot, reply, ruling, approvals, ruled>>
  OBVIOUS
<1>2. runtime'.sent = runtime.sent
  BY DEF TurnInv, TurnTypes
<1>3. host' = host \/ host.pc \notin {"approving", "closed"}
  OBVIOUS
<1>4. AskedInOrder' /\ Turn!GrantedByOwner'
  BY <1>1, <1>2 DEF TurnInv, AskedInOrder, Asking, Turn!GrantedByOwner
<1>5. VerdictsKept'
  BY <1>1, <1>3 DEF TurnInv, VerdictsKept
<1> QED BY <1>4, <1>5

LEMMA ShutdownApprovals ==
    ASSUME TurnInv, Turn!Shutdown
    PROVE  AskedInOrder' /\ VerdictsKept' /\ Turn!GrantedByOwner'
<1>1. /\ UNCHANGED <<messages, reply, ruling, approvals, ruled>> /\ runtime'.sent = runtime.sent
      /\ slot' = None /\ host.pc = "idle" /\ host'.pc = "closed"
  BY DEF Turn!Shutdown, Turn!history, TurnInv, TurnTypes, Sessions
<1>2. AskedInOrder' /\ Turn!GrantedByOwner'
  BY <1>1 DEF TurnInv, AskedInOrder, Asking, Turn!GrantedByOwner
<1>3. VerdictsKept'
  BY <1>1 DEF TurnInv, VerdictsKept
<1> QED BY <1>2, <1>3

\* While the session is driven no verdict is on its way, and a decision on its way is
\* on the request that is shown.
LEMMA DrivenApprovals ==
    ASSUME TurnInv, host.pc = "driving", reply' = reply \/ reply' = None,
           ruling' = ruling, slot' = slot
    PROVE  VerdictsKept'
BY DEF TurnInv, VerdictsKept

LEMMA HandleApprovals ==
    ASSUME TurnInv, Handles
    PROVE  AskedInOrder' /\ VerdictsKept' /\ Turn!GrantedByOwner'
<1>1. Reads /\ UNCHANGED <<slot, reply, ruling, approvals, ruled>>
  BY DEF Handles
<1>2. AskedInOrder'
  BY <1>1, ReadInOrder DEF Reads
<1>3. VerdictsKept'
  BY <1>1, DrivenApprovals DEF Reads
<1> QED BY <1>1, <1>2, <1>3 DEF TurnInv, Turn!GrantedByOwner

\* A resolved request adds a grant only if the owner's verdict is one.
LEMMA ResolvesGrants ==
    ASSUME TurnInv, NEW id, NEW verdict, Resolves(id, verdict),
           verdict # "deny" => <<id, verdict>> \in ruled
    PROVE  Turn!GrantedByOwner'
<1>1. PICK r : /\ approvals' = approvals \cup {r} /\ ruled' = ruled
               /\ r.id = id /\ r.decision \in {verdict, "deny"}
  BY DEF Resolves
<1> QED BY <1>1 DEF TurnInv, Turn!GrantedByOwner, Turn!IsGrant

LEMMA ShowsApprovals ==
    ASSUME TurnInv, Shows
    PROVE  AskedInOrder' /\ VerdictsKept' /\ Turn!GrantedByOwner'
<1>1. /\ messages # <<>> /\ messages' = Tail(messages) /\ runtime' = runtime
      /\ host.pc = "driving" /\ Asking(1) /\ slot = None /\ reply' = None
      /\ slot' = [id |-> messages[1].id, ask |-> messages[1].ask, decided |-> FALSE]
      /\ UNCHANGED <<approvals, ruled, ruling>>
  BY DEF Shows, Reads
<1>2. /\ messages[1].id \in 1..runtime.sent /\ \A r \in ruled : r[1] < messages[1].id
      /\ runtime.sent \in Nat
  <2>1. 1 \in DOMAIN messages
    BY <1>1 DEF TurnInv, TurnTypes
  <2> QED BY <1>1, <2>1 DEF TurnInv, TurnTypes, AskedInOrder
<1>3. \A n \in DOMAIN messages' : Asking(n)' =>
                /\ messages'[n].id \in 1..runtime'.sent /\ messages'[n].ask \in Asks
                /\ \A m \in 1..n - 1 : Asking(m)' => messages'[m].id < messages'[n].id
                /\ \A r \in ruled : r[1] < messages'[n].id
                /\ messages[1].id < messages'[n].id
  BY <1>1, ReadInOrder
<1>4. AskedInOrder'
  <2>1. slot'.id = messages[1].id
    BY <1>1
  <2>2. \A r \in ruled : r[1] # messages[1].id /\ r[1] <= runtime.sent
    <3>1. \A r \in ruled : r[1] \in Nat
      BY DEF TurnInv, TurnTypes
    <3> QED BY <1>2, <3>1 DEF TurnInv, AskedInOrder
  <2> QED BY <1>1, <1>2, <1>3, <2>1, <2>2 DEF AskedInOrder
<1>5. VerdictsKept' /\ Turn!GrantedByOwner'
  <2>1. ruling = None
    BY <1>1 DEF TurnInv, VerdictsKept
  <2> QED BY <1>1, <2>1 DEF TurnInv, VerdictsKept, Turn!GrantedByOwner
<1> QED BY <1>4, <1>5

LEMMA RefusesApprovals ==
    ASSUME TurnInv, Refuses
    PROVE  AskedInOrder' /\ VerdictsKept' /\ Turn!GrantedByOwner'
<1>1. Reads /\ UNCHANGED <<slot, reply, ruling>> /\ ruled' = ruled
      /\ Resolves(messages[1].id, "deny")
  BY DEF Refuses, Resolves
<1>2. AskedInOrder'
  BY <1>1, ReadInOrder DEF Reads
<1>3. VerdictsKept'
  BY <1>1, DrivenApprovals DEF Reads
<1>4. Turn!GrantedByOwner'
  BY <1>1, ResolvesGrants
<1> QED BY <1>2, <1>3, <1>4

LEMMA WaitingApprovals ==
    ASSUME TurnInv, StopsWaiting
    PROVE  AskedInOrder' /\ VerdictsKept' /\ Turn!GrantedByOwner'
<1>1. PICK verdict : /\ Resolves(host.request.id, verdict)
                     /\ \/ verdict = reply /\ reply # None /\ slot' = None
                        \/ verdict = "deny" /\ slot' = slot
  BY DEF StopsWaiting
<1>2. UNCHANGED <<runtime, messages, ruling>> /\ reply' = None /\ ruled' = ruled
      /\ host.pc = "approving"
  BY DEF StopsWaiting, Resolves
<1>3. AskedInOrder'
  BY <1>1, <1>2 DEF TurnInv, AskedInOrder, Asking
<1>4. VerdictsKept'
  BY <1>1, <1>2 DEF TurnInv, VerdictsKept
<1>5. Turn!GrantedByOwner'
  <2>1. verdict # "deny" => <<host.request.id, verdict>> \in ruled
    BY <1>1 DEF TurnInv, VerdictsKept
  <2> QED BY <1>1, <2>1, ResolvesGrants
<1> QED BY <1>3, <1>4, <1>5

\* The two halves of a decision of the owner.
LEMMA MarkApprovals ==
    ASSUME TurnInv, NEW id \in Turn!Ids, NEW decision \in Turn!Decisions,
           Turn!MarkDecided(id, decision)
    PROVE  AskedInOrder' /\ VerdictsKept' /\ Turn!GrantedByOwner'
<1>1. /\ UNCHANGED <<runtime, messages, host, reply, approvals, ruled>>
      /\ slot # None /\ slot.id = id /\ slot' = [slot EXCEPT !.decided = TRUE]
      /\ ruling' = [id |-> id, decision |-> decision]
  BY DEF Turn!MarkDecided, Turn!Named, Turn!wire, Turn!history
<1>2. slot' \in Turn!PendingApproval /\ slot'.id = slot.id /\ slot' # None
  <2>1. slot \in Turn!PendingApproval
    BY <1>1 DEF TurnInv, TurnTypes
  <2>2. slot' \in Turn!PendingApproval /\ slot'.id = slot.id
    BY <1>1, <2>1 DEF Turn!PendingApproval
  <2> QED BY <2>2, AnalysisAssumption DEF Turn!TurnAssumption
<1>3. AskedInOrder' /\ Turn!GrantedByOwner'
  BY <1>1, <1>2 DEF TurnInv, AskedInOrder, Asking, Turn!GrantedByOwner
<1>4. VerdictsKept'
  BY <1>1, <1>2 DEF TurnInv, VerdictsKept
<1> QED BY <1>3, <1>4

LEMMA SendVerdictApprovals ==
    ASSUME TurnInv, Turn!SendVerdict
    PROVE  AskedInOrder' /\ VerdictsKept' /\ Turn!GrantedByOwner'
<1>1. /\ UNCHANGED <<runtime, messages, host, approvals>>
      /\ ruling # None /\ slot' = None /\ ruling' = None
  BY DEF Turn!SendVerdict, Turn!wire
<1>2. CASE slot # None /\ host.pc = "approving" /\ host.request.id = slot.id
  <2>1. /\ reply' = ruling.decision /\ ruled' = ruled \cup {<<ruling.id, ruling.decision>>}
        /\ slot.id = ruling.id
    BY <1>2 DEF Turn!SendVerdict, TurnInv, VerdictsKept
  <2>2. slot.id <= runtime.sent /\ \A r \in ruled : r[1] # slot.id
    BY <1>2 DEF TurnInv, AskedInOrder
  <2>3. AskedInOrder'
    BY <1>1, <1>2, <2>1, <2>2 DEF TurnInv, AskedInOrder, Asking
  <2>4. VerdictsKept'
    BY <1>1, <1>2, <2>1 DEF TurnInv, VerdictsKept
  <2>5. Turn!GrantedByOwner'
    BY <1>1, <2>1, <2>2 DEF TurnInv, Turn!GrantedByOwner
  <2> QED BY <2>3, <2>4, <2>5
<1>3. CASE ~(slot # None /\ host.pc = "approving" /\ host.request.id = slot.id)
  <2>1. UNCHANGED <<reply, ruled>>
    BY <1>3 DEF Turn!SendVerdict
  <2>2. AskedInOrder' /\ Turn!GrantedByOwner'
    BY <1>1, <2>1 DEF TurnInv, AskedInOrder, Asking, Turn!GrantedByOwner
  <2>3. VerdictsKept'
    BY <1>1, <2>1 DEF TurnInv, VerdictsKept
  <2> QED BY <2>2, <2>3
<1> QED BY <1>2, <1>3

LEMMA ApprovalsNext ==
    ASSUME TurnInv, Turn!Next
    PROVE  AskedInOrder' /\ VerdictsKept' /\ Turn!GrantedByOwner'
BY NextIsTurnStep, TakeFrameApprovals, SendMessageApprovals, QuietApprovals,
   ShutdownApprovals, HandleApprovals, ShowsApprovals, RefusesApprovals,
   WaitingApprovals, MarkApprovals, SendVerdictApprovals DEF TurnStep

-----------------------------------------------------------------------------
(* The session: its trace                                                  *)

LEMMA FinishTrace ==
    ASSUME TurnInv, NEW result, Finishes(result),
           host.pc \in {"driving", "approving", "interrupting"}
    PROVE  TraceShape' /\ Turn!TraceReplays'
<1>1. trace' = [trace EXCEPT !.open = FALSE] /\ trace \in Traces /\ host'.pc = "idle"
  BY DEF Finishes, TurnInv, TurnTypes, Sessions
<1>2. trace.ok = TRUE /\ trace.started = TRUE /\ trace.finished = FALSE
  BY <1>1 DEF TurnInv, Turn!TraceReplays, Turn!Replayed, Traces
<1>3. trace'.ok = TRUE /\ trace'.started = TRUE /\ trace'.finished = FALSE /\ trace'.open = FALSE
  BY <1>1, <1>2 DEF Traces
<1> QED BY <1>1, <1>3 DEF TraceShape, Turn!TraceReplays, Turn!Replayed

LEMMA SameTrace ==
    ASSUME TurnInv, trace' = trace, host'.turn = host.turn \/ ~trace.open,
           host'.pc = host.pc
           \/ {host.pc, host'.pc} \subseteq {"driving", "approving", "interrupting"}
           \/ {host.pc, host'.pc} \subseteq {"idle", "starting"}
    PROVE  TraceShape' /\ Turn!TraceReplays'
BY DEF TurnInv, TraceShape, Turn!TraceReplays, Turn!Current

LEMMA TraceNext ==
    ASSUME TurnInv, Turn!Next
    PROVE  TraceShape' /\ Turn!TraceReplays'
<1> USE DEF Turn!wire, Turn!approval, Turn!history
<1>0. host \in Sessions
  BY DEF TurnInv, TurnTypes
<1>1. CASE UNCHANGED <<host, trace>>
  BY <1>1, SameTrace
<1>2. CASE Turn!StartTurn \/ Turn!TurnTimesOut \/ Turn!StartFails \/ Shows
  <2>1. trace' = trace /\ (host'.turn = host.turn \/ host.pc = "idle")
    BY <1>0, <1>2 DEF Turn!StartTurn, Turn!TurnTimesOut, Turn!StartFails, Shows, Sessions
  <2>2. \/ {host.pc, host'.pc} \subseteq {"driving", "approving", "interrupting"}
        \/ {host.pc, host'.pc} \subseteq {"idle", "starting"}
    <3>1. /\ Turn!StartTurn => host.pc = "idle" /\ host'.pc = "starting"
          /\ Turn!StartFails => host.pc = "starting" /\ host'.pc = "idle"
      BY <1>0 DEF Turn!StartTurn, Turn!StartFails, Sessions
    <3>2. Turn!TurnTimesOut => host.pc = "driving" /\ host'.pc = "interrupting"
      BY <1>0 DEF Turn!TurnTimesOut, Sessions
    <3>3. Shows => host.pc = "driving" /\ host'.pc = "approving"
      BY <1>0 DEF Shows, Reads, Sessions
    <3> QED BY <1>2, <3>1, <3>2, <3>3
  <2>3. host.pc = "idle" => ~trace.open
    BY DEF TurnInv, Turn!TraceReplays
  <2> QED BY <2>1, <2>2, <2>3, SameTrace
<1>3. CASE Turn!TurnIsStarted
  <2>1. call \in Turn!Call /\ call.answer \in 0..MaxTurns /\ host.pc = "starting"
    BY <1>3 DEF Turn!TurnIsStarted, TurnInv, TurnTypes, CallShape, Turn!Call
  <2>2. trace' = [trace EXCEPT !.open = TRUE, !.turns = Append(trace.turns, call.answer)]
        /\ Append(trace.turns, call.answer) \in Seq(0..MaxTurns)
    <3>1. trace' = Turn!Record(trace, Turn!TurnStarted(call.answer))
      BY <1>3 DEF Turn!TurnIsStarted
    <3> QED BY <2>1, <3>1, StartedTrace DEF TurnInv
  <2>3. host'.pc = "driving" /\ host'.turn = call.answer
    BY <1>0, <1>3 DEF Turn!TurnIsStarted, Sessions
  <2>4. trace.ok /\ trace.started /\ ~trace.finished /\ trace \in Traces
    BY <2>1 DEF TurnInv, TurnTypes, Turn!TraceReplays, Turn!Replayed
  <2>5. trace'.turns # <<>> /\ trace'.turns[Len(trace'.turns)] = call.answer
    BY <2>1, <2>2, <2>4 DEF Traces
  <2> QED BY <2>2, <2>3, <2>4, <2>5
    DEF TraceShape, Turn!TraceReplays, Turn!Replayed, Turn!Current, Traces
<1>4. CASE Handles \/ Refuses \/ StopsWaiting
  <2>1. host.pc \in {"driving", "approving"} /\ (GoesOn \/ \E result : Finishes(result))
    BY <1>4 DEF Handles, Refuses, StopsWaiting, Resolves, Reads
  <2>2. CASE GoesOn
    BY <2>1, <2>2, SameTrace DEF GoesOn
  <2> QED BY <2>1, <2>2, FinishTrace
<1>5. CASE Turn!Interrupted \/ Turn!RuntimeIsGone
  <2>1. /\ Turn!TurnEnds("interrupted") \/ Turn!TurnEnds("abandoned")
        /\ host.pc \in {"driving", "interrupting"}
    BY <1>5 DEF Turn!Interrupted, Turn!RuntimeIsGone
  <2>2. Finishes("interrupted") \/ Finishes("abandoned")
    BY <2>1, OpenTrace DEF Turn!TurnEnds, Finishes, TurnInv
  <2> QED BY <2>1, <2>2, FinishTrace
<1>6. CASE Turn!Shutdown
  <2>1. trace' = Turn!Record(trace, Turn!SessionFinished) \/ trace' = trace
    BY <1>6 DEF Turn!Shutdown
  <2>2. host'.pc = "closed" /\ host.pc = "idle"
    BY <1>0, <1>6 DEF Turn!Shutdown, Sessions
  <2>3. trace.ok = TRUE /\ trace.started = TRUE /\ trace.finished = FALSE /\ trace.open = FALSE
        /\ trace \in Traces
    BY <2>2 DEF TurnInv, TurnTypes, Traces, Turn!TraceReplays, Turn!Replayed
  <2>4. trace' = [trace EXCEPT !.finished = TRUE] \/ trace' = trace
    BY <2>1, <2>3 DEF Turn!Record, Turn!Ordered, Turn!SessionFinished
  <2> QED BY <2>2, <2>3, <2>4 DEF TraceShape, Turn!TraceReplays, Turn!Replayed, Traces
<1> QED BY <1>1, <1>2, <1>3, <1>4, <1>5, <1>6, NextIsTurnStep
     DEF TurnStep, Turn!TakeFrame, Turn!RuntimeExits, Turn!SendMessage, Turn!MarkDecided,
         Turn!SendVerdict

-----------------------------------------------------------------------------
(* The session: turns are kept apart                                       *)

TurnsPart == NotAhead /\ TurnIsOwn /\ NothingLeft /\ Turn!TurnsKeptApart

\* If the runtime ended every earlier turn, every earlier call is over.
LEMMA EndedIsSettled ==
    ASSUME TurnInv, Ended
    PROVE  /\ Settled
           /\ host.prompt \in Turn!Prompts =>
                 /\ host.prompt \notin misled
                 /\ outcome[host.prompt] = "ended" => Turn!IsOver(host.prompt)
<1>1. host.prompt \in 0..MaxTurns /\ MaxTurns \in Nat
  BY Bounds DEF TurnInv, TurnTypes, Sessions
<1>2. ASSUME NEW q \in Turn!Prompts, q <= host.prompt
      PROVE  q \notin misled
  <2>1. \A r \in 1..q - 1 : r \in 1..host.prompt - 1
    BY <1>1, <1>2 DEF Turn!Prompts
  <2> QED BY <2>1 DEF TurnInv, Turn!TurnsKeptApart, Ended
<1>3. \A q \in 1..host.prompt - 1 : q \in Turn!Prompts /\ q <= host.prompt
  BY <1>1 DEF Turn!Prompts
<1>4. Settled
  BY <1>2, <1>3 DEF Settled, Ended, Turn!IsOver
<1> QED BY <1>1, <1>2, <1>4 DEF Turn!IsOver, Turn!Prompts

\* What is known of the earlier calls does not change while one is made.
LEMMA EarlierKept ==
    ASSUME TurnInv, host'.prompt = host.prompt,
           \A q \in 1..host.prompt - 1 :
               outcome'[q] = outcome[q] /\ (q \in misled' <=> q \in misled)
    PROVE  (Settled' <=> Settled) /\ (Ended' <=> Ended)
BY DEF Settled, Ended, Turn!IsOver

\* A call that hears of another turn is misled, and only that call.
LEMMA ApartKept ==
    ASSUME TurnInv, TurnIsOwn',
           \A q \in 1..host.prompt - 1 : outcome'[q] = outcome[q],
           \A p \in misled' : p \in misled \/ (p = host.prompt /\ ~Ended)
    PROVE  Turn!TurnsKeptApart'
<1>1. ASSUME NEW p \in Turn!Prompts, \A q \in 1..p - 1 : outcome'[q] = "ended"
      PROVE  p \notin misled'
  <2>1. SUFFICES ASSUME p \in misled' PROVE FALSE
    OBVIOUS
  <2>2. p <= host.prompt /\ host.prompt \in Nat
    BY <2>1 DEF TurnInv, TurnTypes, Sessions, NotAhead, Turn!Prompts
  <2>3. \A q \in 1..p - 1 : outcome[q] = "ended"
    <3>1. \A q \in 1..p - 1 : q \in 1..host.prompt - 1
      BY <2>2 DEF Turn!Prompts
    <3> QED BY <1>1, <3>1
  <2>4. p \notin misled
    BY <2>3 DEF TurnInv, Turn!TurnsKeptApart
  <2> QED BY <2>1, <2>3, <2>4 DEF Ended
<1>2. ASSUME NEW p \in Turn!Prompts, \A q \in 1..p - 1 : Turn!IsOver(q)',
             host'.prompt = p, host'.pc = "driving"
      PROVE  host'.turn = p
  BY <1>2 DEF TurnIsOwn, Settled
<1> QED BY <1>1, <1>2 DEF Turn!TurnsKeptApart

\* What is queued after a message is read was queued before, the last one last.
StillQueued ==
    \A n \in DOMAIN messages' : \E k \in DOMAIN messages :
        messages'[n] = messages[k] /\ (k = Len(messages) => n = Len(messages'))

LEMMA ReadIsQueued ==
    ASSUME TurnInv, Reads \/ messages' = messages
    PROVE  StillQueued
<1>1. messages \in Seq(Turn!Message)
  BY DEF TurnInv, TurnTypes
<1>2. CASE messages' = messages
  BY <1>2 DEF StillQueued
<1>3. CASE messages # <<>> /\ messages' = Tail(messages)
  <2>1. messages # <<>> /\ messages' = Tail(messages)
    BY <1>3
  <2>2. /\ Len(messages') = Len(messages) - 1 /\ Len(messages) \in Nat
        /\ DOMAIN messages' = 1..Len(messages') /\ DOMAIN messages = 1..Len(messages)
        /\ \A n \in 1..Len(messages') : messages'[n] = messages[n + 1]
    BY <1>1, <2>1
  <2>3. \A n \in DOMAIN messages' :
            /\ n + 1 \in DOMAIN messages /\ messages'[n] = messages[n + 1]
            /\ n + 1 = Len(messages) => n = Len(messages')
    BY <2>2
  <2> QED BY <2>3 DEF StillQueued
<1> QED BY <1>2, <1>3 DEF Reads

\* A call whose turn is driven goes on.
LEMMA GoesOnTurns ==
    ASSUME TurnInv, {host.pc, host'.pc} \subseteq {"driving", "approving"},
           host'.prompt = host.prompt, host'.turn = host.turn,
           UNCHANGED <<runtime, frames, call, outcome>>,
           UNCHANGED <<messages, misled>> \/ Reads
    PROVE  TurnsPart'
<1>1. host.prompt \in Turn!Prompts /\ Busy /\ Busy' /\ call = None
  BY DEF TurnInv, CallShape, Busy
<1>2. StillQueued
  BY ReadIsQueued
<1>3. /\ misled \subseteq misled' /\ misled' \subseteq misled \cup {host.prompt}
      /\ Ended => misled' = misled
  <2>1. CASE UNCHANGED <<messages, misled>>
    BY <2>1
  <2>2. CASE Reads
    <3>1. messages \in Seq(Turn!Message) /\ messages # <<>>
      BY <2>2 DEF Reads, TurnInv, TurnTypes
    <3>2. 1 \in DOMAIN messages /\ Head(messages) = messages[1]
      BY <3>1
    <3> QED BY <2>2, <3>2 DEF Reads, TurnInv, NothingLeft
  <2> QED BY <2>1, <2>2
<1>4. (Settled' <=> Settled) /\ (Ended' <=> Ended)
  BY <1>1, <1>3, EarlierKept DEF Turn!Prompts
<1>5. NotAhead'
  <2>1. misled' \subseteq 1..host'.prompt
    BY <1>1, <1>3 DEF TurnInv, NotAhead, Turn!Prompts
  <2> QED BY <1>1, <1>2, <2>1 DEF StillQueued, TurnInv, NotAhead
<1>6. TurnIsOwn'
  BY <1>1, <1>2, <1>4 DEF StillQueued, TurnInv, TurnIsOwn, Ends
<1>7. NothingLeft'
  <2>1. ASSUME Ended
        PROVE  /\ \A n \in DOMAIN messages' : messages'[n].turn = host.prompt
               /\ \A n \in DOMAIN messages' : Ends(n)' => n = Len(messages')
               /\ frames = <<>>
    <3>1. Settled
      BY <2>1, EndedIsSettled
    <3>2. frames = <<>>
      BY <3>1 DEF TurnInv, TurnIsOwn
    <3> QED BY <1>2, <2>1, <3>2 DEF StillQueued, TurnInv, NothingLeft, Ends
  <2> QED BY <1>1, <1>4, <2>1 DEF NothingLeft
<1>8. Turn!TurnsKeptApart'
  BY <1>3, <1>6, ApartKept
<1> QED BY <1>5, <1>6, <1>7, <1>8 DEF TurnsPart

\* A call ends without an end of its turn.
LEMMA AbandonedTurns ==
    ASSUME TurnInv, Busy, host'.pc = "idle",
           host'.prompt = host.prompt, host'.turn = host.turn,
           outcome' = [outcome EXCEPT ![host.prompt] = "abandoned"],
           call' = None, UNCHANGED <<runtime, frames>>,
           UNCHANGED <<messages, misled>> \/ Reads
    PROVE  TurnsPart'
<1>1. host.prompt \in Turn!Prompts /\ ~Busy' /\ host.prompt \in Nat /\ host.prompt # 0
  BY DEF TurnInv, CallShape, Busy, Turn!Prompts
<1>2. StillQueued
  BY ReadIsQueued
<1>3. /\ misled \subseteq misled' /\ misled' \subseteq misled \cup {host.prompt}
      /\ Ended => misled' = misled
  <2>1. CASE UNCHANGED <<messages, misled>>
    BY <2>1
  <2>2. CASE Reads
    <3>1. messages \in Seq(Turn!Message) /\ messages # <<>>
      BY <2>2 DEF Reads, TurnInv, TurnTypes
    <3>2. 1 \in DOMAIN messages /\ Head(messages) = messages[1]
      BY <3>1
    <3> QED BY <2>2, <3>2 DEF Reads, TurnInv, NothingLeft
  <2> QED BY <2>1, <2>2
<1>4. /\ \A q \in 1..host.prompt - 1 : outcome'[q] = outcome[q]
      /\ \A q \in host.prompt + 1..MaxTurns : outcome'[q] = outcome[q]
      /\ outcome'[host.prompt] = "abandoned"
  BY <1>1, Bounds DEF TurnInv, TurnTypes, Turn!Prompts
<1>5. ~Turn!IsOver(host.prompt)'
  BY <1>4 DEF Turn!IsOver
<1>6. NotAhead'
  <2>1. misled' \subseteq 1..host'.prompt
    BY <1>1, <1>3 DEF TurnInv, NotAhead, Turn!Prompts
  <2> QED BY <1>1, <1>2, <1>4, <2>1 DEF StillQueued, TurnInv, NotAhead
<1>7. TurnIsOwn'
  BY <1>1, <1>5 DEF TurnIsOwn, Busy
<1>8. NothingLeft'
  BY <1>1, <1>4 DEF NothingLeft, Busy
<1>9. Turn!TurnsKeptApart'
  BY <1>3, <1>4, <1>7, ApartKept
<1> QED BY <1>6, <1>7, <1>8, <1>9 DEF TurnsPart

\* A call ends on the end of a turn it reads, or after the answer to its interrupt.
LEMMA OverTurns ==
    ASSUME TurnInv, Busy, host'.pc = "idle",
           host'.prompt = host.prompt, host'.turn = host.turn,
           call' = None, UNCHANGED <<runtime, frames>>,
           \/ /\ outcome' = [outcome EXCEPT ![host.prompt] = "ended"]
              /\ Reads /\ Ends(1)
           \/ /\ outcome' = [outcome EXCEPT ![host.prompt] = "interrupted"]
              /\ host.pc = "interrupting" /\ call.answer # None
              /\ UNCHANGED <<messages, misled>>
    PROVE  TurnsPart'
<1>1. host.prompt \in Turn!Prompts /\ ~Busy' /\ host.prompt \in Nat /\ host.prompt # 0
  BY DEF TurnInv, CallShape, Busy, Turn!Prompts
<1>2. StillQueued
  BY ReadIsQueued
<1>3. Reads => /\ messages \in Seq(Turn!Message) /\ messages # <<>>
               /\ 1 \in DOMAIN messages /\ Head(messages) = messages[1]
               /\ Len(messages) = 1 => messages' = <<>>
  <2>1. ASSUME Reads
        PROVE  /\ messages \in Seq(Turn!Message) /\ messages # <<>>
               /\ messages' = Tail(messages)
    BY <2>1 DEF Reads, TurnInv, TurnTypes
  <2>2. Reads => /\ 1 \in DOMAIN messages /\ Head(messages) = messages[1]
                 /\ Len(messages') = Len(messages) - 1 /\ messages' \in Seq(Turn!Message)
    BY <2>1
  <2> QED BY <2>1, <2>2
<1>4. /\ misled \subseteq misled' /\ misled' \subseteq misled \cup {host.prompt}
      /\ Ended => misled' = misled
      /\ Reads => (host.prompt \notin misled' => messages[1].turn = host.prompt)
  <2>1. CASE UNCHANGED <<messages, misled>> /\ ~Reads
    BY <2>1
  <2>2. CASE Reads
    BY <1>3, <2>2 DEF Reads, TurnInv, NothingLeft
  <2> QED BY <2>1, <2>2 DEF Reads
<1>5. /\ \A q \in 1..host.prompt - 1 : outcome'[q] = outcome[q]
      /\ \A q \in host.prompt + 1..MaxTurns : outcome'[q] = outcome[q]
      /\ outcome'[host.prompt] = IF host.pc = "interrupting" THEN "interrupted" ELSE "ended"
  <2>1. outcome \in [Turn!Prompts -> Turn!Outcomes]
    BY DEF TurnInv, TurnTypes
  <2>2. PICK over : /\ outcome' = [outcome EXCEPT ![host.prompt] = over]
                    /\ over = IF host.pc = "interrupting" THEN "interrupted" ELSE "ended"
    BY DEF Reads
  <2>3. /\ 1..host.prompt - 1 \subseteq Turn!Prompts \ {host.prompt}
        /\ host.prompt + 1..MaxTurns \subseteq Turn!Prompts \ {host.prompt}
    BY <1>1, Bounds DEF Turn!Prompts
  <2> QED BY <1>1, <2>1, <2>2, <2>3
<1>6. (Settled' <=> Settled) /\ (Ended' <=> Ended)
  BY <1>1, <1>4, <1>5, EarlierKept DEF Turn!Prompts
<1>7. NotAhead'
  <2>1. misled' \subseteq 1..host'.prompt
    BY <1>1, <1>4 DEF TurnInv, NotAhead, Turn!Prompts
  <2>2. NotAhead
    BY DEF TurnInv
  <2>3. \A n \in DOMAIN messages' : messages'[n].turn <= host.prompt
    BY <1>2, <2>2 DEF StillQueued, NotAhead
  <2> QED BY <1>1, <1>5, <2>1, <2>2, <2>3 DEF NotAhead
<1>8. TurnIsOwn'
  <2>1. ASSUME Settled, Turn!IsOver(host.prompt)'
        PROVE  frames = <<>> /\ runtime.turn = 0
    <3>1. CASE host.pc = "interrupting"
      BY <2>1, <3>1 DEF TurnInv, TurnIsOwn, Reads
    <3>2. CASE Reads /\ Ends(1) /\ outcome'[host.prompt] = "ended"
      <4>1. messages[1].turn = host.prompt
        BY <1>4, <2>1, <3>2 DEF Turn!IsOver
      <4> QED BY <1>3, <2>1, <3>2, <4>1 DEF TurnInv, TurnIsOwn, Reads
    <3> QED BY <1>1, <1>5, <3>1, <3>2 DEF Reads
  <2> QED BY <1>1, <1>6, <2>1 DEF TurnIsOwn, Busy
<1>9. NothingLeft'
  <2>1. ASSUME Ended, outcome'[host.prompt] = "ended"
        PROVE  messages' = <<>>
    <3>1. Reads /\ Ends(1) /\ host.pc = "driving"
      BY <1>5, <2>1 DEF Reads
    <3>2. Len(messages) = 1
      BY <1>3, <2>1, <3>1 DEF TurnInv, NothingLeft
    <3> QED BY <1>3, <3>1, <3>2
  <2> QED BY <1>1, <1>6, <2>1 DEF NothingLeft, Busy
<1>10. Turn!TurnsKeptApart'
  BY <1>4, <1>5, <1>8, ApartKept
<1> QED BY <1>7, <1>8, <1>9, <1>10 DEF TurnsPart

\* A call is made of a runtime that works on none, or of one that may work on another.
LEMMA StartTurns ==
    ASSUME TurnInv, Turn!StartTurn
    PROVE  TurnsPart'
<1>1. /\ host.pc = "idle" /\ host.prompt < MaxTurns /\ host.prompt \in Nat /\ call = None
      /\ host' = [pc |-> "starting", prompt |-> host.prompt + 1, turn |-> 0, tools |-> 0,
                  request |-> None]
      /\ call' = [method |-> "start", prompt |-> host.prompt + 1, answer |-> None]
      /\ frames' = frames \/ frames' = Append(frames, [method |-> "start",
                                            prompt |-> host.prompt + 1, turn |-> 0])
      /\ UNCHANGED <<runtime, messages, outcome, misled>>
  BY DEF Turn!StartTurn, Turn!Request, Turn!history, TurnInv, TurnTypes, CallShape, Sessions
<1>2. host'.prompt = host.prompt + 1 /\ host'.pc = "starting" /\ host'.turn = 0 /\ Busy' /\ ~Busy
      /\ call'.answer = None /\ call' # None /\ host.prompt \in Nat
  <2>1. call' # None
    BY <1>1, AnalysisAssumption, Bounds DEF Turn!TurnAssumption, Turn!Call, Turn!Prompts
  <2> QED BY <1>1, <2>1 DEF Busy
<1>3. /\ frames \in Seq(Frames) /\ runtime.turn \in Nat
      /\ \A n \in DOMAIN frames : frames[n].prompt \in Nat /\ frames[n].turn \in Nat
      /\ \A n \in DOMAIN messages : messages[n].turn \in Nat
  <2>1. frames \in Seq(Frames) /\ messages \in Seq(Turn!Message) /\ runtime.turn \in Nat
    BY Bounds DEF TurnInv, TurnTypes
  <2>2. \A n \in DOMAIN frames : frames[n] \in Frames
    BY <2>1
  <2>3. \A n \in DOMAIN messages : messages[n] \in Turn!Message
    BY <2>1
  <2> QED BY <2>1, <2>2, <2>3, Bounds DEF Frames, Turn!Message, Turn!Prompts
<1>4. NotAhead'
  <2>1. \A n \in DOMAIN frames' : frames'[n].prompt <= host.prompt + 1
                                  /\ frames'[n].turn <= host.prompt + 1
    <3>1. CASE frames' = frames
      BY <1>1, <1>3, <3>1 DEF TurnInv, NotAhead
    <3>2. CASE frames' = Append(frames, [method |-> "start", prompt |-> host.prompt + 1,
                                         turn |-> 0])
      <4>1. \A n \in DOMAIN frames' :
               \/ n \in DOMAIN frames /\ frames'[n] = frames[n]
               \/ frames'[n] = [method |-> "start", prompt |-> host.prompt + 1, turn |-> 0]
        BY <1>3, <3>2
      <4>2. \A n \in DOMAIN frames : frames[n].prompt <= host.prompt + 1
                                     /\ frames[n].turn <= host.prompt + 1
        BY <1>1, <1>3 DEF TurnInv, NotAhead
      <4>3. ASSUME NEW n \in DOMAIN frames',
                   frames'[n] = [method |-> "start", prompt |-> host.prompt + 1, turn |-> 0]
            PROVE  frames'[n].prompt <= host.prompt + 1 /\ frames'[n].turn <= host.prompt + 1
        <5>1. frames'[n].prompt = host.prompt + 1 /\ frames'[n].turn = 0
          BY <4>3
        <5> QED BY <1>1, <5>1
      <4> QED BY <4>1, <4>2, <4>3
    <3> QED BY <1>1, <3>1, <3>2
  <2>2. /\ runtime'.turn <= host'.prompt /\ host'.turn <= host'.prompt
        /\ \A n \in DOMAIN messages' : messages'[n].turn <= host'.prompt
    <3>1. /\ runtime.turn <= host.prompt
          /\ \A n \in DOMAIN messages : messages[n].turn <= host.prompt
      BY DEF TurnInv, NotAhead
    <3>2. \A a \in Nat : a <= host.prompt => a <= host.prompt + 1
      BY <1>2
    <3>3. /\ runtime.turn <= host.prompt + 1
          /\ \A n \in DOMAIN messages : messages[n].turn <= host.prompt + 1
      BY <1>3, <3>1, <3>2
    <3> QED BY <1>1, <1>2, <3>3
  <2>3. misled' \subseteq 1..host'.prompt
    BY <1>1, <1>2 DEF TurnInv, NotAhead
  <2>4. \A q \in host'.prompt .. MaxTurns : outcome'[q] = "none"
    BY <1>1, <1>2, Bounds DEF TurnInv, NotAhead
  <2>5. outcome'[host'.prompt] = "none"
    BY <1>1, <1>2, <2>4, Bounds
  <2>6. \A q \in host'.prompt + 1 .. MaxTurns : outcome'[q] = "none"
    BY <1>1, <1>2, <2>4, Bounds
  <2> QED BY <1>2, <2>1, <2>2, <2>3, <2>5, <2>6 DEF NotAhead
<1>5. ASSUME Settled'
      PROVE  frames = <<>> /\ runtime.turn = 0
  <2>1. Settled /\ (host.prompt = 0 \/ Turn!IsOver(host.prompt))
    BY <1>1, <1>2, <1>5 DEF Settled, Turn!IsOver
  <2> QED BY <1>2, <2>1 DEF TurnInv, TurnIsOwn
<1>6. \A n \in DOMAIN messages' : messages'[n].turn # host'.prompt
  BY <1>1, <1>2, <1>3 DEF TurnInv, NotAhead
<1>7. TurnIsOwn'
  <2>1. ASSUME Settled'
        PROVE  \/ frames' = <<Frame("start")'>>
               \/ frames' = <<>>
    BY <1>1, <1>2, <1>5, <2>1 DEF Frame
  <2> QED BY <1>1, <1>2, <1>5, <1>6, <2>1 DEF TurnIsOwn
<1>8. NothingLeft'
  <2>1. ASSUME Ended'
        PROVE  messages = <<>>
    <3>1. Ended /\ (host.prompt = 0 \/ outcome[host.prompt] = "ended")
      BY <1>1, <1>2, <2>1 DEF Ended
    <3> QED BY <1>2, <3>1 DEF TurnInv, NothingLeft
  <2> QED BY <1>1, <1>2, <2>1 DEF NothingLeft
<1>9. Turn!TurnsKeptApart'
  BY <1>1, <1>7, ApartKept
<1> QED BY <1>4, <1>7, <1>8, <1>9 DEF TurnsPart

\* The runtime's answer names the turn of the call, if every earlier one is over.
LEMMA StartedTurns ==
    ASSUME TurnInv, Turn!TurnIsStarted
    PROVE  TurnsPart'
<1>1. /\ host.pc = "starting" /\ call.answer # None /\ call # None
      /\ host' = [host EXCEPT !.pc = "driving", !.turn = call.answer] /\ call' = None
      /\ host \in Sessions
      /\ UNCHANGED <<runtime, frames, messages, outcome, misled>>
  BY DEF Turn!TurnIsStarted, Turn!history, TurnInv, TurnTypes, CallShape
<1>2. /\ host'.pc = "driving" /\ host'.prompt = host.prompt /\ host'.turn = call.answer
      /\ Busy /\ Busy'
  BY <1>1 DEF Sessions, Busy
<1>3. (Settled' <=> Settled) /\ (Ended' <=> Ended)
  BY <1>1, <1>2, EarlierKept
<1>4. NotAhead'
  BY <1>1, <1>2 DEF TurnInv, NotAhead
<1>5. TurnIsOwn'
  BY <1>1, <1>2, <1>3 DEF TurnInv, TurnIsOwn, Ends
<1>6. NothingLeft'
  BY <1>1, <1>2, <1>3 DEF TurnInv, NothingLeft, Ends
<1>7. Turn!TurnsKeptApart'
  BY <1>1, <1>5, ApartKept
<1> QED BY <1>4, <1>5, <1>6, <1>7 DEF TurnsPart

\* The runtime is asked to stop the turn.
LEMMA TimesOutTurns ==
    ASSUME TurnInv, Turn!TurnTimesOut
    PROVE  TurnsPart'
<1>1. /\ host.pc = "driving" /\ messages = <<>> /\ host \in Sessions
      /\ host' = [host EXCEPT !.pc = "interrupting"]
      /\ call' = [method |-> "interrupt", prompt |-> host.prompt, answer |-> None]
      /\ frames' = frames \/ frames' = Append(frames, [method |-> "interrupt",
                                            prompt |-> host.prompt, turn |-> host.turn])
      /\ UNCHANGED <<runtime, messages, outcome, misled>>
  BY DEF Turn!TurnTimesOut, Turn!Request, Turn!history, TurnInv, TurnTypes
<1>2. /\ host'.pc = "interrupting" /\ host'.prompt = host.prompt /\ host'.turn = host.turn
      /\ Busy /\ Busy' /\ call'.answer = None /\ host.prompt \in Nat
  BY <1>1 DEF Sessions, Busy
<1>3. (Settled' <=> Settled) /\ (Ended' <=> Ended)
  BY <1>1, <1>2, EarlierKept
<1>4. NotAhead'
  <2>1. frames \in Seq(Frames) /\ host.turn <= host.prompt
    BY DEF TurnInv, TurnTypes, NotAhead
  <2>2. \A n \in DOMAIN frames' :
               \/ n \in DOMAIN frames /\ frames'[n] = frames[n]
               \/ frames'[n] = [method |-> "interrupt", prompt |-> host.prompt, turn |-> host.turn]
    BY <1>1, <2>1
  <2>3. \A n \in DOMAIN frames' : frames'[n].prompt <= host.prompt
                                  /\ frames'[n].turn <= host.prompt
    BY <1>2, <2>1, <2>2 DEF TurnInv, NotAhead
  <2> QED BY <1>1, <1>2, <2>3 DEF TurnInv, NotAhead
<1>5. TurnIsOwn'
  <2>1. ASSUME Settled
        PROVE  /\ frames' = <<Frame("interrupt")'>> \/ frames' = <<>>
               /\ host.turn = host.prompt /\ runtime.turn \in {0, host.prompt}
    BY <1>1, <1>2, <2>1 DEF TurnInv, TurnIsOwn, Frame
  <2> QED BY <1>1, <1>2, <1>3, <2>1 DEF TurnInv, TurnIsOwn, Ends
<1>6. NothingLeft'
  BY <1>2 DEF NothingLeft, Busy
<1>7. Turn!TurnsKeptApart'
  BY <1>1, <1>5, ApartKept
<1> QED BY <1>4, <1>5, <1>6, <1>7 DEF TurnsPart

\* The runtime takes a frame: it answers the call that waits, if there is one.
LEMMA TakeFrameTurns ==
    ASSUME TurnInv, Turn!TakeFrame
    PROVE  TurnsPart'
<1> DEFINE f == Head(frames)
           turn == CASE f.method = "start" ->
                          IF runtime.turn = 0 THEN f.prompt ELSE runtime.turn
                     [] f.method = "interrupt" ->
                          IF runtime.turn = f.turn THEN 0 ELSE runtime.turn
           said == Turn!Notice("completed", f.turn, None)
<1>0. /\ frames \in Seq(Frames) /\ frames # <<>> /\ f \in Frames /\ f = frames[1]
      /\ 1 \in DOMAIN frames /\ host.prompt \in Nat
  <2>1. frames \in Seq(Frames) /\ frames # <<>> /\ host.prompt \in Nat
    BY Bounds DEF Turn!TakeFrame, TurnInv, TurnTypes, Sessions
  <2> QED BY <2>1
<1>1. /\ runtime'.turn = turn /\ frames' = Tail(frames)
      /\ call' = IF call # None /\ call.prompt = f.prompt /\ call.method = f.method
                 THEN [call EXCEPT !.answer = turn] ELSE call
      /\ \/ messages' = messages
         \/ /\ messages' = Append(messages, said)
            /\ f.method = "interrupt" /\ runtime.turn # 0 /\ runtime.turn = f.turn
      /\ UNCHANGED <<host, outcome, misled>>
  BY DEF Turn!TakeFrame, Turn!history, TurnInv, TurnTypes
<1>2. said.turn = f.turn /\ said.type = "completed"
  BY DEF Turn!Notice
<1>3. f.prompt <= host.prompt /\ f.turn <= host.prompt /\ runtime.turn <= host.prompt
      /\ f.method \in {"start", "interrupt"}
  BY <1>0 DEF TurnInv, NotAhead, Frames
<1>4. turn <= host.prompt
  <2>1. CASE f.method = "start"
    BY <1>3, <2>1
  <2>2. CASE f.method = "interrupt"
    BY <1>0, <1>3, <2>2
  <2> QED BY <1>3, <2>1, <2>2
<1>5. call \in Turn!Call \cup {None}
      /\ (call' # None => call # None /\ (call'.answer = turn \/ call' = call))
  BY <1>1 DEF TurnInv, TurnTypes, Turn!Call
<1>6. /\ \A n \in DOMAIN messages' :
            (n \in DOMAIN messages /\ messages'[n] = messages[n]) \/ messages'[n] = said
      /\ \A n \in DOMAIN frames' : n + 1 \in DOMAIN frames /\ frames'[n] = frames[n + 1]
  <2>1. messages \in Seq(Turn!Message)
    BY DEF TurnInv, TurnTypes
  <2>2. \A n \in DOMAIN messages' :
            (n \in DOMAIN messages /\ messages'[n] = messages[n]) \/ messages'[n] = said
    BY <1>1, <2>1
  <2>3. \A n \in DOMAIN frames' : n + 1 \in DOMAIN frames /\ frames'[n] = frames[n + 1]
    BY <1>0, <1>1
  <2> QED BY <2>2, <2>3
<1>7. (Settled' <=> Settled) /\ (Ended' <=> Ended) /\ (Busy' <=> Busy)
  BY <1>1, EarlierKept DEF Busy
<1> HIDE DEF turn, said, f
<1>8. NotAhead'
  <2>1. \A n \in DOMAIN messages' : messages'[n].turn <= host.prompt
    BY <1>2, <1>3, <1>6 DEF TurnInv, NotAhead
  <2>2. \A n \in DOMAIN frames' : frames'[n].prompt <= host.prompt /\ frames'[n].turn <= host.prompt
    BY <1>6 DEF TurnInv, NotAhead
  <2>3. call' # None /\ call'.answer # None => call'.answer <= host.prompt
    BY <1>4, <1>5 DEF TurnInv, NotAhead
  <2> QED BY <1>1, <1>4, <1>7, <2>1, <2>2, <2>3 DEF TurnInv, NotAhead
<1>9. ASSUME Settled, Busy \/ host.prompt = 0 \/ Turn!IsOver(host.prompt)
      PROVE  \/ /\ host.pc = "starting" /\ f = Frame("start") /\ frames' = <<>>
                /\ runtime.turn = 0
                /\ call.answer = None /\ messages' = messages
                /\ \A n \in DOMAIN messages : messages[n].turn # host.prompt
                /\ call # None /\ call'.answer = host.prompt /\ runtime'.turn = host.prompt
             \/ /\ host.pc = "interrupting" /\ frames' = <<>>
                /\ call # None /\ call'.answer = 0 /\ runtime'.turn = 0
                /\ host.turn = host.prompt
  <2>1. host.pc = "starting" \/ host.pc = "interrupting"
    BY <1>0, <1>9 DEF TurnInv, TurnIsOwn, Busy
  <2>2. CASE host.pc = "starting"
    <3>1. /\ frames = <<Frame("start")>> /\ runtime.turn = 0 /\ call.answer = None
          /\ \A n \in DOMAIN messages : messages[n].turn # host.prompt
          /\ call # None /\ call.method = "start" /\ call.prompt = host.prompt
      BY <1>0, <1>9, <2>2 DEF TurnInv, TurnIsOwn, CallShape
    <3>2. f = Frame("start") /\ f.method = "start" /\ f.prompt = host.prompt
      BY <1>0, <3>1 DEF Frame
    <3>3. turn = host.prompt
      BY <3>1, <3>2 DEF turn
    <3>4. call \in Turn!Call /\ call' = [call EXCEPT !.answer = host.prompt]
      BY <1>1, <1>5, <3>1, <3>2, <3>3
    <3>5. call'.answer = host.prompt
      BY <3>4 DEF Turn!Call
    <3> QED BY <1>1, <2>2, <3>1, <3>2, <3>3, <3>5
  <2>3. CASE host.pc = "interrupting"
    <3>1. /\ frames = <<Frame("interrupt")>> /\ host.turn = host.prompt
          /\ runtime.turn \in {0, host.prompt} /\ host.prompt # 0
          /\ call # None /\ call.method = "interrupt" /\ call.prompt = host.prompt
      BY <1>0, <1>9, <2>3 DEF TurnInv, TurnIsOwn, CallShape, Turn!Prompts
    <3>2. f.method = "interrupt" /\ f.prompt = host.prompt /\ f.turn = host.prompt
      BY <1>0, <3>1 DEF Frame
    <3>3. turn = 0
      BY <3>1, <3>2 DEF turn
    <3>4. call \in Turn!Call /\ call' = [call EXCEPT !.answer = 0]
      BY <1>1, <1>5, <3>1, <3>2, <3>3
    <3>5. call'.answer = 0
      BY <3>4 DEF Turn!Call
    <3> QED BY <1>1, <2>3, <3>1, <3>3, <3>5
  <2> QED BY <2>1, <2>2, <2>3
<1>10. TurnIsOwn'
  <2>1. ASSUME Settled, Busy \/ host.prompt = 0 \/ Turn!IsOver(host.prompt)
        PROVE  /\ host.pc = "starting" => /\ frames' = <<>> /\ runtime'.turn = host.prompt
                                          /\ call'.answer = host.prompt
               /\ host.pc = "interrupting" => /\ frames' = <<>> /\ runtime'.turn = 0
                                              /\ host.turn = host.prompt
               /\ host.pc \in {"starting", "interrupting"}
               /\ \A n \in DOMAIN messages' :
                     Ends(n)' /\ messages'[n].turn = host.prompt => runtime'.turn = 0
    BY <1>9, <2>1
  <2>2. Turn!IsOver(host.prompt)' <=> Turn!IsOver(host.prompt)
    BY <1>1 DEF Turn!IsOver
  <2> QED BY <1>1, <1>7, <2>1, <2>2 DEF TurnIsOwn, Busy
<1>11. NothingLeft'
  <2>1. ASSUME Ended, Busy \/ host.prompt = 0 \/ outcome[host.prompt] = "ended"
        PROVE  \/ host.pc = "starting" /\ messages' = <<>>
               \/ host.pc = "interrupting"
    <3>1. host.prompt \in 0..MaxTurns
      BY DEF TurnInv, TurnTypes, Sessions
    <3>2. Settled /\ (Busy \/ host.prompt = 0 \/ Turn!IsOver(host.prompt))
      BY <1>0, <2>1, <3>1, Bounds, EndedIsSettled DEF Turn!Prompts
    <3> QED BY <1>0, <1>9, <2>1, <3>2 DEF TurnInv, NothingLeft
  <2>2. host.pc = "starting" => frames' = <<>> \/ ~Settled
    BY <1>9 DEF Busy
  <2>3. Ended => Settled
    BY EndedIsSettled
  <2>4. messages' = <<>> => DOMAIN messages' = {}
    OBVIOUS
  <2>5. CASE Busy
    BY <1>1, <1>7, <2>1, <2>2, <2>3, <2>4, <2>5 DEF NothingLeft, Busy
  <2>6. CASE ~Busy
    BY <1>1, <1>7, <2>1, <2>6 DEF NothingLeft, Busy
  <2> QED BY <2>5, <2>6
<1>12. Turn!TurnsKeptApart'
  BY <1>1, <1>10, ApartKept
<1> QED BY <1>8, <1>10, <1>11, <1>12 DEF TurnsPart

\* The runtime speaks of the turn it works on.
LEMMA SendMessageTurns ==
    ASSUME TurnInv, NEW type \in Turn!Requests \cup Turn!Notifications, Turn!SendMessage(type)
    PROVE  TurnsPart'
<1>1. PICK ask \in Asks \cup {None} :
          messages' = Append(messages, Turn!Notice(type, runtime.turn, ask))
  BY DEF Turn!SendMessage
<1>2. /\ runtime.turn # 0
      /\ runtime'.turn = IF type \in {"completed", "failed"} THEN 0 ELSE runtime.turn
      /\ UNCHANGED <<frames, call, host, outcome, misled>>
  BY DEF Turn!SendMessage, Turn!history, TurnInv, TurnTypes
<1> DEFINE m == Turn!Notice(type, runtime.turn, ask)
<1>3. m.turn = runtime.turn /\ m.type = type /\ messages' = Append(messages, m)
      /\ m \in Turn!Message
  BY <1>1, NoticeIsMessage DEF Turn!Notice, TurnInv, TurnTypes
<1> HIDE DEF m
<1>4. /\ messages \in Seq(Turn!Message) /\ Len(messages) \in Nat
      /\ \A n \in DOMAIN messages' :
            \/ n \in DOMAIN messages /\ messages'[n] = messages[n]
            \/ n = Len(messages') /\ messages'[n] = m
  BY <1>3 DEF TurnInv, TurnTypes
<1>5. (Settled' <=> Settled) /\ (Ended' <=> Ended) /\ (Busy' <=> Busy)
      /\ (Turn!IsOver(host.prompt)' <=> Turn!IsOver(host.prompt))
  BY <1>2, EarlierKept DEF Busy, Turn!IsOver
<1>6. NotAhead'
  <2>1. \A n \in DOMAIN messages' : messages'[n].turn <= host.prompt
    BY <1>3, <1>4 DEF TurnInv, NotAhead
  <2>2. runtime'.turn <= host.prompt
    BY <1>2, Bounds DEF TurnInv, TurnTypes, NotAhead, Sessions
  <2> QED BY <1>2, <1>5, <2>1, <2>2 DEF TurnInv, NotAhead
<1>7. ASSUME Settled, Busy \/ host.prompt = 0 \/ Turn!IsOver(host.prompt)
      PROVE  /\ frames = <<>> \/ host.pc = "interrupting"
             /\ \A n \in DOMAIN messages : Ends(n) => messages[n].turn # host.prompt
             /\ host.pc = "interrupting" => frames # <<>> \/ call.answer = None
             /\ runtime.turn = host.prompt /\ Busy
  BY <1>2, <1>7 DEF TurnInv, TurnIsOwn, Busy
<1>8. \A n \in DOMAIN messages' : Ends(n)' =>
          runtime'.turn = 0 \/ (n \in DOMAIN messages /\ messages'[n] = messages[n] /\ Ends(n))
  BY <1>2, <1>3, <1>4 DEF Ends
<1>9. TurnIsOwn'
  <2>1. Settled /\ Busy => \A n \in DOMAIN messages' :
            Ends(n)' /\ messages'[n].turn = host.prompt => runtime'.turn = 0
    BY <1>7, <1>8
  <2>2. Settled /\ host.pc = "starting" =>
            /\ frames = <<>> /\ runtime'.turn \in {0, host.prompt}
            /\ call.answer \in {None, host.prompt}
    BY <1>2 DEF TurnInv, TurnIsOwn
  <2>3. Settled /\ host.pc \in {"driving", "approving"} =>
            /\ frames = <<>> /\ runtime'.turn \in {0, host.prompt} /\ host.turn = host.prompt
    BY <1>2 DEF TurnInv, TurnIsOwn
  <2>4. Settled /\ host.pc = "interrupting" =>
            /\ host.turn = host.prompt /\ runtime'.turn \in {0, host.prompt}
            /\ \/ frames = <<Frame("interrupt")>> /\ call.answer = None
               \/ frames = <<>> /\ call.answer = None
    BY <1>2 DEF TurnInv, TurnIsOwn
  <2>5. Settled /\ ~Busy => ~(host.prompt = 0 \/ Turn!IsOver(host.prompt))
    BY <1>7
  <2>6. Frame("interrupt")' = Frame("interrupt")
    BY <1>2 DEF Frame
  <2> QED BY <1>2, <1>5, <2>1, <2>2, <2>3, <2>4, <2>5, <2>6 DEF TurnIsOwn
<1>10. NothingLeft'
  <2>1. ASSUME Ended
        PROVE  /\ Settled
               /\ host.prompt = 0 \/ outcome[host.prompt] = "ended" =>
                     host.prompt = 0 \/ Turn!IsOver(host.prompt)
    <3>1. host.prompt \in 0..MaxTurns
      BY DEF TurnInv, TurnTypes, Sessions
    <3> QED BY <2>1, <3>1, Bounds, EndedIsSettled DEF Turn!Prompts
  <2>2. ASSUME Ended, host.pc \in {"starting", "driving", "approving"}
        PROVE  /\ \A n \in DOMAIN messages' : messages'[n].turn = host.prompt
               /\ \A n \in DOMAIN messages' : Ends(n)' => n = Len(messages')
               /\ frames = <<>>
    <3>1. /\ runtime.turn = host.prompt /\ frames = <<>>
          /\ \A n \in DOMAIN messages : Ends(n) => messages[n].turn # host.prompt
      BY <1>7, <2>1, <2>2 DEF Busy
    <3>2. \A n \in DOMAIN messages : messages[n].turn = host.prompt /\ ~Ends(n)
      BY <2>2, <3>1 DEF TurnInv, NothingLeft
    <3> QED BY <1>3, <1>4, <3>1, <3>2 DEF Ends
  <2>3. Ended /\ ~Busy => ~(host.prompt = 0 \/ outcome[host.prompt] = "ended")
    BY <1>7, <2>1
  <2> QED BY <1>2, <1>5, <2>2, <2>3 DEF NothingLeft
<1>11. Turn!TurnsKeptApart'
  BY <1>2, <1>9, ApartKept
<1> QED BY <1>6, <1>9, <1>10, <1>11 DEF TurnsPart

\* The process ends, the session is closed, or nothing of the turns changes.
LEMMA QuietTurns ==
    ASSUME TurnInv,
           \/ Turn!RuntimeExits \/ Turn!Shutdown
           \/ UNCHANGED <<runtime, frames, messages, call, host, outcome, misled>>
    PROVE  TurnsPart'
<1>1. /\ runtime'.turn = runtime.turn /\ frames' \in {frames, <<>>}
      /\ host'.prompt = host.prompt /\ host'.turn = host.turn
      /\ host' = host \/ (host.pc = "idle" /\ host'.pc = "closed")
      /\ UNCHANGED <<messages, call, outcome, misled>>
  <2>1. runtime \in [alive : BOOLEAN, turn : 0..MaxTurns, sent : 0..MaxMessages]
        /\ host \in Sessions
    BY DEF TurnInv, TurnTypes
  <2> QED BY <2>1 DEF Turn!RuntimeExits, Turn!Shutdown, Turn!history, Sessions
<1>2. (Settled' <=> Settled) /\ (Ended' <=> Ended) /\ (Busy' <=> Busy)
      /\ (Turn!IsOver(host.prompt)' <=> Turn!IsOver(host.prompt))
      /\ Frame("start")' = Frame("start") /\ Frame("interrupt")' = Frame("interrupt")
  BY <1>1, EarlierKept DEF Busy, Turn!IsOver, Frame
<1>3. NotAhead'
  BY <1>1, <1>2 DEF TurnInv, NotAhead, Busy
<1>4. TurnIsOwn'
  <2>1. CASE frames' = frames
    BY <1>1, <1>2, <2>1 DEF TurnInv, TurnIsOwn, Busy, Ends
  <2>2. CASE frames' = <<>>
    BY <1>1, <1>2, <2>2 DEF TurnInv, TurnIsOwn, Busy, Ends
  <2> QED BY <1>1, <2>1, <2>2
<1>5. NothingLeft'
  BY <1>1, <1>2 DEF TurnInv, NothingLeft, Busy, Ends
<1>6. Turn!TurnsKeptApart'
  BY <1>1, <1>4, ApartKept
<1> QED BY <1>3, <1>4, <1>5, <1>6 DEF TurnsPart

LEMMA TurnsNext ==
    ASSUME TurnInv, Turn!Next
    PROVE  TurnsPart'
<1> USE DEF Turn!wire, Turn!approval, Turn!history
<1>0. host \in Sessions /\ (host.pc = "driving" \/ host.pc = "approving" => call = None)
  BY DEF TurnInv, TurnTypes, CallShape
<1>1. ASSUME host.pc \in {"driving", "approving"}, GoesOn \/ Finishes("abandoned"),
             UNCHANGED <<runtime, frames, call>>, UNCHANGED <<messages, misled>> \/ Reads
      PROVE  TurnsPart'
  <2>1. CASE GoesOn
    BY <1>1, <2>1, GoesOnTurns DEF GoesOn
  <2>2. CASE Finishes("abandoned")
    <3>1. /\ host'.pc = "idle" /\ host'.prompt = host.prompt /\ host'.turn = host.turn
          /\ outcome' = [outcome EXCEPT ![host.prompt] = "abandoned"]
      BY <1>0, <2>2 DEF Finishes, Sessions
    <3> QED BY <1>0, <1>1, <3>1, AbandonedTurns DEF Busy
  <2> QED BY <1>1, <2>1, <2>2
<1>2. CASE Handles
  <2>1. CASE GoesOn \/ Finishes("abandoned")
    BY <1>1, <1>2, <2>1 DEF Handles, Reads
  <2>2. CASE Finishes("ended") /\ Ends(1)
    <3>1. /\ host'.pc = "idle" /\ host'.prompt = host.prompt /\ host'.turn = host.turn
          /\ outcome' = [outcome EXCEPT ![host.prompt] = "ended"]
      BY <1>0, <2>2 DEF Finishes, Sessions
    <3> QED BY <1>0, <1>2, <2>2, <3>1, OverTurns DEF Busy, Handles, Reads
  <2> QED BY <1>2, <2>1, <2>2 DEF Handles
<1>3. CASE Refuses \/ StopsWaiting
  BY <1>1, <1>3 DEF Refuses, StopsWaiting, Resolves, Reads
<1>4. CASE Shows
  <2>1. host'.pc = "approving" /\ host'.prompt = host.prompt /\ host'.turn = host.turn
    BY <1>0, <1>4 DEF Shows, Sessions
  <2> QED BY <1>4, <2>1, GoesOnTurns DEF Shows, Reads
<1>5. CASE Turn!StartFails
  <2>1. /\ host'.pc = "idle" /\ host'.prompt = host.prompt /\ host'.turn = host.turn
        /\ host.pc = "starting"
    BY <1>0, <1>5 DEF Turn!StartFails, Sessions
  <2> QED BY <1>5, <2>1, AbandonedTurns DEF Turn!StartFails, Busy
<1>6. CASE Turn!Interrupted \/ Turn!RuntimeIsGone
  <2>1. PICK result : /\ Turn!TurnEnds(result)
                      /\ \/ result = "abandoned"
                         \/ result = "interrupted" /\ host.pc = "interrupting" /\ call.answer # None
                      /\ host.pc \in {"driving", "interrupting"}
    BY <1>6 DEF Turn!Interrupted, Turn!RuntimeIsGone
  <2>2. /\ host'.pc = "idle" /\ host'.prompt = host.prompt /\ host'.turn = host.turn
        /\ outcome' = [outcome EXCEPT ![host.prompt] = result]
    BY <1>0, <2>1 DEF Turn!TurnEnds, Sessions
  <2>3. call' = None /\ UNCHANGED <<runtime, frames, messages, misled>>
    BY <1>0, <1>6 DEF Turn!Interrupted, Turn!RuntimeIsGone
  <2>4. CASE result = "abandoned"
    BY <2>1, <2>2, <2>3, <2>4, AbandonedTurns DEF Busy
  <2>5. CASE result = "interrupted" /\ host.pc = "interrupting" /\ call.answer # None
    BY <2>2, <2>3, <2>5, OverTurns DEF Busy
  <2> QED BY <2>1, <2>4, <2>5
<1>7. CASE Turn!RuntimeExits \/ Turn!Shutdown \/ Turn!SendVerdict
           \/ \E id \in Turn!Ids, decision \in Turn!Decisions : Turn!MarkDecided(id, decision)
  BY <1>7, QuietTurns DEF Turn!SendVerdict, Turn!MarkDecided
<1> QED BY <1>2, <1>3, <1>4, <1>5, <1>6, <1>7, NextIsTurnStep, TakeFrameTurns,
     SendMessageTurns, StartTurns, StartedTurns, TimesOutTurns DEF TurnStep

-----------------------------------------------------------------------------
(* The session: what holds                                                 *)

LEMMA TurnInit == Init => TurnInv
<1> SUFFICES ASSUME Init PROVE TurnInv
  OBVIOUS
<1>1. /\ runtime = [alive |-> TRUE, turn |-> 0, sent |-> 0]
      /\ frames = <<>> /\ messages = <<>> /\ call = None
      /\ host = [pc |-> "idle", prompt |-> 0, turn |-> 0, tools |-> 0, request |-> None]
      /\ slot = None /\ reply = None /\ ruling = None
      /\ trace = Turn!Record(Turn!Unread, Turn!SessionStarted)
      /\ outcome = [p \in Turn!Prompts |-> "none"]
      /\ misled = {} /\ approvals = {} /\ ruled = {}
  BY DEF Init, Turn!Init
<1>2. trace = [ok |-> TRUE, started |-> TRUE, finished |-> FALSE, open |-> FALSE, turns |-> <<>>]
  BY <1>1 DEF Turn!Record, Turn!Unread, Turn!SessionStarted, Turn!Ordered
<1>3. <<>> \in Seq(Frames) /\ <<>> \in Seq(Turn!Message) /\ <<>> \in Seq(0..MaxTurns)
  OBVIOUS
<1>4. TurnTypes
  <2>1. runtime \in [alive : BOOLEAN, turn : 0..MaxTurns, sent : 0..MaxMessages]
    BY <1>1, Bounds
  <2>2. host \in Sessions
    BY <1>1, Bounds DEF Sessions
  <2>3. trace \in Traces
    BY <1>2, <1>3 DEF Traces
  <2>4. outcome \in [Turn!Prompts -> Turn!Outcomes]
    BY <1>1 DEF Turn!Outcomes
  <2> QED BY <1>1, <1>3, <2>1, <2>2, <2>3, <2>4 DEF TurnTypes
<1>5. CallShape /\ VerdictsKept /\ Turn!GrantedByOwner
  BY <1>1 DEF CallShape, VerdictsKept, Turn!GrantedByOwner
<1>6. AskedInOrder
  BY <1>1 DEF AskedInOrder
<1>7. NotAhead
  BY <1>1 DEF NotAhead, Busy, Turn!Prompts
<1>8. TurnIsOwn /\ NothingLeft
  BY <1>1 DEF TurnIsOwn, NothingLeft, Busy
<1>9. Turn!TurnsKeptApart
  BY <1>1 DEF Turn!TurnsKeptApart
<1>10. TraceShape /\ Turn!TraceReplays
  BY <1>1, <1>2 DEF TraceShape, Turn!TraceReplays, Turn!Replayed
<1> QED BY <1>4, <1>5, <1>6, <1>7, <1>8, <1>9, <1>10 DEF TurnInv

LEMMA TurnNext == TurnInv /\ [Next]_vars => TurnInv'
<1> SUFFICES ASSUME TurnInv, [Next]_vars PROVE TurnInv'
  OBVIOUS
<1>1. CASE Turn!Next
  BY <1>1, TypesNext, ApprovalsNext, TurnsNext, TraceNext DEF TurnInv, TurnsPart
<1>2. CASE UNCHANGED turnVars
  <2>1. TurnTypes' /\ CallShape'
    BY <1>2 DEF turnVars, TurnInv, TurnTypes, CallShape
  <2>2. AskedInOrder' /\ VerdictsKept' /\ Turn!GrantedByOwner'
    BY <1>2 DEF turnVars, TurnInv, AskedInOrder, Asking, VerdictsKept, Turn!GrantedByOwner
  <2>3. TurnsPart'
    BY <1>2, QuietTurns DEF turnVars
  <2>4. TraceShape' /\ Turn!TraceReplays'
    BY <1>2, SameTrace DEF turnVars
  <2> QED BY <2>1, <2>2, <2>3, <2>4 DEF TurnInv, TurnsPart
<1> QED BY <1>1, <1>2 DEF Next, OfTurn, OfClient, OfLive, vars

THEOREM TurnInvariant == FairSpec => []TurnInv
BY TurnInit, TurnNext, PTL DEF FairSpec

-----------------------------------------------------------------------------
(* The client: what is written is read in order                            *)

Messages == [id : Client!Ids, method : {"request"}] \cup [id : {0}, method : {"notification"}]
Lines == Client!OwnLines \cup [id : Client!Ids, method : {None}, ok : BOOLEAN]

IsMessage(line) == line.method \in {"request", "notification"}

\* The messages among the lines s are those of t behind the first k, in order: g says
\* which line each of them is.
Thread(g, s, t, k) ==
    /\ g \in [1..Len(t) - k -> 1..Len(s)]
    /\ \A i, j \in 1..Len(t) - k : i < j => g[i] < g[j]
    /\ \A i \in 1..Len(t) - k : s[g[i]] = t[k + i]
    /\ \A n \in 1..Len(s) : IsMessage(s[n]) => \E i \in 1..Len(t) - k : g[i] = n

LEMMA MessagesAreMessages ==
    /\ \A m \in Messages : IsMessage(m) /\ m \in Lines /\ ~Client!IsResponse(m)
    /\ \A l \in Lines : /\ IsMessage(l) => l \in Messages
                        /\ Client!IsResponse(l) => ~IsMessage(l)
                        /\ l.method = "noise" => ~IsMessage(l) /\ ~Client!IsResponse(l)
                        /\ Client!IsResponse(l) \/ IsMessage(l) \/ l.method = "noise"
BY AnalysisAssumption
   DEF Client!ClientAssumption, Messages, Lines, Client!OwnLines, IsMessage, Client!IsResponse

\* Another line that is no message.
LEMMA QuietLine ==
    ASSUME NEW s \in Seq(Lines), NEW t \in Seq(Messages), NEW k \in 0..Len(t), NEW g,
           Thread(g, s, t, k), NEW l \in Lines, ~IsMessage(l)
    PROVE  Thread(g, Append(s, l), t, k)
<1>1. /\ Len(Append(s, l)) = Len(s) + 1 /\ Len(s) \in Nat
      /\ \A n \in 1..Len(s) : Append(s, l)[n] = s[n]
      /\ Append(s, l)[Len(s) + 1] = l
  OBVIOUS
<1>2. g \in [1..Len(t) - k -> 1..Len(s) + 1]
  BY <1>1 DEF Thread
<1>3. \A i \in 1..Len(t) - k : g[i] \in 1..Len(s)
  BY DEF Thread
<1>4. \A i \in 1..Len(t) - k : Append(s, l)[g[i]] = t[k + i]
  BY <1>1, <1>3 DEF Thread
<1>5. \A n \in 1..Len(s) + 1 :
          IsMessage(Append(s, l)[n]) => n \in 1..Len(s) /\ IsMessage(s[n])
  BY <1>1
<1>6. \A n \in 1..Len(s) + 1 :
          IsMessage(Append(s, l)[n]) => \E i \in 1..Len(t) - k : g[i] = n
  BY <1>5 DEF Thread
<1> QED BY <1>1, <1>2, <1>4, <1>6 DEF Thread

\* Another message.
LEMMA NewLine ==
    ASSUME NEW s \in Seq(Lines), NEW t \in Seq(Messages), NEW k \in 0..Len(t), NEW g,
           Thread(g, s, t, k), NEW l \in Messages
    PROVE  Thread([i \in 1..Len(t) + 1 - k |-> IF i = Len(t) + 1 - k THEN Len(s) + 1 ELSE g[i]],
                  Append(s, l), Append(t, l), k)
<1> DEFINE N == Len(t) + 1 - k
           h == [i \in 1..N |-> IF i = N THEN Len(s) + 1 ELSE g[i]]
<1>1. /\ l \in Lines /\ Len(s) \in Nat /\ Len(t) \in Nat /\ k \in Nat /\ k <= Len(t)
      /\ Len(Append(s, l)) = Len(s) + 1
      /\ \A n \in 1..Len(s) : Append(s, l)[n] = s[n]
      /\ Append(s, l)[Len(s) + 1] = l
  BY MessagesAreMessages
<1>2. /\ Len(Append(t, l)) = Len(t) + 1
      /\ \A n \in 1..Len(t) : Append(t, l)[n] = t[n]
      /\ Append(t, l)[Len(t) + 1] = l
  OBVIOUS
<1>3. N \in Nat /\ N >= 1 /\ N - 1 = Len(t) - k /\ k + N = Len(t) + 1
      /\ \A i \in 1..N : i = N \/ i \in 1..N - 1
  BY <1>1
<1>4. g \in [1..N - 1 -> 1..Len(s)]
  BY <1>3 DEF Thread
<1>5. N = Len(t) + 1 - k
  OBVIOUS
<1> HIDE DEF N
<1>6. \A i \in 1..N - 1 : i \in 1..N /\ i # N
  BY <1>3
<1>7. N \in 1..N
  BY <1>3
<1>8. h[N] = Len(s) + 1
  BY <1>7
<1>9. \A i \in 1..N - 1 : h[i] = g[i]
  BY <1>6
<1>10. h[N] = Len(s) + 1 /\ \A i \in 1..N - 1 : h[i] = g[i] /\ h[i] \in 1..Len(s)
  BY <1>4, <1>8, <1>9
<1>11. h \in [1..N -> 1..Len(s) + 1]
  <2>1. \A i \in 1..N - 1 : g[i] \in 1..Len(s) + 1
    BY <1>1, <1>4
  <2>2. Len(s) + 1 \in 1..Len(s) + 1
    BY <1>1
  <2>3. \A i \in 1..N : (IF i = N THEN Len(s) + 1 ELSE g[i]) \in 1..Len(s) + 1
    BY <1>3, <2>1, <2>2
  <2> QED BY <2>3
<1> HIDE DEF h
<1>12. \A i, j \in 1..N : i < j => h[i] < h[j]
  <2>1. SUFFICES ASSUME NEW i \in 1..N, NEW j \in 1..N, i < j PROVE h[i] < h[j]
    OBVIOUS
  <2>2. i \in 1..N - 1
    BY <1>3, <2>1
  <2>3. CASE j = N
    BY <1>1, <1>10, <2>2, <2>3
  <2>4. CASE j \in 1..N - 1
    BY <1>3, <1>10, <2>1, <2>2, <2>4 DEF Thread
  <2> QED BY <1>3, <2>3, <2>4
<1>13. \A i \in 1..N : Append(s, l)[h[i]] = Append(t, l)[k + i]
  <2>1. ASSUME NEW i \in 1..N - 1
        PROVE  Append(s, l)[h[i]] = Append(t, l)[k + i]
    <3>1. k + i \in 1..Len(t)
      BY <1>1, <1>3
    <3> QED BY <1>1, <1>2, <1>3, <1>10, <3>1 DEF Thread
  <2> QED BY <1>1, <1>2, <1>3, <1>10, <2>1
<1>14. ASSUME NEW n \in 1..Len(s) + 1, IsMessage(Append(s, l)[n])
      PROVE  \E i \in 1..N : h[i] = n
  <2>1. CASE n = Len(s) + 1
    BY <1>3, <1>10, <2>1
  <2>2. CASE n \in 1..Len(s)
    <3>1. PICK i \in 1..N - 1 : g[i] = n
      BY <1>1, <1>3, <1>14, <2>2 DEF Thread
    <3>2. i \in 1..N /\ h[i] = n
      BY <1>6, <1>10, <3>1
    <3> QED BY <3>2
  <2> QED BY <1>1, <2>1, <2>2
<1>15. Len(Append(t, l)) - k = N
  BY <1>1, <1>2, <1>5
<1>16. Thread(h, Append(s, l), Append(t, l), k)
  BY <1>1, <1>11, <1>12, <1>13, <1>14, <1>15 DEF Thread
<1> QED BY <1>16 DEF h, N

\* The first line is read: it is the next message, or none at all.
LEMMA SkippedLine ==
    ASSUME NEW s \in Seq(Lines), s # <<>>, NEW t \in Seq(Messages), NEW k \in 0..Len(t), NEW g,
           Thread(g, s, t, k), ~IsMessage(s[1])
    PROVE  \E h : Thread(h, Tail(s), t, k)
<1> DEFINE N == Len(t) - k
           h == [i \in 1..N |-> g[i] - 1]
<1>1. /\ Len(s) \in Nat /\ Len(s) >= 1 /\ Len(Tail(s)) = Len(s) - 1
      /\ \A n \in 1..Len(s) - 1 : Tail(s)[n] = s[n + 1]
      /\ N \in Nat /\ Len(t) \in Nat /\ k \in Nat /\ k <= Len(t)
  OBVIOUS
<1>2. \A i \in 1..N : g[i] \in 2..Len(s) /\ h[i] = g[i] - 1
  <2>1. ASSUME NEW i \in 1..N
        PROVE  g[i] \in 1..Len(s) /\ g[i] # 1
    <3>1. g[i] \in 1..Len(s) /\ s[g[i]] = t[k + i]
      BY DEF Thread
    <3>2. t[k + i] \in Messages
      BY <1>1
    <3> QED BY <3>1, <3>2, MessagesAreMessages
  <2> QED BY <1>1, <2>1
<1>3. h \in [1..N -> 1..Len(s) - 1]
  BY <1>1, <1>2
<1> HIDE DEF h
<1>4. \A i, j \in 1..N : i < j => h[i] < h[j]
  BY <1>1, <1>2 DEF Thread
<1>5. \A i \in 1..N : Tail(s)[h[i]] = t[k + i]
  BY <1>1, <1>2 DEF Thread
<1>6. ASSUME NEW n \in 1..Len(s) - 1, IsMessage(Tail(s)[n])
      PROVE  \E i \in 1..N : h[i] = n
  <2>1. n + 1 \in 1..Len(s) /\ IsMessage(s[n + 1])
    BY <1>1, <1>6
  <2>2. PICK i \in 1..N : g[i] = n + 1
    BY <2>1 DEF Thread
  <2>3. h[i] = n
    BY <1>1, <1>2, <2>2
  <2> QED BY <2>3
<1>7. Thread(h, Tail(s), t, k)
  BY <1>1, <1>3, <1>4, <1>5, <1>6 DEF Thread
<1> QED BY <1>7

LEMMA ReadMessageLine ==
    ASSUME NEW s \in Seq(Lines), s # <<>>, NEW t \in Seq(Messages), NEW k \in 0..Len(t), NEW g,
           Thread(g, s, t, k), IsMessage(s[1])
    PROVE  /\ k + 1 \in 0..Len(t) /\ t[k + 1] = s[1]
           /\ \E h : Thread(h, Tail(s), t, k + 1)
<1> DEFINE N == Len(t) - k
           h == [i \in 1..N - 1 |-> g[i + 1] - 1]
<1>1. /\ Len(s) \in Nat /\ Len(s) >= 1 /\ Len(Tail(s)) = Len(s) - 1
      /\ \A n \in 1..Len(s) - 1 : Tail(s)[n] = s[n + 1]
      /\ N \in Nat /\ Len(t) \in Nat /\ k \in Nat /\ k <= Len(t)
  OBVIOUS
<1>2. PICK i \in 1..N : g[i] = 1
  BY <1>1 DEF Thread
<1>3. \A j \in 1..N : g[j] \in 1..Len(s)
  BY DEF Thread
<1>4. i = 1 /\ 1 \in 1..N /\ g[1] = 1
  <2>1. 1 \in 1..N
    BY <1>1, <1>2
  <2>2. ~(1 < i)
    BY <1>1, <1>2, <1>3, <2>1 DEF Thread
  <2> QED BY <1>1, <1>2, <2>1, <2>2
<1>5. k + 1 \in 0..Len(t) /\ t[k + 1] = s[1]
  <2>1. s[g[1]] = t[k + 1]
    BY <1>4 DEF Thread
  <2> QED BY <1>1, <1>4, <2>1
<1>6. \A j \in 1..N - 1 : j + 1 \in 1..N /\ g[j + 1] \in 2..Len(s) /\ h[j] = g[j + 1] - 1
  <2>1. ASSUME NEW j \in 1..N - 1
        PROVE  j + 1 \in 1..N /\ g[j + 1] \in 1..Len(s) /\ g[j + 1] > 1
    <3>1. j + 1 \in 1..N /\ 1 < j + 1
      BY <1>1
    <3>2. g[1] < g[j + 1]
      BY <1>4, <3>1 DEF Thread
    <3> QED BY <1>3, <1>4, <3>1, <3>2
  <2> QED BY <1>1, <2>1
<1>7. h \in [1..N - 1 -> 1..Len(s) - 1]
  <2>1. \A j \in 1..N - 1 : g[j + 1] - 1 \in 1..Len(s) - 1
    <3>1. SUFFICES ASSUME NEW j \in 1..N - 1 PROVE g[j + 1] - 1 \in 1..Len(s) - 1
      OBVIOUS
    <3>2. PICK n \in Int : n = g[j + 1] /\ n \in 2..Len(s)
      BY <1>6
    <3>3. Len(s) \in Nat
      BY <1>1
    <3> QED BY <3>2, <3>3
  <2> HIDE DEF N
  <2> QED BY <2>1
<1> HIDE DEF h
<1>8. \A a, b \in 1..N - 1 : a < b => h[a] < h[b]
  <2>1. SUFFICES ASSUME NEW a \in 1..N - 1, NEW b \in 1..N - 1, a < b PROVE h[a] < h[b]
    OBVIOUS
  <2>2. a + 1 < b + 1 /\ a + 1 \in 1..N /\ b + 1 \in 1..N
    BY <1>1, <2>1
  <2>3. g[a + 1] < g[b + 1]
    BY <2>2 DEF Thread
  <2> QED BY <1>6, <2>3
<1>9. \A j \in 1..N - 1 : Tail(s)[h[j]] = t[k + 1 + j]
  <2>1. SUFFICES ASSUME NEW j \in 1..N - 1 PROVE Tail(s)[h[j]] = t[k + 1 + j]
    OBVIOUS
  <2>2. s[g[j + 1]] = t[k + (j + 1)]
    BY <1>6 DEF Thread
  <2>3. Tail(s)[h[j]] = s[g[j + 1]]
    <3>1. PICK n \in 2..Len(s) : n = g[j + 1] /\ h[j] = n - 1
      BY <1>6
    <3>2. n - 1 \in 1..Len(s) - 1 /\ (n - 1) + 1 = n
      BY <1>1
    <3>3. Tail(s)[n - 1] = s[(n - 1) + 1]
      BY <1>1, <3>2
    <3> QED BY <3>1, <3>2, <3>3
  <2>4. k + (j + 1) = k + 1 + j
    BY <1>1
  <2> QED BY <2>2, <2>3, <2>4
<1>10. ASSUME NEW n \in 1..Len(s) - 1, IsMessage(Tail(s)[n])
      PROVE  \E j \in 1..N - 1 : h[j] = n
  <2>1. n + 1 \in 1..Len(s) /\ IsMessage(s[n + 1]) /\ n + 1 # 1
    BY <1>1, <1>10
  <2>2. PICK j \in 1..N : g[j] = n + 1
    BY <2>1 DEF Thread
  <2>3. j # 1
    BY <1>4, <2>1, <2>2
  <2>4. j - 1 \in 1..N - 1 /\ (j - 1) + 1 = j
    BY <1>1, <2>3
  <2>5. h[j - 1] = g[j] - 1
    BY <1>6, <2>4
  <2> QED BY <2>2, <2>4, <2>5
<1>11. Len(t) - (k + 1) = N - 1
  BY <1>1
<1>12. Thread(h, Tail(s), t, k + 1)
  BY <1>1, <1>7, <1>8, <1>9, <1>10, <1>11 DEF Thread
<1> QED BY <1>5, <1>12

-----------------------------------------------------------------------------
(* The client: its invariant                                               *)

Received == heard \o incoming

Clients == [pc : {"idle", "waiting", "closing", "gone"}, id : 0..MaxRequests, step : Nat,
            wrong : BOOLEAN]

\* Each variable of the client is in its range.
ClientTypes ==
    /\ group \subseteq {"main", "helper"}
    /\ asked \subseteq Client!Ids /\ stdin \in Seq(Client!Ids)
    /\ stdout \in Seq(Lines) /\ written \in Seq(Messages)
    /\ reader \in {"reading", "ended", "aborted"}
    /\ pending \subseteq Client!Ids
    /\ incoming \in Seq(Messages) /\ heard \in Seq(Messages)
    /\ client \in Clients

\* An answer that waits is the one to the call that waits for it, and the reader ends
\* after the last process.
AnswerKept ==
    /\ client.pc = "waiting" /\ answer # None =>
          /\ pending = {}
          /\ answer = Client!Closed \/ (answer.id = client.id /\ answer.method = None)
    /\ reader = "ended" => group = {}

\* The session has got the first messages that were written, and the others are among the
\* lines still to be read.
NoneLost ==
    /\ Len(Received) <= Len(written)
    /\ \A i \in 1..Len(Received) : Received[i] = written[i]
    /\ reader = "reading" => \E g : Thread(g, stdout, written, Len(Received))
    /\ reader = "ended" => Len(Received) = Len(written)

ClientInv ==
    /\ ClientTypes
    /\ Client!AnswersMatch /\ AnswerKept
    /\ Client!NoProcessLeft
    /\ NoneLost

-----------------------------------------------------------------------------
(* The client: its steps                                                   *)

\* A call returns to the client, or drops it.
LEMMA ReturnsOrDrops ==
    ASSUME ClientTypes, NEW ok, NEW wrong \in BOOLEAN, Client!Returns(ok, wrong)
    PROVE  /\ client' \in Clients /\ client'.id = client.id
           /\ client'.wrong = (client.wrong \/ wrong)
           /\ \/ client'.pc = "idle" /\ UNCHANGED <<group, asked, stdin, reader>>
              \/ client'.pc = "gone" /\ Client!Drop
<1> DEFINE lives == ok \/ Client!Ready \/ Client!StartSteps[client.step + 1] = "skills/list"
<1>1. client \in Clients
  BY DEF ClientTypes
<1>2. \E p \in {"idle", "gone"}, s \in {client.step, client.step + 1} :
          /\ client' = [client EXCEPT !.pc = p, !.step = s, !.wrong = client.wrong \/ wrong]
          /\ \/ p = "idle" /\ UNCHANGED <<group, asked, stdin, reader>>
             \/ p = "gone" /\ Client!Drop
  <2>1. CASE lives
    BY <2>1 DEF Client!Returns, Client!processes
  <2>2. CASE ~lives
    BY <2>2 DEF Client!Returns
  <2> HIDE DEF lives
  <2> QED BY <2>1, <2>2
<1> HIDE DEF lives
<1>3. PICK p \in {"idle", "gone"}, s \in {client.step, client.step + 1} :
          /\ client' = [client EXCEPT !.pc = p, !.step = s, !.wrong = client.wrong \/ wrong]
          /\ \/ p = "idle" /\ UNCHANGED <<group, asked, stdin, reader>>
             \/ p = "gone" /\ Client!Drop
  BY <1>2
<1>4. s \in Nat /\ (client.wrong \/ wrong) \in BOOLEAN
  BY <1>1 DEF Clients
<1> QED BY <1>1, <1>3, <1>4 DEF Clients

\* The client acts: it asks, or a call of its own ends, or it stops.
Acts ==
    /\ \/ /\ client.pc = "idle" /\ client'.pc = "waiting" /\ "main" \in group
          /\ client'.wrong = client.wrong
          /\ pending' = pending \cup {client'.id} /\ answer' = None
          /\ UNCHANGED <<group, asked, reader>>
       \/ /\ client.pc # "waiting" /\ client'.pc \in {"idle", "closing"}
          /\ client'.wrong = client.wrong
          /\ UNCHANGED <<pending, answer, group, asked, stdin, reader>>
       \/ /\ client.pc # "waiting" /\ client'.pc = "gone" /\ Client!Drop
          /\ client'.wrong = client.wrong
          /\ UNCHANGED <<pending, answer>>
       \/ /\ client.pc = "waiting" /\ client'.wrong = client.wrong
          /\ pending' = {}
          /\ \/ client'.pc = "idle" /\ UNCHANGED <<group, asked, stdin, reader>>
             \/ client'.pc = "gone" /\ Client!Drop
    /\ client' \in Clients /\ client'.id \in 0..MaxRequests
    /\ client'.pc = "waiting" => client'.id \in Client!Ids /\ stdin' = Append(stdin, client'.id)
    /\ UNCHANGED <<stdout, written>>
    /\ incoming' \in Seq(Messages) /\ heard' \in Seq(Messages) /\ Received' = Received

LEMMA ClientActs ==
    ASSUME ClientInv,
           \/ Client!Request \/ Client!Answered \/ Client!TimesOut \/ Client!NextMessage
           \/ Client!Shutdown \/ Client!ShutdownEnds
    PROVE  Acts
<1> USE DEF Client!processes
<1>0. /\ client \in Clients /\ incoming \in Seq(Messages) /\ heard \in Seq(Messages)
      /\ client.wrong = FALSE /\ MaxRequests \in Nat
  BY AnalysisAssumption DEF ClientInv, ClientTypes, Client!AnswersMatch, Client!ClientAssumption,
     Clients
<1>1. CASE Client!Request
  <2>1. /\ client.pc = "idle" /\ client.id + 1 \in 0..MaxRequests /\ client.id + 1 \in Client!Ids
        /\ UNCHANGED <<stdout, written, incoming, heard>> /\ Received' = Received
    BY <1>0, <1>1 DEF Client!Request, Clients, Client!Ids, Received
  <2>2. CASE "main" \in group
    <3>1. /\ client' = [client EXCEPT !.pc = "waiting", !.id = client.id + 1]
          /\ pending' = pending \cup {client.id + 1} /\ answer' = None
          /\ stdin' = Append(stdin, client.id + 1)
          /\ UNCHANGED <<group, asked, reader>>
      BY <1>1, <2>2 DEF Client!Request
    <3>2. /\ client' \in Clients /\ client'.pc = "waiting" /\ client'.id = client.id + 1
          /\ client'.wrong = client.wrong
      BY <1>0, <2>1, <3>1 DEF Clients
    <3> QED BY <1>0, <2>1, <2>2, <3>1, <3>2 DEF Acts
  <2>3. CASE "main" \notin group
    <3>1. PICK p \in {"idle", "gone"} :
              /\ client' = [client EXCEPT !.pc = p, !.id = client.id + 1]
              /\ \/ p = "idle" /\ UNCHANGED <<group, asked, stdin, reader>>
                 \/ p = "gone" /\ Client!Drop
              /\ UNCHANGED <<pending, answer>>
      <4>1. CASE Client!Ready
        BY <1>1, <2>3, <4>1 DEF Client!Request
      <4>2. CASE ~Client!Ready
        BY <1>1, <2>3, <4>2 DEF Client!Request
      <4> QED BY <4>1, <4>2
    <3>2. /\ client' \in Clients /\ client'.pc = p /\ client'.id = client.id + 1
          /\ client'.wrong = client.wrong
      BY <1>0, <2>1, <3>1 DEF Clients
    <3> QED BY <1>0, <2>1, <3>1, <3>2 DEF Acts
  <2> QED BY <2>2, <2>3
<1>2. CASE Client!Answered
  <2>1. /\ client.pc = "waiting" /\ answer # None
        /\ pending' = pending
        /\ UNCHANGED <<stdout, written, incoming, heard>> /\ Received' = Received
    BY <1>2 DEF Client!Answered, Received
  <2>2. (answer # Client!Closed /\ (answer.id # client.id \/ answer.method # None)) = FALSE
    BY <2>1 DEF ClientInv, AnswerKept
  <2>3. Client!Returns(answer.ok, FALSE)
    BY <1>2, <2>2 DEF Client!Answered
  <2>4. pending = {}
    BY <2>1 DEF ClientInv, AnswerKept
  <2>5. /\ client' \in Clients /\ client'.id = client.id
        /\ client'.wrong = (client.wrong \/ FALSE)
        /\ \/ client'.pc = "idle" /\ UNCHANGED <<group, asked, stdin, reader>>
           \/ client'.pc = "gone" /\ Client!Drop
    BY <2>3, ReturnsOrDrops DEF ClientInv
  <2> QED BY <1>0, <2>1, <2>4, <2>5 DEF Acts, Clients
<1>3. CASE Client!TimesOut
  <2>1. /\ client.pc = "waiting" /\ answer' = answer
        /\ pending' = pending \ {client.id} /\ Client!Returns(FALSE, FALSE)
        /\ UNCHANGED <<stdout, written, incoming, heard>> /\ Received' = Received
    BY <1>3 DEF Client!TimesOut, Received
  <2>2. pending' = {}
    BY <2>1 DEF ClientInv, Client!AnswersMatch
  <2>3. /\ client' \in Clients /\ client'.id = client.id
        /\ client'.wrong = (client.wrong \/ FALSE)
        /\ \/ client'.pc = "idle" /\ UNCHANGED <<group, asked, stdin, reader>>
           \/ client'.pc = "gone" /\ Client!Drop
    BY <2>1, ReturnsOrDrops DEF ClientInv
  <2> QED BY <1>0, <2>1, <2>2, <2>3 DEF Acts, Clients
<1>4. CASE Client!NextMessage
  <2>1. /\ client.pc = "idle" /\ incoming # <<>>
        /\ heard' = Append(heard, Head(incoming)) /\ incoming' = Tail(incoming)
        /\ UNCHANGED <<group, asked, stdin, stdout, written, reader, pending, answer, client>>
    BY <1>4 DEF Client!NextMessage
  <2>2. Head(incoming) \in Messages /\ Tail(incoming) \in Seq(Messages)
    BY <1>0, <2>1
  <2>3. Append(heard, Head(incoming)) \in Seq(Messages)
    BY <1>0, <2>2
  <2>4. Append(heard, Head(incoming)) \o Tail(incoming) = heard \o incoming
    BY <1>0, <2>1, <2>2
  <2> QED BY <1>0, <2>1, <2>2, <2>3, <2>4 DEF Acts, Received, Clients
<1>5. CASE Client!Shutdown
  BY <1>0, <1>5 DEF Client!Shutdown, Acts, Received, Clients
<1>6. CASE Client!ShutdownEnds
  BY <1>0, <1>6 DEF Client!ShutdownEnds, Acts, Received, Clients
<1> QED BY <1>1, <1>2, <1>3, <1>4, <1>5, <1>6

LEMMA ActsKeeps == ASSUME ClientInv, Acts PROVE ClientInv'
<1>1. /\ client.pc # "waiting" => pending = {}
      /\ ~client.wrong /\ pending \subseteq {client.id}
      /\ reader = "ended" => pending = {} /\ group = {}
      /\ client.pc = "gone" => group = {}
  BY DEF ClientInv, Client!AnswersMatch, AnswerKept, Client!NoProcessLeft
<1>2. Client!Drop => /\ group' = {} /\ stdin' = <<>> /\ asked' = {}
                     /\ reader' = (IF reader = "reading" THEN "aborted" ELSE reader)
  BY DEF Client!Drop
<1>3. reader' \in {"reading", "ended", "aborted"} /\ (reader' # "aborted" => reader' = reader)
  BY <1>2 DEF Acts, ClientInv, ClientTypes
<1>4. ClientTypes'
  <2>1. stdin' \in Seq(Client!Ids)
    <3>1. <<>> \in Seq(Client!Ids)
      OBVIOUS
    <3>2. stdin \in Seq(Client!Ids)
      BY DEF ClientInv, ClientTypes
    <3>3. stdin' = stdin \/ stdin' = <<>>
          \/ (client'.id \in Client!Ids /\ stdin' = Append(stdin, client'.id))
      BY <1>2 DEF Acts
    <3>4. CASE client'.id \in Client!Ids /\ stdin' = Append(stdin, client'.id)
      <4>1. PICK id \in Client!Ids : stdin' = Append(stdin, id)
        BY <3>4
      <4> QED BY <3>2, <4>1
    <3> QED BY <3>1, <3>2, <3>3, <3>4
  <2>2. pending' \subseteq Client!Ids
    BY <1>1 DEF Acts, ClientInv, ClientTypes
  <2>3. group' \subseteq {"main", "helper"} /\ asked' \subseteq Client!Ids
    BY <1>2 DEF Acts, ClientInv, ClientTypes
  <2> QED BY <1>3, <2>1, <2>2, <2>3 DEF Acts, ClientInv, ClientTypes
<1>5. Client!AnswersMatch'
  BY <1>1, <1>2, <1>3 DEF Acts, Client!AnswersMatch
<1>6. AnswerKept'
  BY <1>1, <1>2, <1>3 DEF Acts, AnswerKept
<1>7. Client!NoProcessLeft'
  BY <1>1, <1>2 DEF Acts, Client!NoProcessLeft
<1>8. NoneLost'
  BY <1>3 DEF Acts, ClientInv, NoneLost
<1> QED BY <1>4, <1>5, <1>6, <1>7, <1>8 DEF ClientInv

\* The processes of the group: they read, start and end.
LEMMA ProcessesKeep ==
    ASSUME ClientInv,
           \/ Client!ReadFrame \/ Client!HelperStarts
           \/ \E p \in {"main", "helper"} : Client!ProcessEnds(p)
    PROVE  ClientInv'
<1>1. /\ UNCHANGED <<stdout, written, reader, pending, answer, incoming, heard, client>>
      /\ Received' = Received
  BY DEF Client!ReadFrame, Client!HelperStarts, Client!ProcessEnds, Received
<1>2. /\ group' \subseteq {"main", "helper"} /\ (group = {} => group' = {})
      /\ asked' \subseteq Client!Ids /\ stdin' \in Seq(Client!Ids)
  <2>1. /\ stdin \in Seq(Client!Ids) /\ asked \subseteq Client!Ids
        /\ group \subseteq {"main", "helper"} /\ <<>> \in Seq(Client!Ids)
    BY DEF ClientInv, ClientTypes
  <2>2. CASE Client!ReadFrame
    <3>1. stdin # <<>>
      BY <2>2 DEF Client!ReadFrame
    <3>2. Head(stdin) \in Client!Ids /\ Tail(stdin) \in Seq(Client!Ids)
      BY <2>1, <3>1
    <3> QED BY <2>1, <2>2, <3>2 DEF Client!ReadFrame
  <2>3. CASE Client!HelperStarts
    BY <2>1, <2>3 DEF Client!HelperStarts
  <2>4. CASE \E p \in {"main", "helper"} : Client!ProcessEnds(p)
    BY <2>1, <2>4 DEF Client!ProcessEnds
  <2> QED BY <2>2, <2>3, <2>4
<1>3. ClientTypes'
  BY <1>1, <1>2 DEF ClientInv, ClientTypes
<1>4. Client!AnswersMatch' /\ AnswerKept' /\ Client!NoProcessLeft'
  BY <1>1, <1>2 DEF ClientInv, Client!AnswersMatch, AnswerKept, Client!NoProcessLeft
<1>5. NoneLost'
  BY <1>1 DEF ClientInv, NoneLost
<1> QED BY <1>3, <1>4, <1>5 DEF ClientInv

\* A line is written.
LEMMA LinesKeep ==
    ASSUME ClientInv,
           \/ \E id \in Client!Ids : Client!Reply(id)
           \/ \E line \in Client!OwnLines : Client!Write(line)
    PROVE  ClientInv'
<1> USE DEF Client!processes
<1>1. PICK line \in Lines :
          /\ stdout' = Append(stdout, line)
          /\ \/ ~IsMessage(line) /\ written' = written
             \/ line \in Messages /\ written' = Append(written, line)
  <2>1. CASE \E id \in Client!Ids : Client!Reply(id)
    <3>1. PICK id \in Client!Ids, ok \in BOOLEAN :
              /\ stdout' = Append(stdout, [id |-> id, method |-> None, ok |-> ok])
              /\ written' = written
      BY <2>1 DEF Client!Reply
    <3>2. [id |-> id, method |-> None, ok |-> ok] \in Lines
          /\ Client!IsResponse([id |-> id, method |-> None, ok |-> ok])
      BY DEF Lines, Client!IsResponse
    <3> QED BY <3>1, <3>2, MessagesAreMessages
  <2>2. CASE \E line \in Client!OwnLines : Client!Write(line)
    <3>1. PICK line \in Client!OwnLines : Client!Write(line)
      BY <2>2
    <3>2. line \in Lines /\ (line.method = "noise" \/ line \in Messages)
      BY DEF Lines, Messages, Client!OwnLines
    <3>3. line.method = "noise" => ~IsMessage(line)
      BY <3>2, MessagesAreMessages
    <3>4. line \in Messages => line.method # "noise"
      BY DEF Messages
    <3> QED BY <3>1, <3>2, <3>3, <3>4 DEF Client!Write
  <2> QED BY <2>1, <2>2
<1>2. /\ asked' \subseteq asked /\ "main" \in group
      /\ UNCHANGED <<group, stdin, reader, pending, answer, incoming, heard, client>>
      /\ Received' = Received
  BY DEF Client!Reply, Client!Write, Received
<1>3. stdout \in Seq(Lines) /\ written \in Seq(Messages) /\ heard \in Seq(Messages)
      /\ incoming \in Seq(Messages)
  BY DEF ClientInv, ClientTypes
<1>4. ClientTypes'
  <2>1. stdout' \in Seq(Lines)
    BY <1>1, <1>3
  <2>2. written' \in Seq(Messages)
    <3>1. CASE line \in Messages /\ written' = Append(written, line)
      BY <1>3, <3>1
    <3> QED BY <1>1, <1>3, <3>1
  <2> QED BY <1>2, <2>1, <2>2 DEF ClientInv, ClientTypes
<1>5. Client!AnswersMatch' /\ AnswerKept' /\ Client!NoProcessLeft'
  BY <1>2 DEF ClientInv, Client!AnswersMatch, AnswerKept, Client!NoProcessLeft
<1>6. NoneLost'
  <2> DEFINE k == Len(Received)
  <2>1. k \in 0..Len(written) /\ \A i \in 1..k : Received[i] = written[i]
    BY <1>3 DEF ClientInv, NoneLost, Received
  <2>2. reader # "ended"
    BY <1>2 DEF ClientInv, AnswerKept
  <2>3. /\ k \in 0..Len(written')
        /\ \A i \in 1..k : Received[i] = written'[i]
    <3>1. Len(written) \in Nat /\ Len(written') \in Nat /\ Len(written) <= Len(written')
          /\ \A i \in 1..Len(written) : written'[i] = written[i]
      <4>1. CASE line \in Messages /\ written' = Append(written, line)
        BY <1>3, <4>1
      <4>2. CASE written' = written
        BY <1>3, <4>2
      <4> QED BY <1>1, <4>1, <4>2
    <3> HIDE DEF k
    <3> QED BY <2>1, <3>1
  <2>4. ASSUME reader = "reading"
        PROVE  \E g : Thread(g, stdout', written', k)
    <3>1. PICK g : Thread(g, stdout, written, k)
      BY <2>4 DEF ClientInv, NoneLost
    <3> HIDE DEF k
    <3>2. CASE ~IsMessage(line) /\ written' = written
      <4>1. Thread(g, Append(stdout, line), written, k)
        BY <1>3, <2>1, <3>1, <3>2, QuietLine
      <4> QED BY <1>1, <3>2, <4>1
    <3>3. CASE line \in Messages /\ written' = Append(written, line)
      <4>1. \E h : Thread(h, Append(stdout, line), Append(written, line), k)
        BY <1>3, <2>1, <3>1, <3>3, NewLine
      <4> QED BY <1>1, <3>3, <4>1
    <3> QED BY <1>1, <3>2, <3>3
  <2> QED BY <1>2, <2>2, <2>3, <2>4 DEF NoneLost
<1> QED BY <1>4, <1>5, <1>6 DEF ClientInv

\* A line is read: an answer goes to the call that waits for it, a message to the session.
LEMMA ReadLineKeeps ==
    ASSUME ClientInv, Client!ReadLine
    PROVE  ClientInv'
<1> DEFINE line == stdout[1]
           k == Len(Received)
<1>1. /\ stdout \in Seq(Lines) /\ stdout # <<>> /\ written \in Seq(Messages)
      /\ heard \in Seq(Messages) /\ incoming \in Seq(Messages)
  BY DEF ClientInv, ClientTypes, Client!ReadLine
<1>2. line \in Lines /\ Head(stdout) = line /\ Tail(stdout) \in Seq(Lines)
  BY <1>1
<1>3. /\ stdout' = Tail(stdout) /\ reader = "reading"
      /\ UNCHANGED <<group, asked, stdin, written, reader, heard, client>>
  BY DEF Client!ReadLine, Client!processes
<1>4. \/ /\ Client!IsResponse(line) /\ ~IsMessage(line)
         /\ pending' = pending \ {line.id}
         /\ answer' = IF line.id \in pending THEN line ELSE answer
         /\ incoming' = incoming
      \/ /\ line \in Messages /\ incoming' = Append(incoming, line)
         /\ UNCHANGED <<pending, answer>>
      \/ /\ ~IsMessage(line) /\ UNCHANGED <<incoming, pending, answer>>
  <2>1. CASE Client!IsResponse(line)
    BY <1>2, <2>1, MessagesAreMessages DEF Client!ReadLine
  <2>2. CASE ~Client!IsResponse(line)
    BY <1>2, <2>2, MessagesAreMessages DEF Client!ReadLine
  <2> QED BY <2>1, <2>2
<1>5. /\ k \in 0..Len(written)
      /\ \A i \in 1..k : Received[i] = written[i]
  BY <1>1 DEF ClientInv, NoneLost, Received
<1>6. PICK g : Thread(g, stdout, written, k)
  BY <1>3 DEF ClientInv, NoneLost
<1>7. incoming' \in Seq(Messages) /\ pending' \subseteq pending
  <2>1. CASE line \in Messages /\ incoming' = Append(incoming, line)
    <3>1. PICK m \in Messages : incoming' = Append(incoming, m)
      BY <2>1
    <3>2. incoming' \in Seq(Messages)
      BY <1>1, <3>1
    <3> QED BY <1>4, <3>2
  <2>2. CASE incoming' = incoming
    BY <1>1, <1>4, <2>2
  <2> QED BY <1>4, <2>1, <2>2
<1>8. ClientTypes'
  BY <1>2, <1>3, <1>7 DEF ClientInv, ClientTypes
<1>9. Client!AnswersMatch' /\ Client!NoProcessLeft'
  BY <1>3, <1>7 DEF ClientInv, Client!AnswersMatch, Client!NoProcessLeft
<1>10. AnswerKept'
  <2>1. ASSUME client.pc = "waiting", answer' # None
        PROVE  /\ pending' = {}
               /\ answer' = Client!Closed \/ (answer'.id = client.id /\ answer'.method = None)
    <3>1. pending \subseteq {client.id}
      BY <2>1 DEF ClientInv, Client!AnswersMatch
    <3>2. CASE Client!IsResponse(line) /\ line.id \in pending /\ answer' = line
               /\ pending' = pending \ {line.id}
      BY <3>1, <3>2 DEF Client!IsResponse
    <3>3. CASE answer' = answer
      BY <1>7, <2>1, <3>3 DEF ClientInv, AnswerKept
    <3> QED BY <1>4, <3>2, <3>3
  <2> QED BY <1>3, <2>1 DEF AnswerKept
<1>11. NoneLost'
  <2> HIDE DEF line
  <2>1. CASE ~IsMessage(line) /\ incoming' = incoming
    <3>1. Received' = Received
      BY <1>3, <2>1 DEF Received
    <3>2. \E h : Thread(h, Tail(stdout), written, k)
      <4> HIDE DEF k
      <4> QED BY <1>1, <1>5, <1>6, <2>1, SkippedLine DEF line
    <3> QED BY <1>3, <1>5, <3>1, <3>2 DEF NoneLost
  <2>2. CASE line \in Messages /\ incoming' = Append(incoming, line)
    <3>1. IsMessage(line)
      BY <2>2, MessagesAreMessages
    <3>2. /\ k + 1 \in 0..Len(written) /\ written[k + 1] = line
          /\ \E h : Thread(h, Tail(stdout), written, k + 1)
      <4> HIDE DEF k
      <4> QED BY <1>1, <1>5, <1>6, <3>1, ReadMessageLine DEF line
    <3>3. Received' = Append(Received, line) /\ Received \in Seq(Messages)
      <4>1. heard \o Append(incoming, line) = Append(heard \o incoming, line)
        BY <1>1, <2>2
      <4> QED BY <1>1, <1>3, <2>2, <4>1 DEF Received
    <3>4. /\ Len(Received') = k + 1 /\ Received'[k + 1] = line
          /\ \A i \in 1..k : Received'[i] = Received[i]
      BY <2>2, <3>3
    <3>5. \A i \in 1..k + 1 : Received'[i] = written[i]
      <4>1. \A i \in 1..k + 1 : i \in 1..k \/ i = k + 1
        BY <1>5
      <4> QED BY <1>5, <3>2, <3>4, <4>1
    <3> QED BY <1>3, <3>2, <3>4, <3>5 DEF NoneLost
  <2> QED BY <1>4, <2>1, <2>2
<1> QED BY <1>8, <1>9, <1>10, <1>11 DEF ClientInv

\* The end of the lines: whoever waits is told, and there is no message left.
LEMMA ReadEofKeeps ==
    ASSUME ClientInv, Client!ReadEof
    PROVE  ClientInv'
<1>1. /\ reader = "reading" /\ stdout = <<>> /\ group = {} /\ reader' = "ended" /\ pending' = {}
      /\ answer' = IF pending = {} THEN answer ELSE Client!Closed
      /\ UNCHANGED <<group, asked, stdin, stdout, written, incoming, heard, client>>
      /\ Received' = Received
  BY DEF Client!ReadEof, Client!processes, Received
<1>2. ClientTypes'
  BY <1>1 DEF ClientInv, ClientTypes
<1>3. Client!AnswersMatch' /\ AnswerKept' /\ Client!NoProcessLeft'
  BY <1>1 DEF ClientInv, Client!AnswersMatch, AnswerKept, Client!NoProcessLeft
<1>4. NoneLost'
  <2>1. /\ Len(Received) \in Nat /\ Len(written) \in Nat /\ Len(Received) <= Len(written)
    BY DEF ClientInv, ClientTypes, NoneLost, Received
  <2>2. PICK g : Thread(g, <<>>, written, Len(Received))
    BY <1>1 DEF ClientInv, NoneLost
  <2>3. \A i \in 1..Len(written) - Len(Received) : g[i] \in 1..0
    BY <2>2 DEF Thread
  <2>4. ~(1 \in 1..Len(written) - Len(Received))
    BY <2>3
  <2>5. Len(Received) = Len(written)
    BY <2>1, <2>4
  <2> QED BY <1>1, <2>1, <2>5 DEF ClientInv, NoneLost
<1> QED BY <1>2, <1>3, <1>4 DEF ClientInv

LEMMA ClientInit == Init => ClientInv
<1> SUFFICES ASSUME Init PROVE ClientInv
  OBVIOUS
<1>1. /\ group = {"main"} /\ stdin = <<>> /\ asked = {} /\ stdout = <<>> /\ written = <<>>
      /\ reader = "reading" /\ pending = {} /\ answer = None /\ incoming = <<>> /\ heard = <<>>
      /\ client = [pc |-> "idle", id |-> 0, step |-> 0, wrong |-> FALSE]
  BY DEF Init, Client!Init
<1>2. /\ <<>> \in Seq(Client!Ids) /\ <<>> \in Seq(Lines) /\ <<>> \in Seq(Messages)
      /\ Received = <<>> /\ Len(<<>>) = 0
  BY <1>1 DEF Received
<1>3. ClientTypes
  BY <1>1, <1>2, AnalysisAssumption DEF ClientTypes, Clients, Client!ClientAssumption
<1>4. Client!AnswersMatch /\ AnswerKept /\ Client!NoProcessLeft
  BY <1>1 DEF Client!AnswersMatch, AnswerKept, Client!NoProcessLeft
<1>5. NoneLost
  <2>1. [i \in 1..0 |-> 0] \in [1..0 -> 1..0]
    OBVIOUS
  <2>2. Thread([i \in 1..0 |-> 0], <<>>, <<>>, 0)
    BY <2>1 DEF Thread
  <2> QED BY <1>1, <1>2, <2>2 DEF NoneLost
<1> QED BY <1>3, <1>4, <1>5 DEF ClientInv

LEMMA ClientNext == ClientInv /\ [Next]_vars => ClientInv'
<1> SUFFICES ASSUME ClientInv, [Next]_vars PROVE ClientInv'
  OBVIOUS
<1>1. CASE Client!Next
  <2>1. CASE \/ Client!Request \/ Client!Answered \/ Client!TimesOut \/ Client!NextMessage
             \/ Client!Shutdown \/ Client!ShutdownEnds
    <3>1. Acts
      BY <2>1, ClientActs
    <3> QED BY <3>1, ActsKeeps
  <2>2. CASE \/ Client!ReadFrame \/ Client!HelperStarts
             \/ \E p \in {"main", "helper"} : Client!ProcessEnds(p)
    BY <2>2, ProcessesKeep
  <2>3. CASE \/ \E id \in Client!Ids : Client!Reply(id)
             \/ \E line \in Client!OwnLines : Client!Write(line)
    BY <2>3, LinesKeep
  <2> QED BY <1>1, <2>1, <2>2, <2>3, ReadLineKeeps, ReadEofKeeps DEF Client!Next
<1>2. CASE UNCHANGED clientVars
  BY <1>2 DEF clientVars, ClientInv, ClientTypes, Client!AnswersMatch, AnswerKept,
     Client!NoProcessLeft, NoneLost, Received
<1> QED BY <1>1, <1>2 DEF Next, OfTurn, OfClient, OfLive, vars

THEOREM ClientInvariant == FairSpec => []ClientInv
BY ClientInit, ClientNext, PTL DEF FairSpec

-----------------------------------------------------------------------------
(* The interface: texts                                                    *)

\* The chunks of a text follow one another.
Seamless(text) == \A n \in 1 .. Len(text) - 1 : text[n + 1] = text[n] + 1

\* The tail of a text that ends with a chunk ends with it, and is as seamless as the text.
LEMMA PushedText ==
    ASSUME NEW text \in Seq(Nat), NEW chunk \in Seq(Nat), Seamless(text \o chunk), TextTail \in Nat
    PROVE  LET all == text \o chunk
               kept == Shown!PushCapped(text, chunk)
           IN  /\ kept \in Seq(Nat) /\ Seamless(kept)
               /\ kept # <<>> => all # <<>> /\ kept[Len(kept)] = all[Len(all)]
<1> DEFINE all == text \o chunk
           from == Len(all) - TextTail + 1
           kept == Shown!PushCapped(text, chunk)
<1>1. all \in Seq(Nat) /\ Len(all) \in Nat /\ \A n \in 1..Len(all) : all[n] \in Nat
  OBVIOUS
<1>2. kept = IF Len(all) > TextTail THEN SubSeq(all, from, Len(all)) ELSE all
  BY DEF Shown!PushCapped
<1>3. Seamless(all)
  OBVIOUS
<1> HIDE DEF all, kept
<1>4. CASE Len(all) > TextTail
  <2>1. kept = SubSeq(all, from, Len(all)) /\ from \in 1 .. Len(all) + 1 /\ from \in Int
    BY <1>1, <1>2, <1>4
  <2>2. \A n \in from .. Len(all) : all[n] \in Nat
    BY <1>1, <2>1
  <2>3. /\ kept \in Seq(Nat)
        /\ Len(kept) = IF from <= Len(all) THEN Len(all) - from + 1 ELSE 0
        /\ \A n \in 1 .. Len(all) - from + 1 : kept[n] = all[from + n - 1]
    BY <1>1, <2>1, <2>2, SubSeqProperties
  <2>4. Len(kept) = TextTail /\ \A n \in 1 .. TextTail : kept[n] = all[from + n - 1]
    BY <1>1, <1>4, <2>3
  <2>5. Seamless(kept)
    <3> SUFFICES ASSUME NEW n \in 1 .. Len(kept) - 1 PROVE kept[n + 1] = kept[n] + 1
      BY DEF Seamless
    <3>1. /\ n \in 1 .. TextTail /\ n + 1 \in 1 .. TextTail
          /\ from + n - 1 \in 1 .. Len(all) - 1 /\ from + (n + 1) - 1 = (from + n - 1) + 1
      BY <1>1, <1>4, <2>1, <2>4
    <3>2. all[(from + n - 1) + 1] = all[from + n - 1] + 1
      BY <1>3, <3>1 DEF Seamless
    <3> QED BY <2>4, <3>1, <3>2
  <2>6. ASSUME kept # <<>> PROVE all # <<>> /\ kept[Len(kept)] = all[Len(all)]
    <3>1. TextTail \in 1 .. TextTail /\ from + TextTail - 1 = Len(all) /\ Len(all) > 0
      BY <1>1, <1>4, <2>3, <2>4, <2>6
    <3> QED BY <1>1, <2>4, <3>1
  <2> QED BY <2>3, <2>5, <2>6 DEF all, kept
<1>5. CASE ~(Len(all) > TextTail)
  BY <1>1, <1>2, <1>3, <1>5 DEF all, kept
<1> QED BY <1>4, <1>5

\* Chunk n + 1 goes on where a text with n chunks ends, and a whole text of n is seamless.
LEMMA NextChunk ==
    ASSUME NEW text \in Seq(Nat), NEW n \in Nat, Seamless(text),
           text # <<>> => text[Len(text)] = n
    PROVE  /\ Seamless(text \o <<n + 1>>)
           /\ (text \o <<n + 1>>) # <<>>
           /\ (text \o <<n + 1>>)[Len(text \o <<n + 1>>)] = n + 1
<1> DEFINE all == text \o <<n + 1>>
<1>1. /\ all \in Seq(Nat) /\ Len(all) = Len(text) + 1 /\ Len(text) \in Nat
      /\ \A k \in 1..Len(text) : all[k] = text[k]
      /\ all[Len(text) + 1] = n + 1
  OBVIOUS
<1> HIDE DEF all
<1>2. Seamless(all)
  <2> SUFFICES ASSUME NEW k \in 1 .. Len(all) - 1 PROVE all[k + 1] = all[k] + 1
    BY DEF Seamless
  <2>1. CASE k = Len(text)
    BY <1>1, <2>1
  <2>2. CASE k # Len(text)
    <3>1. k \in 1 .. Len(text) - 1 /\ k \in 1 .. Len(text) /\ k + 1 \in 1 .. Len(text)
      BY <1>1, <2>2
    <3> QED BY <1>1, <3>1 DEF Seamless
  <2> QED BY <2>1, <2>2
<1> QED BY <1>1, <1>2 DEF all

LEMMA WholeText ==
    ASSUME NEW n \in Nat
    PROVE  /\ Shown!Upto(n) \in Seq(Nat) /\ Seamless(Shown!Upto(n))
           /\ Len(Shown!Upto(n)) = n
           /\ Shown!Upto(n) # <<>> => Shown!Upto(n)[Len(Shown!Upto(n))] = n
<1> DEFINE all == Shown!Upto(n)
<1>1. all = [k \in 1..n |-> k]
  BY DEF Shown!Upto
<1> HIDE DEF all
<1>2. all \in Seq(Nat) /\ Len(all) = n
  BY <1>1
<1>3. all # <<>> => all[Len(all)] = n
  BY <1>1, <1>2
<1>4. Seamless(all)
  BY <1>1, <1>2 DEF Seamless
<1> QED BY <1>2, <1>3, <1>4 DEF all

-----------------------------------------------------------------------------
(* The interface: types                                                    *)

Texts == Seq(Nat)
Outcomes == [messages : Seq(Shown!Bodies), report : Shown!Bodies \cup {None}, reason : BOOLEAN]
Records == [items : Seq(Shown!AgentLiveItem), outcome : Outcomes,
            end : {None, "completed", "given_up"}]

ItemNotices ==
    [type : {"started", "output"}, item : Shown!Items, text : Texts]
    \cup [type : {"finished"}, item : Shown!Items, state : {"completed", "failed"}, text : Texts]
Notices ==
    ItemNotices \cup [type : {"message"}, body : Shown!Bodies] \cup [type : {"ask"}]
    \cup [type : {"end"}, turn : 0..MaxTurns]

LiveTypes ==
    /\ notifier \in [turn : 0..MaxTurns, sent : 0..MaxNotices, said : [Shown!Items -> Nat],
                     listed : [Shown!Turns -> Seq(Shown!Items)],
                     ended : [Shown!Items -> Shown!States]]
    /\ notices \in Seq(Notices)
    /\ driver \in [pc : {"idle", "starting", "driving", "asking"}, seq : 0..MaxTurns,
                   outcome : Outcomes]
    /\ live \in Shown!AgentLive \cup {None}
    /\ turns \in Seq(Records)

-----------------------------------------------------------------------------
(* The interface: what the runtime had done when a notice was sent          *)

\* What of the runtime the interface shows: the output and the end of its items, and in
\* which order it announced them.
Views == [said : [Shown!Items -> Nat], listed : [Shown!Turns -> Seq(Shown!Items)],
          ended : [Shown!Items -> Shown!States]]
View == [said |-> notifier.said, listed |-> notifier.listed, ended |-> notifier.ended]

Listed(v, i) == \E n \in 1..Len(v.listed[i[1]]) : v.listed[i[1]][n] = i

\* A turn announces its own items, each once.
ListedOnce(v) ==
    \A t \in Shown!Turns : \A m \in 1..Len(v.listed[t]) :
        /\ v.listed[t][m][1] = t
        /\ \A n \in 1..Len(v.listed[t]) : v.listed[t][m] = v.listed[t][n] => m = n

\* A notice tells how one view becomes another.
TellsStarted(m, v, w) ==
    /\ v.ended[m.item] = "running"
    /\ m.text = <<>> \/ m.text = Shown!Upto(v.said[m.item])
    /\ w.said = v.said /\ w.ended = v.ended
    /\ w.listed = IF Listed(v, m.item) THEN v.listed
                  ELSE [v.listed EXCEPT ![m.item[1]] = Append(@, m.item)]
TellsOutput(m, v, w) ==
    /\ m.text = <<v.said[m.item] + 1>>
    /\ w.said = [v.said EXCEPT ![m.item] = @ + 1]
    /\ w.ended = v.ended /\ w.listed = v.listed
TellsFinished(m, v, w) ==
    /\ Listed(v, m.item)
    /\ m.text = <<>> \/ m.text = Shown!Upto(v.said[m.item])
    /\ w.said = v.said /\ w.listed = v.listed
    /\ w.ended = [v.ended EXCEPT ![m.item] = m.state]
Tells(m, v, w) ==
    CASE m.type = "started" -> TellsStarted(m, v, w)
      [] m.type = "output" -> TellsOutput(m, v, w)
      [] m.type = "finished" -> TellsFinished(m, v, w)
      [] OTHER -> w = v

\* The views of the runtime from what the session has heard of it (the first) to what
\* it has done (the last), with a notice between one and the next.
Unheard(views) ==
    /\ views \in Seq(Views) /\ Len(views) = Len(notices) + 1
    /\ views[Len(views)] = View
    /\ \A p \in 1..Len(views) :
          /\ ListedOnce(views[p])
          /\ \A i \in Shown!Items : views[p].said[i] <= notifier.said[i]
    /\ \A p \in 1..Len(notices) : Tells(notices[p], views[p], views[p + 1])

-----------------------------------------------------------------------------
(* The interface: the invariant                                            *)

Explained(o) == o.messages # <<>> /\ o.report # "report" => o.reason

\* The live view is there while run_turn is at work, and is its turn's.
LiveIsTurns ==
    /\ Len(turns) = driver.seq
    /\ driver.pc # "idle" <=> live # None
    /\ live # None => /\ live.seq = driver.seq
                      /\ live.stage = "awaiting" <=> driver.pc = "asking"
    /\ \A t \in 1..Len(turns) : turns[t].end = None <=> live # None /\ t = driver.seq
    /\ Explained(driver.outcome) /\ \A t \in 1..Len(turns) : Explained(turns[t].outcome)

\* An item has one row.
RowsOnce(rows) == \A m, n \in 1..Len(rows) : rows[m].item = rows[n].item => m = n

\* What is shown of an item ends with the last output heard of it.
TextShown(entry, v) ==
    /\ Seamless(entry.text)
    /\ entry.text # <<>> => entry.text[Len(entry.text)] = v.said[entry.item]
TextsShown(v) ==
    live # None => /\ RowsOnce(live.items)
                   /\ \A n \in 1..Len(live.items) : TextShown(live.items[n], v)

TextsRecorded ==
    \A t \in 1..Len(turns) : \A n \in 1..Len(turns[t].items) :
        LET entry == turns[t].items[n]
        IN  /\ Seamless(entry.text)
            /\ entry.text # <<>> => entry.text[Len(entry.text)] <= notifier.said[entry.item]

\* Rows that are the items announced in a turn, in order and in their states.
Follow(rows, v, t) ==
    /\ Len(rows) = Len(v.listed[t])
    /\ \A n \in 1..Len(rows) : rows[n].item = v.listed[t][n] /\ rows[n].state = v.ended[rows[n].item]

\* No turn has been given up.
Orderly == \A t \in 1..Len(turns) : turns[t].end # "given_up"
CompletedTo(t) == \A u \in 1..t : turns[u].end = "completed"

\* As long as none has, the runtime is at work on the turn that is shown, or on none, and
\* what it sends is of that turn, with the end at last.
OneTurn(v) ==
    Orderly =>
        /\ driver.pc \in {"idle", "starting"} => notices = <<>> /\ notifier.turn = 0
        /\ driver.pc \in {"driving", "asking"} => notifier.turn \in {0, driver.seq}
        /\ \A p \in 1..Len(notices) :
              /\ notices[p] \in ItemNotices => notices[p].item[1] = driver.seq
              /\ notices[p].type = "end" => p = Len(notices) /\ notifier.turn = 0
        /\ live # None => Follow(live.items, v, driver.seq)

\* A turn that is over is not worked on, and what was recorded of it stays right.
RowsRecorded ==
    \A t \in 1..Len(turns) :
        CompletedTo(t) => notifier.turn # t /\ Follow(turns[t].items, View, t)

NotBegun ==
    /\ notifier.turn <= Len(turns)
    /\ \A t \in Shown!Turns : t > Len(turns) => notifier.listed[t] = <<>>

LiveInv ==
    /\ LiveTypes /\ LiveIsTurns /\ TextsRecorded /\ RowsRecorded /\ NotBegun
    /\ \E views : Unheard(views) /\ TextsShown(views[1]) /\ OneTurn(views[1])

\* The bounds are numbers.
LEMMA LiveBounds ==
    /\ MaxTurns \in Nat /\ MaxItems \in Nat /\ MaxChunks \in Nat /\ MaxNotices \in Nat
    /\ TextTail \in Nat
BY AnalysisAssumption DEF Shown!LiveAssumption

LEMMA NoneIsNone ==
    /\ None \notin Shown!AgentLive
    /\ \A e \in {"completed", "given_up"} : e # None
BY AnalysisAssumption DEF Shown!LiveAssumption

LEMMA LiveInit == Init => LiveInv
<1> SUFFICES ASSUME Shown!Init PROVE LiveInv
  BY DEF Init
<1>0. 0 \in 0..MaxTurns /\ 0 \in 0..MaxNotices
  BY LiveBounds
<1> USE DEF Shown!Init
<1>1. /\ notifier.turn = 0 /\ notifier.sent = 0 /\ notifier.said = [i \in Shown!Items |-> 0]
      /\ notifier.listed = [t \in Shown!Turns |-> <<>>]
      /\ notifier.ended = [i \in Shown!Items |-> "running"]
      /\ notices = <<>> /\ Len(notices) = 0 /\ live = None /\ turns = <<>> /\ Len(turns) = 0
      /\ driver.pc = "idle" /\ driver.seq = 0 /\ driver.outcome = Shown!NoOutcome
      /\ <<>> \in Seq(Shown!Items)
  OBVIOUS
<1>2. Shown!NoOutcome \in Outcomes /\ Explained(Shown!NoOutcome)
  <2>1. <<>> \in Seq(Shown!Bodies)
    OBVIOUS
  <2> QED BY <2>1 DEF Outcomes, Explained, Shown!NoOutcome
<1>3. LiveTypes
  <2>1. notices \in Seq(Notices) /\ turns \in Seq(Records)
    BY <1>1
  <2>2. notifier.turn \in 0..MaxTurns /\ notifier.sent \in 0..MaxNotices /\ driver.seq \in 0..MaxTurns
    BY <1>0, <1>1
  <2>3. /\ notifier.said \in [Shown!Items -> Nat]
        /\ notifier.listed \in [Shown!Turns -> Seq(Shown!Items)]
        /\ notifier.ended \in [Shown!Items -> Shown!States]
    BY <1>1 DEF Shown!States
  <2> QED BY <1>1, <1>2, <2>1, <2>2, <2>3 DEF LiveTypes
<1>4. LiveIsTurns /\ TextsRecorded /\ RowsRecorded /\ NotBegun
  <2>1. LiveIsTurns
    BY <1>1, <1>2 DEF LiveIsTurns
  <2>2. TextsRecorded /\ RowsRecorded
    BY <1>1 DEF TextsRecorded, RowsRecorded
  <2>3. NotBegun
    BY <1>1 DEF NotBegun
  <2> QED BY <2>1, <2>2, <2>3
<1>5. Unheard(<<View>>)
  <2>1. View \in Views
    BY <1>1 DEF View, Views, Shown!States
  <2>2. <<View>> \in Seq(Views) /\ Len(<<View>>) = 1 /\ <<View>>[1] = View
    BY <2>1
  <2>3. ListedOnce(View) /\ \A i \in Shown!Items : View.said[i] <= notifier.said[i]
    <3>1. View.listed = [t \in Shown!Turns |-> <<>>] /\ View.said = [i \in Shown!Items |-> 0]
      BY <1>1 DEF View
    <3> QED BY <1>1, <3>1 DEF ListedOnce
  <2> HIDE DEF View
  <2> QED BY <1>1, <2>2, <2>3 DEF Unheard
<1>6. TextsShown(View) /\ OneTurn(View)
  BY <1>1 DEF TextsShown, OneTurn
<1>7. <<View>>[1] = View
  OBVIOUS
<1> QED BY <1>3, <1>4, <1>5, <1>6, <1>7 DEF LiveInv

-----------------------------------------------------------------------------
(* The interface: a notice is sent                                          *)

Notifiers == [turn : 0..MaxTurns, sent : 0..MaxNotices, said : [Shown!Items -> Nat],
              listed : [Shown!Turns -> Seq(Shown!Items)], ended : [Shown!Items -> Shown!States]]

\* What has been heard and what is still queued is as it was, with the notice behind it.
LEMMA NoticeSent ==
    ASSUME LiveInv, NEW m \in Notices, notices' = Append(notices, m),
           UNCHANGED <<driver, live, turns>>, notifier.turn # 0, notifier' \in Notifiers,
           Tells(m, View, View'), ListedOnce(View)',
           \A i \in Shown!Items : notifier.said[i] <= notifier'.said[i],
           m \in ItemNotices => m.item[1] = notifier.turn,
           IF m.type = "end" THEN notifier'.turn = 0 ELSE notifier'.turn = notifier.turn,
           \A t \in Shown!Turns : t # notifier.turn => notifier'.listed[t] = notifier.listed[t],
           \A i \in Shown!Items : i[1] # notifier.turn => notifier'.ended[i] = notifier.ended[i]
    PROVE  LiveInv'
<1>1. /\ LiveTypes /\ LiveIsTurns /\ TextsRecorded /\ RowsRecorded /\ NotBegun
      /\ notices \in Seq(Notices) /\ Len(notices) \in Nat /\ Len(turns) \in Nat
      /\ turns \in Seq(Records) /\ Len(turns) = driver.seq /\ driver.seq \in 0..MaxTurns
  BY DEF LiveInv, LiveTypes, LiveIsTurns
<1>2. PICK views : Unheard(views) /\ TextsShown(views[1]) /\ OneTurn(views[1])
  BY DEF LiveInv
<1>3. /\ notices' \in Seq(Notices) /\ Len(notices') = Len(notices) + 1
      /\ \A p \in 1..Len(notices) : notices'[p] = notices[p]
      /\ notices'[Len(notices) + 1] = m
  BY <1>1
<1>4. /\ driver' = driver /\ live' = live /\ turns' = turns
      /\ notifier'.turn \in {0, notifier.turn}
  OBVIOUS
<1>5. LiveTypes'
  BY <1>1, <1>3, <1>4 DEF LiveTypes, Notifiers
<1>6. LiveIsTurns'
  BY <1>1, <1>4 DEF LiveIsTurns
<1>7. /\ views \in Seq(Views) /\ Len(views) = Len(notices) + 1 /\ views[Len(views)] = View
      /\ \A p \in 1..Len(views) :
            ListedOnce(views[p]) /\ \A i \in Shown!Items : views[p].said[i] <= notifier.said[i]
      /\ \A p \in 1..Len(notices) : Tells(notices[p], views[p], views[p + 1])
  BY <1>2 DEF Unheard
<1>8. /\ \A i \in Shown!Items : notifier.said[i] \in Nat /\ notifier'.said[i] \in Nat
      /\ View' \in Views /\ View \in Views
  BY <1>1 DEF LiveTypes, Notifiers, View, Views
<1>9. \A t \in 1..Len(turns) : /\ t \in Shown!Turns
                               /\ turns[t].items \in Seq(Shown!AgentLiveItem)
  <2>1. \A t \in 1..Len(turns) : turns[t] \in Records
    BY <1>1
  <2>2. \A t \in 1..Len(turns) : t \in 1..MaxTurns
    BY <1>1, LiveBounds
  <2> QED BY <2>1, <2>2 DEF Records, Shown!Turns
<1>10. \A t \in 1..Len(turns) : \A n \in 1..Len(turns[t].items) :
          turns[t].items[n].item \in Shown!Items
  <2>1. \A t \in 1..Len(turns) : \A n \in 1..Len(turns[t].items) :
          turns[t].items[n] \in Shown!AgentLiveItem
    BY <1>9
  <2> QED BY <2>1 DEF Shown!AgentLiveItem
<1>11. TextsRecorded'
  <2> SUFFICES ASSUME NEW t \in 1..Len(turns), NEW n \in 1..Len(turns[t].items),
                      NEW entry, entry = turns[t].items[n]
               PROVE  /\ Seamless(entry.text)
                      /\ entry.text # <<>> =>
                            entry.text[Len(entry.text)] <= notifier'.said[entry.item]
    BY <1>4 DEF TextsRecorded
  <2>1. /\ Seamless(entry.text)
        /\ entry.text # <<>> => entry.text[Len(entry.text)] <= notifier.said[entry.item]
    BY <1>1 DEF TextsRecorded
  <2>2. entry.item \in Shown!Items /\ entry \in Shown!AgentLiveItem
    BY <1>9, <1>10
  <2>3. entry.text # <<>> => entry.text[Len(entry.text)] \in Nat
    BY <2>2 DEF Shown!AgentLiveItem
  <2>4. /\ notifier.said[entry.item] \in Nat /\ notifier'.said[entry.item] \in Nat
        /\ notifier.said[entry.item] <= notifier'.said[entry.item]
    BY <1>8, <2>2
  <2>5. PICK last, before, after : /\ last = entry.text[Len(entry.text)]
                                   /\ before = notifier.said[entry.item]
                                   /\ after = notifier'.said[entry.item]
    OBVIOUS
  <2>6. entry.text # <<>> => last <= after
    <3>1. before \in Nat /\ after \in Nat /\ before <= after
      BY <2>4, <2>5
    <3>2. entry.text # <<>> => last \in Nat /\ last <= before
      BY <2>1, <2>3, <2>5
    <3> QED BY <3>1, <3>2
  <2> QED BY <2>1, <2>5, <2>6
<1>12. RowsRecorded'
  <2> SUFFICES ASSUME NEW t \in 1..Len(turns), CompletedTo(t)
               PROVE  notifier'.turn # t /\ Follow(turns[t].items, View', t)
    BY <1>4 DEF RowsRecorded, CompletedTo
  <2>1. notifier.turn # t /\ Follow(turns[t].items, View, t)
    BY <1>1 DEF RowsRecorded
  <2>2. t \in Shown!Turns /\ View'.listed[t] = View.listed[t]
    BY <1>9, <2>1 DEF View
  <2>3. \A n \in 1..Len(turns[t].items) :
          LET i == turns[t].items[n].item IN i \in Shown!Items /\ i[1] = t
    <3>1. Len(views) \in 1..Len(views)
      BY <1>1, <1>7
    <3>2. ListedOnce(View)
      BY <1>7, <3>1
    <3> QED BY <1>10, <2>1, <2>2, <3>2 DEF ListedOnce, Follow
  <2>4. \A n \in 1..Len(turns[t].items) :
          View'.ended[turns[t].items[n].item] = View.ended[turns[t].items[n].item]
    BY <2>1, <2>3 DEF View
  <2> QED BY <1>1, <1>4, <2>1, <2>2, <2>4 DEF Follow
<1>13. NotBegun'
  <2>1. \A t \in Shown!Turns : t > Len(turns) => t # notifier.turn
    BY <1>1, LiveBounds DEF NotBegun, LiveTypes, Shown!Turns
  <2>2. notifier'.turn <= Len(turns)
    BY <1>1, <1>4 DEF NotBegun
  <2> QED BY <1>1, <1>4, <2>1, <2>2 DEF NotBegun
<1>14. PICK later : later = Append(views, View')
  OBVIOUS
<1>15. /\ later \in Seq(Views) /\ Len(later) = Len(views) + 1
       /\ \A p \in 1..Len(views) : later[p] = views[p]
       /\ later[Len(views) + 1] = View' /\ later[1] = views[1]
  <2>1. 1 \in 1..Len(views)
    BY <1>1, <1>7
  <2>2. /\ later \in Seq(Views) /\ Len(later) = Len(views) + 1
        /\ \A p \in 1..Len(views) : later[p] = views[p]
        /\ later[Len(views) + 1] = View'
    BY <1>7, <1>8, <1>14
  <2> QED BY <2>1, <2>2
<1>16. Unheard(later)'
  <2>1. Len(later) = Len(notices') + 1 /\ later[Len(later)] = View'
    BY <1>1, <1>3, <1>7, <1>15
  <2>2. ASSUME NEW p \in 1..Len(later)
        PROVE  ListedOnce(later[p]) /\ \A i \in Shown!Items : later[p].said[i] <= notifier'.said[i]
    <3>1. CASE p \in 1..Len(views)
      <4>1. views[p] \in Views /\ \A i \in Shown!Items : views[p].said[i] <= notifier.said[i]
        BY <1>7, <3>1
      <4>2. \A i \in Shown!Items : views[p].said[i] \in Nat
        BY <4>1 DEF Views
      <4>3. \A i \in Shown!Items : views[p].said[i] <= notifier'.said[i]
        BY <1>8, <4>1, <4>2
      <4> QED BY <1>7, <1>15, <3>1, <4>3
    <3>2. CASE p = Len(views) + 1
      <4>1. later[p] = View' /\ View'.said = notifier'.said
        BY <1>15, <3>2 DEF View
      <4>2. \A i \in Shown!Items : notifier'.said[i] <= notifier'.said[i]
        BY <1>8
      <4> QED BY <4>1, <4>2 DEF ListedOnce
    <3> QED BY <1>1, <1>7, <1>15, <3>1, <3>2
  <2>3. ASSUME NEW p \in 1..Len(notices') PROVE Tells(notices'[p], later[p], later[p + 1])
    <3>1. CASE p \in 1..Len(notices)
      <4>1. p \in 1..Len(views) /\ p + 1 \in 1..Len(views)
        BY <1>1, <1>7, <3>1
      <4>2. later[p] = views[p] /\ later[p + 1] = views[p + 1] /\ notices'[p] = notices[p]
        BY <1>3, <1>15, <3>1, <4>1
      <4> QED BY <1>7, <3>1, <4>2
    <3>2. CASE p = Len(notices) + 1
      <4>1. p = Len(views) /\ p \in 1..Len(views) /\ later[p] = View /\ later[p + 1] = View'
        BY <1>1, <1>7, <1>15, <3>2
      <4> QED BY <1>3, <3>2, <4>1
    <3> QED BY <1>1, <1>3, <3>1, <3>2
  <2> QED BY <1>15, <2>1, <2>2, <2>3 DEF Unheard, Tells, TellsStarted, TellsOutput,
             TellsFinished, ListedOnce, Listed
<1>17. TextsShown(later[1])'
  BY <1>2, <1>4, <1>15 DEF TextsShown
<1>18. OneTurn(later[1])'
  <2> SUFFICES ASSUME Orderly
               PROVE  /\ driver.pc \in {"driving", "asking"} /\ notifier'.turn \in {0, driver.seq}
                      /\ \A p \in 1..Len(notices') :
                           /\ notices'[p] \in ItemNotices => notices'[p].item[1] = driver.seq
                           /\ notices'[p].type = "end" => p = Len(notices') /\ notifier'.turn = 0
                      /\ live # None => Follow(live.items, views[1], driver.seq)
    BY <1>4, <1>15 DEF OneTurn, Orderly, Follow
  <2>1. /\ driver.pc \in {"idle", "starting"} => notifier.turn = 0
        /\ driver.pc \in {"driving", "asking"} => notifier.turn \in {0, driver.seq}
        /\ \A p \in 1..Len(notices) :
              /\ notices[p] \in ItemNotices => notices[p].item[1] = driver.seq
              /\ notices[p].type = "end" => p = Len(notices) /\ notifier.turn = 0
        /\ live # None => Follow(live.items, views[1], driver.seq)
    BY <1>2 DEF OneTurn
  <2>2. driver.pc \in {"driving", "asking"} /\ notifier.turn = driver.seq
    BY <1>1, <2>1 DEF LiveTypes
  <2>3. ASSUME NEW p \in 1..Len(notices')
        PROVE  /\ notices'[p] \in ItemNotices => notices'[p].item[1] = driver.seq
               /\ notices'[p].type = "end" => p = Len(notices') /\ notifier'.turn = 0
    <3>1. CASE p \in 1..Len(notices)
      BY <1>3, <2>1, <3>1
    <3>2. CASE p = Len(notices) + 1
      BY <1>3, <2>2, <3>2
    <3> QED BY <1>1, <1>3, <3>1, <3>2
  <2> QED BY <1>4, <2>1, <2>2, <2>3
<1> QED BY <1>5, <1>6, <1>11, <1>12, <1>13, <1>16, <1>17, <1>18 DEF LiveInv

\* What the runtime does, and what it tells of it.
LEMMA RuntimeTells ==
    ASSUME LiveInv, NEW i \in Shown!Items,
           Shown!Announce(i) \/ Shown!SayOutput(i) \/ Shown!FinishItem(i)
    PROVE  LiveInv'
<1>1. /\ notifier \in Notifiers /\ notices \in Seq(Notices)
      /\ View \in Views /\ ListedOnce(View)
  <2>1. LiveTypes
    BY DEF LiveInv
  <2>2. PICK views : Unheard(views)
    BY DEF LiveInv
  <2>3. Len(views) \in 1..Len(views)
    BY <2>1, <2>2 DEF Unheard, LiveTypes
  <2> QED BY <2>1, <2>2, <2>3 DEF LiveTypes, Notifiers, View, Views, Unheard
<1>2. /\ notifier.sent \in 0..MaxNotices /\ notifier.sent < MaxNotices
      /\ notifier.turn # 0 /\ i[1] = notifier.turn /\ notifier.ended[i] = "running"
      /\ UNCHANGED <<driver, live, turns>>
  BY <1>1 DEF Shown!Announce, Shown!SayOutput, Shown!FinishItem, Shown!Emit, Notifiers
<1>3. notifier.sent + 1 \in 0..MaxNotices
  BY <1>2, LiveBounds
<1>4. i[1] \in Shown!Turns /\ notifier.said[i] \in Nat /\ notifier.listed[i[1]] \in Seq(Shown!Items)
  BY <1>1 DEF Shown!Items, Notifiers
<1>5. <<>> \in Texts /\ Shown!Upto(notifier.said[i]) \in Texts
  BY <1>4, WholeText DEF Texts
<1>6. Shown!Contains(notifier.listed[i[1]], i) <=> Listed(View, i)
  BY <1>4 DEF Shown!Contains, Listed, View
<1>7. CASE Shown!Announce(i)
  <2>1. PICK text \in {<<>>, Shown!Upto(notifier.said[i])} :
           /\ notices' = Append(notices, [type |-> "started", item |-> i, text |-> text])
           /\ notifier' = IF Listed(View, i) THEN [notifier EXCEPT !.sent = @ + 1]
                          ELSE [[notifier EXCEPT !.listed[i[1]] = Append(@, i)]
                                   EXCEPT !.sent = @ + 1]
    BY <1>6, <1>7 DEF Shown!Announce, Shown!Emit
  <2> DEFINE m == [type |-> "started", item |-> i, text |-> text]
  <2>2. /\ notifier'.said = notifier.said /\ notifier'.ended = notifier.ended
        /\ notifier'.turn = notifier.turn /\ notifier'.sent = notifier.sent + 1
        /\ notifier'.listed = IF Listed(View, i) THEN notifier.listed
                              ELSE [notifier.listed EXCEPT ![i[1]] = Append(@, i)]
        /\ notifier' \in Notifiers
    <3>1. Append(notifier.listed[i[1]], i) \in Seq(Shown!Items)
      BY <1>4
    <3> QED BY <1>1, <1>3, <1>4, <2>1, <3>1 DEF Notifiers
  <2>3. m \in ItemNotices /\ m \in Notices /\ m.type = "started" /\ m.item = i
    BY <1>5, <2>1 DEF ItemNotices, Notices
  <2>4. Tells(m, View, View')
    <3>1. TellsStarted(m, View, View')
      BY <1>2, <2>1, <2>2 DEF TellsStarted, View
    <3> QED BY <2>3, <3>1 DEF Tells
  <2>5. ListedOnce(View)'
    <3>1. CASE Listed(View, i)
      <4>1. View'.listed = View.listed
        BY <2>2, <3>1 DEF View
      <4> QED BY <1>1, <4>1 DEF ListedOnce
    <3>2. CASE ~Listed(View, i)
      <4> DEFINE old == View.listed[i[1]]
                 new == View'.listed[i[1]]
      <4>1. /\ new = Append(old, i) /\ old \in Seq(Shown!Items)
            /\ \A t \in Shown!Turns : t # i[1] => View'.listed[t] = View.listed[t]
        BY <1>1, <1>4, <2>2, <3>2 DEF View, Notifiers
      <4>2. \A n \in 1..Len(old) : old[n] # i /\ old[n][1] = i[1]
        BY <1>1, <1>4, <3>2 DEF Listed, ListedOnce
      <4>3. \A n, k \in 1..Len(old) : old[n] = old[k] => n = k
        BY <1>1, <1>4 DEF ListedOnce
      <4>4. /\ Len(new) = Len(old) + 1 /\ Len(old) \in Nat /\ new[Len(old) + 1] = i
            /\ \A n \in 1..Len(old) : new[n] = old[n]
        BY <4>1
      <4> HIDE DEF old, new
      <4>5. \A n \in 1..Len(new) : new[n][1] = i[1] /\ \A k \in 1..Len(new) : new[n] = new[k] => n = k
        BY <4>2, <4>3, <4>4
      <4>6. \A t \in Shown!Turns : t # i[1] =>
                \A n \in 1..Len(View'.listed[t]) :
                   /\ View'.listed[t][n][1] = t
                   /\ \A k \in 1..Len(View'.listed[t]) :
                         View'.listed[t][n] = View'.listed[t][k] => n = k
        BY <1>1, <4>1 DEF ListedOnce
      <4>7. \A t \in Shown!Turns : t = i[1] => View'.listed[t] = new
        BY DEF new
      <4> QED BY <4>5, <4>6, <4>7 DEF ListedOnce
    <3> QED BY <3>1, <3>2
  <2>6. \A t \in Shown!Turns : t # notifier.turn => notifier'.listed[t] = notifier.listed[t]
    BY <1>1, <1>2, <2>2 DEF Notifiers
  <2>7. \A j \in Shown!Items : notifier.said[j] <= notifier'.said[j]
    BY <1>1, <2>2 DEF Notifiers
  <2> HIDE DEF m
  <2>8. notices' = Append(notices, m)
    BY <2>1 DEF m
  <2> QED BY <1>2, <2>2, <2>3, <2>4, <2>5, <2>6, <2>7, <2>8, NoticeSent
<1>8. CASE Shown!SayOutput(i)
  <2> DEFINE m == [type |-> "output", item |-> i, text |-> <<notifier.said[i] + 1>>]
  <2>1. /\ notices' = Append(notices, m)
        /\ notifier' = [[notifier EXCEPT !.said[i] = @ + 1] EXCEPT !.sent = @ + 1]
    BY <1>8 DEF Shown!SayOutput, Shown!Emit
  <2>2. /\ notifier'.said = [notifier.said EXCEPT ![i] = @ + 1]
        /\ notifier'.ended = notifier.ended /\ notifier'.listed = notifier.listed
        /\ notifier'.turn = notifier.turn /\ notifier' \in Notifiers
    <3>1. notifier' = [notifier EXCEPT !.said = [notifier.said EXCEPT ![i] = @ + 1],
                                       !.sent = @ + 1]
      BY <2>1, Zenon
    <3>2. PICK said : said = [notifier.said EXCEPT ![i] = @ + 1]
      OBVIOUS
    <3>3. said \in [Shown!Items -> Nat]
      BY <1>1, <1>4, <3>2 DEF Notifiers
    <3>4. notifier' = [notifier EXCEPT !.said = said, !.sent = @ + 1]
      BY <3>1, <3>2
    <3>5. notifier' \in Notifiers
      BY <1>1, <1>3, <3>3, <3>4 DEF Notifiers
    <3> QED BY <1>1, <3>2, <3>4, <3>5 DEF Notifiers
  <2>3. m \in ItemNotices /\ m \in Notices /\ m.type = "output" /\ m.item = i
    <3>1. <<notifier.said[i] + 1>> \in Texts
      BY <1>4 DEF Texts
    <3> QED BY <3>1 DEF ItemNotices, Notices
  <2>4. Tells(m, View, View')
    <3>1. TellsOutput(m, View, View')
      BY <2>2 DEF TellsOutput, View
    <3> QED BY <2>3, <3>1 DEF Tells
  <2>5. ListedOnce(View)'
    <3>1. View'.listed = View.listed
      BY <2>2 DEF View
    <3> QED BY <1>1, <3>1 DEF ListedOnce
  <2>6. \A j \in Shown!Items : notifier.said[j] <= notifier'.said[j]
    BY <1>1, <2>2 DEF Notifiers
  <2> HIDE DEF m
  <2> QED BY <1>2, <2>1, <2>2, <2>3, <2>4, <2>5, <2>6, NoticeSent
<1>9. CASE Shown!FinishItem(i)
  <2>1. PICK state \in {"completed", "failed"}, text \in {<<>>, Shown!Upto(notifier.said[i])} :
           /\ notices' = Append(notices, [type |-> "finished", item |-> i, state |-> state,
                                          text |-> text])
           /\ notifier' = [[notifier EXCEPT !.ended[i] = state] EXCEPT !.sent = @ + 1]
           /\ Listed(View, i)
    BY <1>6, <1>9 DEF Shown!FinishItem, Shown!Emit
  <2> DEFINE m == [type |-> "finished", item |-> i, state |-> state, text |-> text]
  <2>2. /\ notifier'.ended = [notifier.ended EXCEPT ![i] = state]
        /\ notifier'.said = notifier.said /\ notifier'.listed = notifier.listed
        /\ notifier'.turn = notifier.turn /\ notifier' \in Notifiers
    <3>1. state \in Shown!States
      BY <2>1 DEF Shown!States
    <3> QED BY <1>1, <1>3, <2>1, <3>1 DEF Notifiers
  <2>3. m \in ItemNotices /\ m \in Notices /\ m.type = "finished" /\ m.item = i
    BY <1>5, <2>1 DEF ItemNotices, Notices
  <2>4. Tells(m, View, View')
    <3>1. TellsFinished(m, View, View')
      BY <2>1, <2>2 DEF TellsFinished, View
    <3> QED BY <2>3, <3>1 DEF Tells
  <2>5. ListedOnce(View)'
    <3>1. View'.listed = View.listed
      BY <2>2 DEF View
    <3> QED BY <1>1, <3>1 DEF ListedOnce
  <2>6. /\ \A j \in Shown!Items : notifier.said[j] <= notifier'.said[j]
        /\ \A j \in Shown!Items : j[1] # notifier.turn => notifier'.ended[j] = notifier.ended[j]
    BY <1>1, <1>2, <2>2 DEF Notifiers
  <2> HIDE DEF m
  <2>7. notices' = Append(notices, m)
    BY <2>1 DEF m
  <2> QED BY <1>2, <2>2, <2>3, <2>4, <2>5, <2>6, <2>7, NoticeSent
<1> QED BY <1>7, <1>8, <1>9

LEMMA RuntimeSpeaks ==
    ASSUME LiveInv, (\E body \in Shown!Bodies : Shown!Speak(body)) \/ Shown!AskOwner \/ Shown!EndOfTurn
    PROVE  LiveInv'
<1>1. /\ notifier \in Notifiers /\ notices \in Seq(Notices)
      /\ View \in Views /\ ListedOnce(View)
  <2>1. LiveTypes
    BY DEF LiveInv
  <2>2. PICK views : Unheard(views)
    BY DEF LiveInv
  <2>3. Len(views) \in 1..Len(views)
    BY <2>1, <2>2 DEF Unheard, LiveTypes
  <2> QED BY <2>1, <2>2, <2>3 DEF LiveTypes, Notifiers, View, Views, Unheard
<1>2. PICK m : /\ \/ m \in [type : {"message"}, body : Shown!Bodies] \cup [type : {"ask"}]
                     /\ notifier' = [notifier EXCEPT !.sent = @ + 1]
                  \/ m = [type |-> "end", turn |-> notifier.turn]
                     /\ notifier' = [[notifier EXCEPT !.turn = 0] EXCEPT !.sent = @ + 1]
               /\ notices' = Append(notices, m)
  BY DEF Shown!Speak, Shown!AskOwner, Shown!EndOfTurn, Shown!Emit
<1>3. /\ notifier.turn # 0 /\ notifier.sent < MaxNotices /\ notifier.sent \in 0..MaxNotices
      /\ UNCHANGED <<driver, live, turns>>
  BY <1>1 DEF Shown!Speak, Shown!AskOwner, Shown!EndOfTurn, Shown!Emit, Notifiers
<1>4. notifier.sent + 1 \in 0..MaxNotices /\ 0 \in 0..MaxTurns
  BY <1>3, LiveBounds
<1>5. /\ notifier'.said = notifier.said /\ notifier'.listed = notifier.listed
      /\ notifier'.ended = notifier.ended /\ notifier' \in Notifiers
      /\ IF m.type = "end" THEN notifier'.turn = 0 ELSE notifier'.turn = notifier.turn
  <2>1. CASE /\ m \in [type : {"message"}, body : Shown!Bodies] \cup [type : {"ask"}]
             /\ notifier' = [notifier EXCEPT !.sent = @ + 1]
    <3>1. m.type # "end"
      BY <2>1
    <3> QED BY <1>1, <1>4, <2>1, <3>1 DEF Notifiers
  <2>2. CASE /\ m = [type |-> "end", turn |-> notifier.turn]
             /\ notifier' = [[notifier EXCEPT !.turn = 0] EXCEPT !.sent = @ + 1]
    <3>1. m.type = "end"
      BY <2>2
    <3> QED BY <1>1, <1>4, <2>2, <3>1 DEF Notifiers
  <2> QED BY <1>2, <2>1, <2>2
<1>6. m \in Notices /\ m \notin ItemNotices /\ m.type \notin {"started", "output", "finished"}
  BY <1>1, <1>2 DEF Notices, ItemNotices, Notifiers
<1>7. View' = View
  BY <1>5 DEF View
<1>8. Tells(m, View, View') /\ ListedOnce(View)'
  <2>1. Tells(m, View, View')
    BY <1>6, <1>7 DEF Tells
  <2>2. View'.listed = View.listed
    BY <1>7
  <2> QED BY <1>1, <2>1, <2>2 DEF ListedOnce
<1>9. \A j \in Shown!Items : notifier.said[j] <= notifier'.said[j]
  BY <1>1, <1>5 DEF Notifiers
<1> QED BY <1>2, <1>3, <1>5, <1>6, <1>8, <1>9, NoticeSent

-----------------------------------------------------------------------------
(* The interface: a notice is heard                                         *)

\* The row of an item that has one.
LEMMA RowOf ==
    ASSUME live \in Shown!AgentLive, RowsOnce(live.items), NEW i, Shown!Known(i)
    PROVE  /\ Shown!Position(i) \in 1..Len(live.items)
           /\ live.items[Shown!Position(i)].item = i
           /\ \A n \in 1..Len(live.items) : live.items[n].item = i <=> n = Shown!Position(i)
<1>1. live.items \in Seq(Shown!AgentLiveItem) /\ DOMAIN live.items = 1..Len(live.items)
  BY DEF Shown!AgentLive
<1>2. PICK p \in 1..Len(live.items) : live.items[p].item = i
  BY <1>1 DEF Shown!Known, Shown!Rows
<1>3. \A n \in 1..Len(live.items) : live.items[n].item = i => n = p
  BY <1>2 DEF RowsOnce
<1>4. p \in Shown!Rows(i) /\ \A m \in Shown!Rows(i) : m = p
  BY <1>1, <1>2, <1>3 DEF Shown!Rows
<1>5. p \in Nat /\ p <= p
  BY <1>1
<1>6. Shown!Position(i) = p
  BY <1>4, <1>5 DEF Shown!Position
<1> QED BY <1>2, <1>3, <1>6

\* An item that starts: it has a row, as it was or with what it comes with.
LEMMA StartedShown ==
    ASSUME live \in Shown!AgentLive, NEW v \in Views, NEW w \in Views, NEW m \in ItemNotices,
           TellsStarted(m, v, w), TextsShown(v), live' = Shown!ItemStarted(m.item, m.text)
    PROVE  /\ live' \in Shown!AgentLive /\ live'.seq = live.seq /\ live'.stage = "working"
           /\ TextsShown(w)'
           /\ Follow(live.items, v, m.item[1]) => Follow(live'.items, w, m.item[1])
<1> DEFINE i == m.item
           rows == live.items
<1>0. live # None
  BY NoneIsNone
<1>1. /\ rows \in Seq(Shown!AgentLiveItem) /\ Len(rows) \in Nat /\ RowsOnce(rows)
      /\ \A n \in 1..Len(rows) : TextShown(rows[n], v)
      /\ \A n \in 1..Len(rows) : rows[n] \in Shown!AgentLiveItem
  BY <1>0 DEF TextsShown, Shown!AgentLive
<1>2. /\ i \in Shown!Items /\ i[1] \in Shown!Turns /\ m.text \in Texts
      /\ v.said[i] \in Nat /\ v.listed[i[1]] \in Seq(Shown!Items)
  BY DEF ItemNotices, Views, Shown!Items
<1>3. w.said = v.said /\ w.ended = v.ended /\ v.ended[i] = "running"
  BY DEF TellsStarted
<1>4. PICK shown : shown = live'.items
  OBVIOUS
<1>5. shown = IF Shown!Known(i)
              THEN [rows EXCEPT ![Shown!Position(i)] = [@ EXCEPT !.state = "running"]]
              ELSE Append(rows, [item |-> i, state |-> "running", text |-> m.text])
  BY <1>4 DEF Shown!ItemStarted, Shown!AgentLive
<1>6. /\ live'.seq = live.seq /\ live'.stage = "working"
      /\ shown \in Seq(Shown!AgentLiveItem) => live' \in Shown!AgentLive
  BY <1>4 DEF Shown!ItemStarted, Shown!AgentLive
<1>7. CASE Shown!Known(i)
  <2>1. PICK p \in 1..Len(rows) :
           /\ p = Shown!Position(i) /\ rows[p].item = i
           /\ \A n \in 1..Len(rows) : rows[n].item = i <=> n = p
    BY <1>1, <1>7, RowOf
  <2>2. PICK row : row = [rows[p] EXCEPT !.state = "running"]
    OBVIOUS
  <2>3. /\ row \in Shown!AgentLiveItem /\ row.item = i /\ row.text = rows[p].text
        /\ row.state = "running"
    BY <1>1, <2>1, <2>2 DEF Shown!AgentLiveItem, Shown!States
  <2>4. shown = [rows EXCEPT ![p] = row]
    BY <1>5, <1>7, <2>1, <2>2
  <2>5. /\ shown \in Seq(Shown!AgentLiveItem) /\ Len(shown) = Len(rows)
        /\ shown[p] = row /\ \A n \in 1..Len(rows) : n # p => shown[n] = rows[n]
    BY <1>1, <2>1, <2>3, <2>4
  <2>6. \A n \in 1..Len(rows) : shown[n].item = rows[n].item /\ shown[n].text = rows[n].text
    BY <2>1, <2>3, <2>5
  <2>7. RowsOnce(shown) /\ \A n \in 1..Len(shown) : TextShown(shown[n], w)
    BY <1>1, <1>3, <2>5, <2>6 DEF RowsOnce, TextShown
  <2>8. ASSUME Follow(rows, v, i[1]) PROVE Follow(shown, w, i[1])
    <3>1. Listed(v, i) /\ w.listed = v.listed
      <4>1. Listed(v, i)
        BY <2>1, <2>8 DEF Follow, Listed
      <4> QED BY <4>1 DEF TellsStarted
    <3>2. \A n \in 1..Len(rows) : shown[n].state = v.ended[rows[n].item]
      BY <1>3, <2>1, <2>3, <2>5, <2>8 DEF Follow
    <3> QED BY <1>3, <2>5, <2>6, <2>8, <3>1, <3>2 DEF Follow
  <2> QED BY <1>4, <1>6, <2>5, <2>7, <2>8 DEF TextsShown
<1>8. CASE ~Shown!Known(i)
  <2>1. \A n \in 1..Len(rows) : rows[n].item # i
    BY <1>1, <1>8 DEF Shown!Known, Shown!Rows
  <2>2. PICK row : row = [item |-> i, state |-> "running", text |-> m.text]
    OBVIOUS
  <2>3. /\ row \in Shown!AgentLiveItem /\ row.item = i /\ row.text = m.text
        /\ row.state = "running"
    BY <1>2, <2>2 DEF Shown!AgentLiveItem, Shown!States, Texts
  <2>4. shown = Append(rows, row)
    BY <1>5, <1>8, <2>2
  <2>5. /\ shown \in Seq(Shown!AgentLiveItem) /\ Len(shown) = Len(rows) + 1
        /\ shown[Len(rows) + 1] = row /\ \A n \in 1..Len(rows) : shown[n] = rows[n]
    BY <1>1, <2>3, <2>4
  <2>6. RowsOnce(shown)
    <3>1. SUFFICES ASSUME NEW a \in 1..Len(shown), NEW b \in 1..Len(shown),
                          shown[a].item = shown[b].item
                   PROVE  a = b
      BY DEF RowsOnce
    <3>2. PICK last \in Nat : last = Len(rows) /\ Len(shown) = last + 1
      BY <1>1, <2>5
    <3>3. \A n \in 1..last : shown[n].item = rows[n].item /\ shown[n].item # i
      BY <2>1, <2>5, <3>2
    <3>4. shown[last + 1].item = i
      BY <2>3, <2>5, <3>2
    <3>5. CASE a \in 1..last /\ b \in 1..last
      BY <1>1, <3>1, <3>2, <3>3, <3>5 DEF RowsOnce
    <3>6. CASE a = last + 1 \/ b = last + 1
      BY <3>1, <3>2, <3>3, <3>4, <3>6
    <3> QED BY <3>2, <3>5, <3>6
  <2>7. TextShown(row, w)
    <3>1. m.text = <<>> \/ m.text = Shown!Upto(v.said[i])
      BY DEF TellsStarted
    <3>2. Seamless(<<>>)
      BY DEF Seamless
    <3> QED BY <1>2, <1>3, <2>3, <3>1, <3>2, WholeText DEF TextShown
  <2>8. \A n \in 1..Len(shown) : TextShown(shown[n], w)
    <3>1. \A n \in 1..Len(rows) : TextShown(rows[n], w)
      BY <1>1, <1>3 DEF TextShown
    <3> QED BY <1>1, <2>5, <2>7, <3>1
  <2>9. ASSUME Follow(rows, v, i[1]) PROVE Follow(shown, w, i[1])
    <3>1. ~Listed(v, i)
      BY <2>1, <2>9 DEF Follow, Listed
    <3>2. w.listed[i[1]] = Append(v.listed[i[1]], i)
      BY <1>2, <3>1 DEF TellsStarted, Views
    <3>3. /\ Len(w.listed[i[1]]) = Len(rows) + 1 /\ w.listed[i[1]][Len(rows) + 1] = i
          /\ \A n \in 1..Len(rows) : w.listed[i[1]][n] = v.listed[i[1]][n]
      <4>1. Len(v.listed[i[1]]) = Len(rows)
        BY <2>9 DEF Follow
      <4>2. PICK old, new : old = v.listed[i[1]] /\ new = w.listed[i[1]]
        OBVIOUS
      <4>3. old \in Seq(Shown!Items) /\ new = Append(old, i) /\ Len(old) = Len(rows)
        BY <1>2, <3>2, <4>1, <4>2
      <4>4. /\ Len(new) = Len(old) + 1 /\ new[Len(old) + 1] = i
            /\ \A n \in 1..Len(old) : new[n] = old[n]
        BY <4>3
      <4> QED BY <4>2, <4>3, <4>4
    <3>4. \A n \in 1..Len(rows) : shown[n].item = v.listed[i[1]][n] /\ shown[n].state = v.ended[shown[n].item]
      <4>1. \A n \in 1..Len(rows) : shown[n] = rows[n]
        BY <2>5
      <4> QED BY <2>9, <4>1 DEF Follow
    <3>5. ASSUME NEW n \in 1..Len(shown)
          PROVE  shown[n].item = w.listed[i[1]][n] /\ shown[n].state = w.ended[shown[n].item]
      <4>1. CASE n \in 1..Len(rows)
        BY <1>3, <3>3, <3>4, <4>1
      <4>2. CASE n = Len(rows) + 1
        BY <1>3, <2>3, <2>5, <3>3, <4>2
      <4> QED BY <1>1, <2>5, <4>1, <4>2
    <3> QED BY <2>5, <3>3, <3>5 DEF Follow
  <2> QED BY <1>4, <1>6, <2>5, <2>6, <2>8, <2>9 DEF TextsShown
<1> QED BY <1>7, <1>8

\* Rows of which one is changed keep their items.
LEMMA RowChanged ==
    ASSUME NEW rows \in Seq(Shown!AgentLiveItem), NEW p \in 1..Len(rows),
           NEW row \in Shown!AgentLiveItem, row.item = rows[p].item,
           NEW shown, shown = [rows EXCEPT ![p] = row]
    PROVE  /\ shown \in Seq(Shown!AgentLiveItem) /\ Len(shown) = Len(rows)
           /\ shown[p] = row /\ \A n \in 1..Len(rows) : n # p => shown[n] = rows[n]
           /\ \A n \in 1..Len(rows) : shown[n].item = rows[n].item
           /\ RowsOnce(rows) => RowsOnce(shown)
<1>1. /\ shown \in Seq(Shown!AgentLiveItem) /\ Len(shown) = Len(rows)
      /\ shown[p] = row /\ \A n \in 1..Len(rows) : n # p => shown[n] = rows[n]
  OBVIOUS
<1>2. \A n \in 1..Len(rows) : shown[n].item = rows[n].item
  BY <1>1
<1> QED BY <1>1, <1>2 DEF RowsOnce

\* Output is shown behind what is shown of its item.
LEMMA OutputShown ==
    ASSUME live \in Shown!AgentLive, NEW v \in Views, NEW w \in Views, NEW m \in ItemNotices,
           TellsOutput(m, v, w), TextsShown(v), live' = Shown!ItemOutput(m.item, m.text)
    PROVE  /\ live' \in Shown!AgentLive /\ live'.seq = live.seq /\ live'.stage = "working"
           /\ TextsShown(w)'
           /\ Follow(live.items, v, m.item[1]) => Follow(live'.items, w, m.item[1])
<1> DEFINE i == m.item
           rows == live.items
<1>0. live # None
  BY NoneIsNone
<1>1. /\ rows \in Seq(Shown!AgentLiveItem) /\ Len(rows) \in Nat /\ RowsOnce(rows)
      /\ \A n \in 1..Len(rows) : TextShown(rows[n], v)
      /\ \A n \in 1..Len(rows) : rows[n] \in Shown!AgentLiveItem
  BY <1>0 DEF TextsShown, Shown!AgentLive
<1>2. /\ i \in Shown!Items /\ m.text \in Seq(Nat)
      /\ v.said[i] \in Nat
  BY DEF ItemNotices, Views, Shown!Items, Texts
<1>3. /\ w.ended = v.ended /\ w.listed = v.listed /\ m.text = <<v.said[i] + 1>>
      /\ w.said[i] = v.said[i] + 1
      /\ \A j \in Shown!Items : j # i => w.said[j] = v.said[j]
  BY <1>2 DEF TellsOutput, Views
<1>4. PICK shown : shown = live'.items
  OBVIOUS
<1>5. shown = IF Shown!Known(i)
              THEN LET row == rows[Shown!Position(i)]
                   IN  [rows EXCEPT ![Shown!Position(i)] =
                           [row EXCEPT !.text = Shown!PushCapped(row.text, m.text)]]
              ELSE rows
  BY <1>4 DEF Shown!ItemOutput, Shown!AgentLive
<1>6. /\ live'.seq = live.seq /\ live'.stage = "working"
      /\ shown \in Seq(Shown!AgentLiveItem) => live' \in Shown!AgentLive
  BY <1>4 DEF Shown!ItemOutput, Shown!AgentLive
<1>7. CASE Shown!Known(i)
  <2>1. PICK p \in 1..Len(rows) :
           /\ p = Shown!Position(i) /\ rows[p].item = i
           /\ \A n \in 1..Len(rows) : rows[n].item = i <=> n = p
    BY <1>1, <1>7, RowOf
  <2>2. PICK old : old = rows[p].text
    OBVIOUS
  <2>3. old \in Seq(Nat) /\ Seamless(old) /\ (old # <<>> => old[Len(old)] = v.said[i])
    BY <1>1, <2>1, <2>2 DEF TextShown, Shown!AgentLiveItem
  <2>4. PICK text : text = Shown!PushCapped(old, m.text)
    OBVIOUS
  <2>5. text \in Seq(Nat) /\ Seamless(text) /\ (text # <<>> => text[Len(text)] = w.said[i])
    <3>1. /\ Seamless(old \o m.text) /\ (old \o m.text) # <<>>
          /\ (old \o m.text)[Len(old \o m.text)] = w.said[i]
      BY <1>2, <1>3, <2>3, NextChunk
    <3> QED BY <1>2, <2>3, <2>4, <3>1, PushedText, LiveBounds
  <2>6. PICK row : row = [rows[p] EXCEPT !.text = text]
    OBVIOUS
  <2>7. /\ row \in Shown!AgentLiveItem /\ row.item = i /\ row.text = text
        /\ row.state = rows[p].state /\ row.item = rows[p].item
    BY <1>1, <2>1, <2>5, <2>6 DEF Shown!AgentLiveItem
  <2>8. shown = [rows EXCEPT ![p] = row]
    BY <1>5, <1>7, <2>1, <2>2, <2>4, <2>6
  <2>9. /\ shown \in Seq(Shown!AgentLiveItem) /\ Len(shown) = Len(rows)
        /\ shown[p] = row /\ \A n \in 1..Len(rows) : n # p => shown[n] = rows[n]
        /\ \A n \in 1..Len(rows) : shown[n].item = rows[n].item
        /\ RowsOnce(shown)
    BY <1>1, <2>7, <2>8, RowChanged
  <2>10. \A n \in 1..Len(shown) : TextShown(shown[n], w)
    <3> SUFFICES ASSUME NEW n \in 1..Len(rows) PROVE TextShown(shown[n], w)
      BY <2>9
    <3>1. CASE n = p
      BY <2>5, <2>7, <2>9, <3>1 DEF TextShown
    <3>2. CASE n # p
      <4>1. shown[n] = rows[n] /\ rows[n].item # i /\ rows[n].item \in Shown!Items
        BY <1>1, <2>1, <2>9, <3>2 DEF Shown!AgentLiveItem
      <4> QED BY <1>1, <1>3, <4>1 DEF TextShown
    <3> QED BY <3>1, <3>2
  <2>11. ASSUME Follow(rows, v, i[1]) PROVE Follow(shown, w, i[1])
    <3>1. \A n \in 1..Len(rows) : shown[n].state = rows[n].state
      BY <2>7, <2>9
    <3> QED BY <1>3, <2>9, <2>11, <3>1 DEF Follow
  <2> QED BY <1>4, <1>6, <2>9, <2>10, <2>11 DEF TextsShown
<1>8. CASE ~Shown!Known(i)
  <2>1. shown = rows /\ \A n \in 1..Len(rows) : rows[n].item # i /\ rows[n].item \in Shown!Items
    BY <1>1, <1>5, <1>8 DEF Shown!Known, Shown!Rows, Shown!AgentLiveItem
  <2>2. \A n \in 1..Len(rows) : TextShown(rows[n], w)
    BY <1>1, <1>3, <2>1 DEF TextShown
  <2>3. Follow(rows, v, i[1]) => Follow(shown, w, i[1])
    BY <1>3, <2>1 DEF Follow
  <2> QED BY <1>1, <1>4, <1>6, <2>1, <2>2, <2>3 DEF TextsShown
<1> QED BY <1>7, <1>8

\* An item that finishes: its final text counts only where nothing is shown of it.
LEMMA FinishedShown ==
    ASSUME live \in Shown!AgentLive, NEW v \in Views, NEW w \in Views, NEW m \in ItemNotices,
           m.type = "finished",
           TellsFinished(m, v, w), TextsShown(v), live' = Shown!ItemFinished(m.item, m.state, m.text)
    PROVE  /\ live' \in Shown!AgentLive /\ live'.seq = live.seq /\ live'.stage = live.stage
           /\ TextsShown(w)'
           /\ Follow(live.items, v, m.item[1]) => Follow(live'.items, w, m.item[1])
<1> DEFINE i == m.item
           rows == live.items
<1>0. live # None
  BY NoneIsNone
<1>1. /\ rows \in Seq(Shown!AgentLiveItem) /\ Len(rows) \in Nat /\ RowsOnce(rows)
      /\ \A n \in 1..Len(rows) : TextShown(rows[n], v)
      /\ \A n \in 1..Len(rows) : rows[n] \in Shown!AgentLiveItem
  BY <1>0 DEF TextsShown, Shown!AgentLive
<1>2. /\ i \in Shown!Items /\ m.text \in Seq(Nat) /\ m.state \in Shown!States
      /\ v.said[i] \in Nat
  BY DEF ItemNotices, Views, Shown!Items, Texts, Shown!States
<1>3. /\ w.said = v.said /\ w.listed = v.listed /\ Listed(v, i)
      /\ m.text = <<>> \/ m.text = Shown!Upto(v.said[i])
      /\ w.ended[i] = m.state
      /\ \A j \in Shown!Items : j # i => w.ended[j] = v.ended[j]
  BY <1>2 DEF TellsFinished, Views
<1>4. PICK shown : shown = live'.items
  OBVIOUS
<1>5. shown = IF Shown!Known(i)
              THEN LET row == rows[Shown!Position(i)]
                       final == IF row.text = <<>> THEN Shown!PushCapped(row.text, m.text) ELSE row.text
                   IN  [rows EXCEPT ![Shown!Position(i)] =
                           [row EXCEPT !.state = m.state, !.text = final]]
              ELSE rows
  BY <1>4 DEF Shown!ItemFinished, Shown!AgentLive
<1>6. /\ live'.seq = live.seq /\ live'.stage = live.stage
      /\ shown \in Seq(Shown!AgentLiveItem) => live' \in Shown!AgentLive
  BY <1>4 DEF Shown!ItemFinished, Shown!AgentLive
<1>7. CASE Shown!Known(i)
  <2>1. PICK p \in 1..Len(rows) :
           /\ p = Shown!Position(i) /\ rows[p].item = i
           /\ \A n \in 1..Len(rows) : rows[n].item = i <=> n = p
    BY <1>1, <1>7, RowOf
  <2>2. PICK old : old = rows[p].text
    OBVIOUS
  <2>3. old \in Seq(Nat) /\ Seamless(old) /\ (old # <<>> => old[Len(old)] = v.said[i])
    BY <1>1, <2>1, <2>2 DEF TextShown, Shown!AgentLiveItem
  <2>4. PICK text : text = IF old = <<>> THEN Shown!PushCapped(old, m.text) ELSE old
    OBVIOUS
  <2>5. text \in Seq(Nat) /\ Seamless(text) /\ (text # <<>> => text[Len(text)] = w.said[i])
    <3>1. CASE old # <<>>
      BY <1>3, <2>3, <2>4, <3>1
    <3>2. CASE old = <<>>
      <4>1. old \o m.text = m.text
        BY <1>2, <3>2
      <4>2. Seamless(<<>>)
        BY DEF Seamless
      <4>3. Seamless(m.text) /\ (m.text # <<>> => m.text[Len(m.text)] = w.said[i])
        BY <1>2, <1>3, <4>2, WholeText
      <4>4. /\ text \in Seq(Nat) /\ Seamless(text)
            /\ text # <<>> => m.text # <<>> /\ text[Len(text)] = m.text[Len(m.text)]
        <5>1. TextTail \in Nat /\ text = Shown!PushCapped(old, m.text) /\ Seamless(old \o m.text)
          BY <2>4, <3>2, <4>1, <4>3, LiveBounds
        <5>2. /\ text \in Seq(Nat) /\ Seamless(text)
              /\ text # <<>> => (old \o m.text) # <<>>
                                  /\ text[Len(text)] = (old \o m.text)[Len(old \o m.text)]
          BY <1>2, <2>3, <5>1, PushedText
        <5> QED BY <4>1, <5>2
      <4> QED BY <4>3, <4>4
    <3> QED BY <3>1, <3>2
  <2>6. PICK row : row = [rows[p] EXCEPT !.state = m.state, !.text = text]
    OBVIOUS
  <2>7. /\ row \in Shown!AgentLiveItem /\ row.item = i /\ row.text = text
        /\ row.state = m.state /\ row.item = rows[p].item
    BY <1>1, <1>2, <2>1, <2>5, <2>6 DEF Shown!AgentLiveItem
  <2>8. shown = [rows EXCEPT ![p] = row]
    BY <1>5, <1>7, <2>1, <2>2, <2>4, <2>6
  <2>9. /\ shown \in Seq(Shown!AgentLiveItem) /\ Len(shown) = Len(rows)
        /\ shown[p] = row /\ \A n \in 1..Len(rows) : n # p => shown[n] = rows[n]
        /\ \A n \in 1..Len(rows) : shown[n].item = rows[n].item
        /\ RowsOnce(shown)
    BY <1>1, <2>7, <2>8, RowChanged
  <2>10. \A n \in 1..Len(shown) : TextShown(shown[n], w)
    <3> SUFFICES ASSUME NEW n \in 1..Len(rows) PROVE TextShown(shown[n], w)
      BY <2>9
    <3>1. CASE n = p
      BY <2>5, <2>7, <2>9, <3>1 DEF TextShown
    <3>2. CASE n # p
      BY <1>1, <1>3, <2>9, <3>2 DEF TextShown
    <3> QED BY <3>1, <3>2
  <2>11. ASSUME Follow(rows, v, i[1]) PROVE Follow(shown, w, i[1])
    <3> SUFFICES ASSUME NEW n \in 1..Len(rows) PROVE shown[n].state = w.ended[shown[n].item]
      BY <1>3, <2>9, <2>11 DEF Follow
    <3>1. CASE n = p
      BY <1>3, <2>7, <2>9, <3>1
    <3>2. CASE n # p
      <4>1. shown[n] = rows[n] /\ rows[n].item # i /\ rows[n].item \in Shown!Items
        BY <1>1, <2>1, <2>9, <3>2 DEF Shown!AgentLiveItem
      <4> QED BY <1>3, <2>11, <4>1 DEF Follow
    <3> QED BY <3>1, <3>2
  <2> QED BY <1>4, <1>6, <2>9, <2>10, <2>11 DEF TextsShown
<1>8. CASE ~Shown!Known(i)
  <2>1. shown = rows /\ \A n \in 1..Len(rows) : rows[n].item # i
    BY <1>1, <1>5, <1>8 DEF Shown!Known, Shown!Rows
  <2>2. \A n \in 1..Len(rows) : TextShown(rows[n], w)
    BY <1>1, <1>3 DEF TextShown
  <2>3. ~Follow(rows, v, i[1])
    BY <1>3, <2>1 DEF Follow, Listed
  <2> QED BY <1>1, <1>4, <1>6, <2>1, <2>2, <2>3 DEF TextsShown
<1> QED BY <1>7, <1>8

\* The session takes the first notice of the queue: what it has heard moves to the next view.
LEMMA NoticeHeard ==
    ASSUME LiveTypes, notices # <<>>, notices' = Tail(notices), UNCHANGED notifier,
           NEW views, Unheard(views)
    PROVE  /\ views[1] \in Views /\ views[2] \in Views /\ Tail(views)[1] = views[2]
           /\ ListedOnce(views[1]) /\ ListedOnce(views[2])
           /\ Head(notices) \in Notices /\ Head(notices) = notices[1]
           /\ Tells(notices[1], views[1], views[2])
           /\ \A i \in Shown!Items : views[2].said[i] <= notifier.said[i]
           /\ notices' \in Seq(Notices) /\ Len(notices') = Len(notices) - 1 /\ Len(notices) >= 1
           /\ \A p \in 1..Len(notices') : notices'[p] = notices[p + 1]
           /\ Unheard(Tail(views))'
<1>1. /\ views \in Seq(Views) /\ Len(views) = Len(notices) + 1 /\ views[Len(views)] = View
      /\ \A p \in 1..Len(views) :
            ListedOnce(views[p]) /\ \A i \in Shown!Items : views[p].said[i] <= notifier.said[i]
      /\ \A p \in 1..Len(notices) : Tells(notices[p], views[p], views[p + 1])
  BY DEF Unheard
<1>2. notices \in Seq(Notices) /\ Len(notices) \in Nat /\ Len(notices) >= 1
  BY DEF LiveTypes
<1>3. 1 \in 1..Len(views) /\ 2 \in 1..Len(views) /\ 1 \in 1..Len(notices)
  BY <1>1, <1>2
<1>4. /\ notices' \in Seq(Notices) /\ Len(notices') = Len(notices) - 1
      /\ \A p \in 1..Len(notices') : notices'[p] = notices[p + 1]
      /\ Head(notices) \in Notices /\ Head(notices) = notices[1]
  BY <1>2
<1>5. PICK later : later = Tail(views)
  OBVIOUS
<1>6. /\ later \in Seq(Views) /\ Len(later) = Len(views) - 1
      /\ \A p \in 1..Len(later) : later[p] = views[p + 1]
  BY <1>1, <1>3, <1>5
<1>7. later[1] = views[2]
  BY <1>1, <1>2, <1>6
<1>8. View' = View
  BY DEF View
<1>9. Unheard(later)'
  <2>1. Len(later) = Len(notices') + 1 /\ later[Len(later)] = View'
    BY <1>1, <1>2, <1>4, <1>6, <1>8
  <2>2. ASSUME NEW p \in 1..Len(later)
        PROVE  ListedOnce(later[p]) /\ \A i \in Shown!Items : later[p].said[i] <= notifier'.said[i]
    <3>1. p + 1 \in 1..Len(views) /\ later[p] = views[p + 1]
      BY <1>1, <1>2, <1>6
    <3> QED BY <1>1, <3>1
  <2>3. ASSUME NEW p \in 1..Len(notices') PROVE Tells(notices'[p], later[p], later[p + 1])
    <3>1. /\ p + 1 \in 1..Len(notices) /\ p \in 1..Len(later) /\ p + 1 \in 1..Len(later)
      BY <1>1, <1>2, <1>4, <1>6
    <3>2. later[p] = views[p + 1] /\ later[p + 1] = views[(p + 1) + 1] /\ notices'[p] = notices[p + 1]
      BY <1>4, <1>6, <3>1
    <3>3. Tells(notices[p + 1], views[p + 1], views[(p + 1) + 1])
      BY <1>1, <3>1
    <3> QED BY <3>2, <3>3
  <2> QED BY <1>6, <2>1, <2>2, <2>3 DEF Unheard, Tells, TellsStarted, TellsOutput,
             TellsFinished, ListedOnce, Listed
<1>10. views[1] \in Views /\ views[2] \in Views
  BY <1>1, <1>3
<1>11. /\ ListedOnce(views[1]) /\ ListedOnce(views[2])
       /\ \A i \in Shown!Items : views[2].said[i] <= notifier.said[i]
       /\ Tells(notices[1], views[1], views[2])
  <2>1. views[1 + 1] = views[2]
    OBVIOUS
  <2> QED BY <1>1, <1>3, <2>1
<1> QED BY <1>2, <1>4, <1>5, <1>7, <1>9, <1>10, <1>11

\* Hearing a notice while the turn goes on, once what is shown has followed it.
LEMMA TurnGoesOn ==
    ASSUME LiveInv, driver.pc = "driving", notices # <<>>, notices' = Tail(notices),
           UNCHANGED <<notifier, turns>>, driver'.seq = driver.seq,
           driver' \in [pc : {"driving", "asking"}, seq : 0..MaxTurns, outcome : Outcomes],
           Explained(driver'.outcome),
           live' \in Shown!AgentLive, live'.seq = live.seq,
           live'.stage = "awaiting" <=> driver'.pc = "asking",
           Head(notices).type # "end",
           \A v, w \in Views :
              Tells(Head(notices), v, w) /\ ListedOnce(v) /\ TextsShown(v) =>
                 /\ TextsShown(w)'
                 /\ (Head(notices) \in ItemNotices => Head(notices).item[1] = driver.seq)
                      /\ Follow(live.items, v, driver.seq) => Follow(live'.items, w, driver.seq)
    PROVE  LiveInv'
<1>1. /\ LiveTypes /\ LiveIsTurns /\ TextsRecorded /\ RowsRecorded /\ NotBegun
      /\ live # None /\ live' # None
  BY NoneIsNone DEF LiveInv, LiveIsTurns
<1>2. PICK views : Unheard(views) /\ TextsShown(views[1]) /\ OneTurn(views[1])
  BY DEF LiveInv
<1>3. /\ views[1] \in Views /\ views[2] \in Views /\ Tail(views)[1] = views[2]
      /\ ListedOnce(views[1]) /\ ListedOnce(views[2])
      /\ Head(notices) \in Notices /\ Head(notices) = notices[1]
      /\ Tells(notices[1], views[1], views[2])
      /\ notices' \in Seq(Notices) /\ Len(notices') = Len(notices) - 1 /\ Len(notices) >= 1
      /\ \A p \in 1..Len(notices') : notices'[p] = notices[p + 1]
      /\ Unheard(Tail(views))'
  BY <1>1, <1>2, NoticeHeard
<1>4. LiveTypes'
  BY <1>1, <1>3 DEF LiveTypes
<1>5. LiveIsTurns'
  BY <1>1 DEF LiveIsTurns
<1>6. TextsRecorded' /\ RowsRecorded' /\ NotBegun'
  <2>1. TextsRecorded'
    BY <1>1 DEF TextsRecorded
  <2>2. View' = View
    BY DEF View
  <2>3. RowsRecorded'
    BY <1>1, <2>2 DEF RowsRecorded, CompletedTo, Follow
  <2>4. NotBegun'
    BY <1>1 DEF NotBegun
  <2> QED BY <2>1, <2>3, <2>4
<1>7. TextsShown(views[2])'
  BY <1>2, <1>3
<1>8. OneTurn(views[2])'
  <2> SUFFICES ASSUME Orderly
               PROVE  /\ notifier.turn \in {0, driver.seq}
                      /\ \A p \in 1..Len(notices') :
                            /\ notices'[p] \in ItemNotices => notices'[p].item[1] = driver.seq
                            /\ notices'[p].type = "end" => p = Len(notices') /\ notifier.turn = 0
                      /\ Follow(live'.items, views[2], driver.seq)
    BY DEF OneTurn, Orderly, Follow
  <2>1. /\ notifier.turn \in {0, driver.seq}
        /\ \A p \in 1..Len(notices) :
              /\ notices[p] \in ItemNotices => notices[p].item[1] = driver.seq
              /\ notices[p].type = "end" => p = Len(notices) /\ notifier.turn = 0
        /\ Follow(live.items, views[1], driver.seq)
    BY <1>1, <1>2 DEF OneTurn
  <2>2. Len(notices) \in Nat /\ 1 \in 1..Len(notices)
    BY <1>1, <1>3 DEF LiveTypes
  <2>3. Follow(live'.items, views[2], driver.seq)
    BY <1>2, <1>3, <2>1, <2>2
  <2>4. ASSUME NEW p \in 1..Len(notices')
        PROVE  /\ notices'[p] \in ItemNotices => notices'[p].item[1] = driver.seq
               /\ notices'[p].type = "end" => p = Len(notices') /\ notifier.turn = 0
    <3>1. Len(notices') = Len(notices) - 1 /\ p >= 1 /\ p <= Len(notices') /\ p \in Nat
      BY <1>3, <2>2
    <3>2. p + 1 \in 1..Len(notices) /\ (p + 1 = Len(notices) => p = Len(notices'))
      <4>1. PICK k, n : k = Len(notices) /\ n = Len(notices')
        OBVIOUS
      <4>2. k \in Nat /\ n = k - 1 /\ p \in Nat /\ p >= 1 /\ p <= n
        BY <2>2, <3>1, <4>1
      <4>3. p + 1 \in 1..k /\ (p + 1 = k => p = n)
        BY <4>2
      <4> QED BY <4>1, <4>3
    <3>3. notices'[p] = notices[p + 1]
      BY <1>3
    <3> QED BY <2>1, <3>2, <3>3
  <2> QED BY <2>1, <2>3, <2>4
<1>9. PICK later : later = Tail(views)
  OBVIOUS
<1> QED BY <1>3, <1>4, <1>5, <1>6, <1>7, <1>8, <1>9 DEF LiveInv

\* The session hears of an item, of a message or of a question, or answers one.
LEMMA SessionHears ==
    ASSUME LiveInv,
           \/ Shown!ReceiveStarted \/ Shown!ReceiveOutput \/ Shown!ReceiveFinished
           \/ Shown!ReceiveMessage \/ Shown!ReceiveAsk
    PROVE  LiveInv'
<1> DEFINE m == Head(notices)
<1>1. LiveTypes /\ LiveIsTurns
  BY DEF LiveInv
<1>2. /\ driver.pc = "driving" /\ notices # <<>> /\ notices' = Tail(notices)
      /\ UNCHANGED <<notifier, turns>>
  BY DEF Shown!Receive, Shown!ReceiveStarted, Shown!ReceiveOutput, Shown!ReceiveFinished,
         Shown!ReceiveMessage, Shown!ReceiveAsk
<1>3. /\ live # None /\ live \in Shown!AgentLive /\ live.seq = driver.seq /\ live.stage # "awaiting"
      /\ Explained(driver.outcome)
      /\ driver \in [pc : {"driving", "asking"}, seq : 0..MaxTurns, outcome : Outcomes]
  BY <1>1, <1>2 DEF LiveTypes, LiveIsTurns
<1>4. \A next : Shown!WithLive(next) => live' = next
  BY <1>3 DEF Shown!WithLive
<1>5. m \in Notices
  BY <1>1, <1>2 DEF LiveTypes
<1> HIDE DEF m
<1>6. ASSUME m.type \in {"started", "output", "finished"} PROVE m \in ItemNotices
  BY <1>5, <1>6 DEF Notices, ItemNotices
<1>7. ASSUME NEW v \in Views, NEW t PROVE Follow(live.items, v, t) => Follow(live.items, v, t)
  OBVIOUS
<1>8. ASSUME Shown!ReceiveStarted \/ Shown!ReceiveOutput \/ Shown!ReceiveFinished
      PROVE  LiveInv'
  <2>1. driver' = driver /\ m.type \in {"started", "output", "finished"} /\ m \in ItemNotices
    BY <1>6, <1>8 DEF Shown!Receive, Shown!ReceiveStarted, Shown!ReceiveOutput,
       Shown!ReceiveFinished, m
  <2>2. ASSUME NEW v \in Views, NEW w \in Views, Tells(m, v, w), ListedOnce(v), TextsShown(v)
        PROVE  /\ TextsShown(w)'
               /\ Follow(live.items, v, m.item[1]) => Follow(live'.items, w, m.item[1])
    <3>1. CASE Shown!ReceiveStarted
      <4>1. m.type = "started" /\ live' = Shown!ItemStarted(m.item, m.text)
        BY <1>4, <3>1 DEF Shown!ReceiveStarted, Shown!Receive, m
      <4>2. TellsStarted(m, v, w)
        BY <2>2, <4>1 DEF Tells
      <4> QED BY <1>3, <2>1, <2>2, <4>1, <4>2, StartedShown
    <3>2. CASE Shown!ReceiveOutput
      <4>1. m.type = "output" /\ live' = Shown!ItemOutput(m.item, m.text)
        BY <1>4, <3>2 DEF Shown!ReceiveOutput, Shown!Receive, m
      <4>2. TellsOutput(m, v, w)
        BY <2>2, <4>1 DEF Tells
      <4> QED BY <1>3, <2>1, <2>2, <4>1, <4>2, OutputShown
    <3>3. CASE Shown!ReceiveFinished
      <4>1. m.type = "finished" /\ live' = Shown!ItemFinished(m.item, m.state, m.text)
        BY <1>4, <3>3 DEF Shown!ReceiveFinished, Shown!Receive, m
      <4>2. TellsFinished(m, v, w)
        BY <2>2, <4>1 DEF Tells
      <4> QED BY <1>3, <2>1, <2>2, <4>1, <4>2, FinishedShown
    <3> QED BY <1>8, <3>1, <3>2, <3>3
  <2>3. live' \in Shown!AgentLive /\ live'.seq = live.seq /\ live'.stage # "awaiting"
    <3>1. PICK views : Unheard(views) /\ TextsShown(views[1])
      BY DEF LiveInv
    <3>2. /\ views[1] \in Views /\ views[2] \in Views /\ ListedOnce(views[1])
          /\ Tells(m, views[1], views[2])
      BY <1>1, <1>2, <3>1, NoticeHeard DEF m
    <3>3. CASE Shown!ReceiveStarted
      <4>1. m.type = "started" /\ live' = Shown!ItemStarted(m.item, m.text)
        BY <1>4, <3>3 DEF Shown!ReceiveStarted, Shown!Receive, m
      <4>2. TellsStarted(m, views[1], views[2])
        BY <3>2, <4>1 DEF Tells
      <4> QED BY <1>3, <2>1, <3>1, <3>2, <4>1, <4>2, StartedShown
    <3>4. CASE Shown!ReceiveOutput
      <4>1. m.type = "output" /\ live' = Shown!ItemOutput(m.item, m.text)
        BY <1>4, <3>4 DEF Shown!ReceiveOutput, Shown!Receive, m
      <4>2. TellsOutput(m, views[1], views[2])
        BY <3>2, <4>1 DEF Tells
      <4> QED BY <1>3, <2>1, <3>1, <3>2, <4>1, <4>2, OutputShown
    <3>5. CASE Shown!ReceiveFinished
      <4>1. m.type = "finished" /\ live' = Shown!ItemFinished(m.item, m.state, m.text)
        BY <1>4, <3>5 DEF Shown!ReceiveFinished, Shown!Receive, m
      <4>2. TellsFinished(m, views[1], views[2])
        BY <3>2, <4>1 DEF Tells
      <4> QED BY <1>3, <2>1, <3>1, <3>2, <4>1, <4>2, FinishedShown
    <3> QED BY <1>8, <3>3, <3>4, <3>5
  <2>4. \A v, w \in Views :
           Tells(m, v, w) /\ ListedOnce(v) /\ TextsShown(v) =>
              /\ TextsShown(w)'
              /\ (m \in ItemNotices => m.item[1] = driver.seq) /\ Follow(live.items, v, driver.seq)
                    => Follow(live'.items, w, driver.seq)
    BY <2>1, <2>2
  <2> QED BY <1>2, <1>3, <2>1, <2>3, <2>4, TurnGoesOn DEF m
<1>9. ASSUME Shown!ReceiveMessage \/ Shown!ReceiveAsk PROVE LiveInv'
  <2>1. /\ m.type \in {"message", "ask"}
        /\ live'.items = live.items /\ live'.seq = live.seq /\ live' \in Shown!AgentLive
        /\ live'.stage = IF m.type = "ask" THEN "awaiting" ELSE "writing"
    <3>1. CASE Shown!ReceiveMessage
      <4>1. m.type = "message" /\ live' = [live EXCEPT !.stage = "writing"]
        BY <1>4, <3>1 DEF Shown!ReceiveMessage, Shown!Receive, m
      <4> QED BY <1>3, <4>1 DEF Shown!AgentLive
    <3>2. CASE Shown!ReceiveAsk
      <4>1. m.type = "ask" /\ live' = [live EXCEPT !.stage = "awaiting"]
        BY <1>4, <3>2 DEF Shown!ReceiveAsk, Shown!Receive, m
      <4> QED BY <1>3, <4>1 DEF Shown!AgentLive
    <3> QED BY <1>9, <3>1, <3>2
  <2>2. /\ driver' \in [pc : {"driving", "asking"}, seq : 0..MaxTurns, outcome : Outcomes]
        /\ driver'.seq = driver.seq /\ Explained(driver'.outcome)
        /\ driver'.pc = IF m.type = "ask" THEN "asking" ELSE "driving"
    <3>1. CASE Shown!ReceiveMessage
      <4>1. m.type = "message" /\ driver' = [driver EXCEPT !.outcome = Shown!Heard(@, m.body)]
        BY <3>1 DEF Shown!ReceiveMessage, Shown!Receive, m
      <4>2. m.body \in Shown!Bodies
        BY <1>5, <4>1 DEF Notices, ItemNotices
      <4>3. PICK o : o = driver.outcome
        OBVIOUS
      <4>4. PICK heard_ : heard_ = Shown!Heard(o, m.body)
        OBVIOUS
      <4>5. o \in Outcomes
        BY <1>3, <4>3
      <4>6. heard_ \in Outcomes
        BY <4>2, <4>4, <4>5 DEF Outcomes, Shown!Heard
      <4>7. Explained(heard_)
        <5>1. /\ heard_.report = IF m.body = "prose" THEN o.report ELSE m.body
              /\ heard_.reason = (o.reason \/ m.body # "report")
          BY <4>4 DEF Shown!Heard
        <5> QED BY <4>2, <5>1 DEF Explained, Shown!Bodies
      <4> QED BY <1>2, <1>3, <4>1, <4>3, <4>4, <4>6, <4>7
    <3>2. CASE Shown!ReceiveAsk
      <4>1. m.type = "ask" /\ driver' = [driver EXCEPT !.pc = "asking"]
        BY <3>2 DEF Shown!ReceiveAsk, Shown!Receive, m
      <4> QED BY <1>3, <4>1
    <3> QED BY <1>9, <3>1, <3>2
  <2>3. live' # None
    BY <2>1, NoneIsNone
  <2>4. \A v, w \in Views :
           Tells(m, v, w) /\ ListedOnce(v) /\ TextsShown(v) =>
              /\ TextsShown(w)'
              /\ (m \in ItemNotices => m.item[1] = driver.seq) /\ Follow(live.items, v, driver.seq)
                    => Follow(live'.items, w, driver.seq)
    <3> SUFFICES ASSUME NEW v \in Views, NEW w \in Views, Tells(m, v, w), TextsShown(v)
                 PROVE  /\ TextsShown(w)'
                        /\ Follow(live.items, v, driver.seq) => Follow(live'.items, w, driver.seq)
      OBVIOUS
    <3>1. w = v
      BY <2>1 DEF Tells
    <3> QED BY <1>3, <2>1, <3>1 DEF TextsShown, Follow
  <2>5. live'.stage = "awaiting" <=> driver'.pc = "asking"
    BY <2>1, <2>2
  <2> QED BY <1>2, <1>3, <2>1, <2>2, <2>4, <2>5, TurnGoesOn DEF m
<1> QED BY <1>8, <1>9

\* What is unheard of a runtime that does nothing, when nothing is heard, is as it was.
LEMMA StillUnheard ==
    ASSUME NEW views, Unheard(views), notices' = notices,
           notifier'.said = notifier.said, notifier'.listed = notifier.listed,
           notifier'.ended = notifier.ended
    PROVE  Unheard(views)' /\ View' = View
<1>1. View' = View
  BY DEF View
<1>2. /\ views \in Seq(Views) /\ Len(views) = Len(notices') + 1 /\ views[Len(views)] = View'
      /\ \A p \in 1..Len(views) :
            ListedOnce(views[p]) /\ \A i \in Shown!Items : views[p].said[i] <= notifier'.said[i]
  BY <1>1 DEF Unheard
<1>3. \A p \in 1..Len(notices') : Tells(notices'[p], views[p], views[p + 1])
  BY DEF Unheard
<1> QED BY <1>1, <1>2, <1>3 DEF Unheard, Tells, TellsStarted, TellsOutput, TellsFinished,
           ListedOnce, Listed

\* The owner's answer: the stage is set back with the wait.
LEMMA SessionAnswers ==
    ASSUME LiveInv, Shown!Answered
    PROVE  LiveInv'
<1>1. /\ LiveTypes /\ LiveIsTurns /\ TextsRecorded /\ RowsRecorded /\ NotBegun
      /\ driver.pc = "asking" /\ UNCHANGED <<notifier, notices, turns>>
      /\ driver' = [driver EXCEPT !.pc = "driving"]
  BY DEF LiveInv, Shown!Answered
<1>2. PICK views : Unheard(views) /\ TextsShown(views[1]) /\ OneTurn(views[1])
  BY DEF LiveInv
<1>3. live # None /\ live \in Shown!AgentLive /\ live.seq = driver.seq
  BY <1>1 DEF LiveTypes, LiveIsTurns
<1>4. /\ live' = [live EXCEPT !.stage = "working"]
      /\ driver' \in [pc : {"idle", "starting", "driving", "asking"}, seq : 0..MaxTurns,
                      outcome : Outcomes]
      /\ driver'.pc = "driving" /\ driver'.seq = driver.seq /\ driver'.outcome = driver.outcome
  BY <1>1, <1>3 DEF Shown!Answered, Shown!WithLive, LiveTypes
<1>5. /\ live' \in Shown!AgentLive /\ live'.items = live.items /\ live'.seq = live.seq
      /\ live'.stage = "working"
  BY <1>3, <1>4 DEF Shown!AgentLive
<1>6. live' # None
  BY <1>5, NoneIsNone
<1>7. LiveTypes'
  BY <1>1, <1>4, <1>5 DEF LiveTypes
<1>8. LiveIsTurns'
  BY <1>1, <1>3, <1>4, <1>5, <1>6 DEF LiveIsTurns
<1>9. View' = View
  BY <1>1 DEF View
<1>10. TextsRecorded' /\ RowsRecorded' /\ NotBegun'
  <2>1. TextsRecorded'
    BY <1>1 DEF TextsRecorded
  <2>2. RowsRecorded'
    BY <1>1, <1>9 DEF RowsRecorded, CompletedTo, Follow
  <2>3. NotBegun'
    BY <1>1 DEF NotBegun
  <2> QED BY <2>1, <2>2, <2>3
<1>11. Unheard(views)'
  BY <1>1, <1>2, StillUnheard
<1>12. TextsShown(views[1])'
  BY <1>2, <1>3, <1>5 DEF TextsShown
<1>13. OneTurn(views[1])'
  BY <1>1, <1>2, <1>3, <1>4, <1>5 DEF OneTurn, Orderly, Follow
<1> QED BY <1>7, <1>8, <1>10, <1>11, <1>12, <1>13 DEF LiveInv

-----------------------------------------------------------------------------
(* The interface: a turn begins and ends                                    *)

\* A question is asked: its turn is the next one, of which nothing is known yet.
LEMMA TurnBegins ==
    ASSUME LiveInv, Shown!BeginTurn
    PROVE  LiveInv'
<1> DEFINE t == Len(turns) + 1
<1>1. /\ LiveTypes /\ LiveIsTurns /\ TextsRecorded /\ RowsRecorded /\ NotBegun
      /\ driver.pc = "idle" /\ Len(turns) < MaxTurns /\ UNCHANGED <<notifier, notices>>
      /\ turns \in Seq(Records) /\ Len(turns) \in Nat /\ live = None
      /\ Len(turns) = driver.seq /\ notifier.turn \in 0..MaxTurns
  BY DEF LiveInv, Shown!BeginTurn, LiveTypes, LiveIsTurns
<1>2. PICK views : Unheard(views) /\ TextsShown(views[1]) /\ OneTurn(views[1])
  BY DEF LiveInv
<1>3. PICK record : record = [items |-> <<>>, outcome |-> Shown!NoOutcome, end |-> None]
  OBVIOUS
<1>4. Shown!NoOutcome \in Outcomes /\ Explained(Shown!NoOutcome)
  <2>1. <<>> \in Seq(Shown!Bodies)
    OBVIOUS
  <2> QED BY <2>1 DEF Outcomes, Explained, Shown!NoOutcome
<1>5. record \in Records
  <2>1. <<>> \in Seq(Shown!AgentLiveItem)
    OBVIOUS
  <2> QED BY <1>3, <1>4, <2>1 DEF Records
<1>6. /\ turns' \in Seq(Records) /\ Len(turns') = t /\ turns'[t] = record
      /\ \A u \in 1..Len(turns) : turns'[u] = turns[u]
  <2>1. turns' = Append(turns, record)
    BY <1>3 DEF Shown!BeginTurn
  <2> QED BY <1>1, <1>5, <2>1
<1>7. t \in 1..MaxTurns /\ t \in Shown!Turns /\ t \in 0..MaxTurns
  BY <1>1, LiveBounds DEF Shown!Turns
<1>8. /\ driver'.pc = "starting" /\ driver'.seq = t /\ driver'.outcome = Shown!NoOutcome
      /\ driver' \in [pc : {"idle", "starting", "driving", "asking"}, seq : 0..MaxTurns,
                      outcome : Outcomes]
  BY <1>4, <1>7 DEF Shown!BeginTurn
<1>9. /\ live' \in Shown!AgentLive /\ live'.seq = t /\ live'.items = <<>>
      /\ live'.stage = "thinking"
  <2>1. <<>> \in Seq(Shown!AgentLiveItem)
    OBVIOUS
  <2> QED BY <1>7, <2>1 DEF Shown!BeginTurn, Shown!AgentLive
<1>10. live' # None
  BY <1>9, NoneIsNone
<1>11. LiveTypes'
  BY <1>1, <1>6, <1>8, <1>9 DEF LiveTypes
<1>12. record.items = <<>> /\ record.end = None /\ record.outcome = Shown!NoOutcome
  BY <1>3
<1>13. \A u \in 1..Len(turns') : u \in 1..Len(turns) \/ u = t
  BY <1>1, <1>6
<1>14. \A u \in 1..Len(turns) : u \in 1..Len(turns') /\ u # t
  BY <1>1, <1>6
<1>15. LiveIsTurns'
  <2>1. ASSUME NEW u \in 1..Len(turns')
        PROVE  turns'[u].end = None <=> u = t
    <3>1. CASE u = t
      BY <1>6, <1>12, <3>1
    <3>2. CASE u \in 1..Len(turns)
      <4>1. turns[u].end # None
        BY <1>1, <3>2 DEF LiveIsTurns
      <4> QED BY <1>6, <1>14, <3>2, <4>1
    <3> QED BY <1>13, <3>1, <3>2
  <2>2. ASSUME NEW u \in 1..Len(turns') PROVE Explained(turns'[u].outcome)
    BY <1>1, <1>4, <1>6, <1>12, <1>13 DEF LiveIsTurns
  <2> HIDE DEF t
  <2> QED BY <1>4, <1>6, <1>8, <1>9, <1>10, <2>1, <2>2 DEF LiveIsTurns
<1>16. TextsRecorded'
  <2> SUFFICES ASSUME NEW u \in 1..Len(turns'), NEW n \in 1..Len(turns'[u].items)
               PROVE  /\ Seamless(turns'[u].items[n].text)
                      /\ turns'[u].items[n].text # <<>> =>
                            turns'[u].items[n].text[Len(turns'[u].items[n].text)]
                               <= notifier.said[turns'[u].items[n].item]
    BY <1>1 DEF TextsRecorded
  <2>1. u # t
    BY <1>6, <1>12
  <2>2. u \in 1..Len(turns) /\ turns'[u] = turns[u]
    BY <1>6, <1>13, <2>1
  <2> QED BY <1>1, <2>2 DEF TextsRecorded
<1>17. View' = View
  BY <1>1 DEF View
<1>18. RowsRecorded'
  <2> SUFFICES ASSUME NEW u \in 1..Len(turns'), CompletedTo(u)'
               PROVE  notifier.turn # u /\ Follow(turns'[u].items, View, u)
    BY <1>1, <1>17 DEF RowsRecorded, Follow
  <2>1. u # t
    <3>1. \A k \in 1..u : turns'[k].end = "completed"
      BY DEF CompletedTo
    <3>2. u \in 1..u
      BY <1>13, <1>7
    <3> QED BY <1>6, <1>12, <3>1, <3>2, NoneIsNone
  <2>2. u \in 1..Len(turns) /\ turns'[u] = turns[u]
    BY <1>6, <1>13, <2>1
  <2>3. CompletedTo(u)
    <3>1. \A k \in 1..u : k \in 1..Len(turns)
      BY <1>1, <2>2
    <3> QED BY <1>6, <3>1 DEF CompletedTo
  <2> QED BY <1>1, <2>2, <2>3 DEF RowsRecorded
<1>19. NotBegun'
  <2>1. notifier.turn <= t
    BY <1>1 DEF NotBegun
  <2>2. \A u \in Shown!Turns : u > t => u > Len(turns)
    BY <1>1 DEF Shown!Turns
  <2> QED BY <1>1, <1>6, <2>1, <2>2 DEF NotBegun
<1>20. Unheard(views)'
  BY <1>1, <1>2, StillUnheard
<1>21. TextsShown(views[1])'
  <2>1. \A n \in 1..Len(live'.items) : FALSE
    BY <1>9
  <2> QED BY <2>1 DEF TextsShown, RowsOnce
<1>22. OneTurn(views[1])'
  <2> SUFFICES ASSUME Orderly'
               PROVE  notices = <<>> /\ notifier.turn = 0 /\ Follow(<<>>, views[1], t)
    BY <1>1, <1>8, <1>9 DEF OneTurn, Follow
  <2>1. Orderly
    BY <1>6, <1>14 DEF Orderly
  <2>2. notices = <<>> /\ notifier.turn = 0
    BY <1>1, <1>2, <2>1 DEF OneTurn
  <2>3. views[1] = View
    BY <1>2, <2>2 DEF Unheard
  <2>4. View.listed[t] = <<>>
    BY <1>1, <1>7 DEF NotBegun, View
  <2>5. Len(<<>>) = 0 /\ \A n \in 1..0 : FALSE
    OBVIOUS
  <2> QED BY <2>2, <2>3, <2>4, <2>5 DEF Follow
<1> QED BY <1>11, <1>15, <1>16, <1>18, <1>19, <1>20, <1>21, <1>22 DEF LiveInv

\* turn/start: the runtime works on this turn, or still on another.
LEMMA TurnIsTaken ==
    ASSUME LiveInv, Shown!TurnStarts
    PROVE  LiveInv'
<1>1. /\ LiveTypes /\ LiveIsTurns /\ TextsRecorded /\ RowsRecorded /\ NotBegun
      /\ driver.pc = "starting" /\ UNCHANGED <<notices, turns>>
      /\ driver' = [driver EXCEPT !.pc = "driving"]
      /\ notifier' = [notifier EXCEPT !.turn = IF @ = 0 THEN driver.seq ELSE @]
  BY DEF LiveInv, Shown!TurnStarts
<1>2. PICK views : Unheard(views) /\ TextsShown(views[1]) /\ OneTurn(views[1])
  BY DEF LiveInv
<1>3. live # None /\ live \in Shown!AgentLive /\ live.seq = driver.seq
  BY <1>1 DEF LiveTypes, LiveIsTurns
<1>4. /\ live' = [live EXCEPT !.stage = "thinking"]
      /\ driver' \in [pc : {"idle", "starting", "driving", "asking"}, seq : 0..MaxTurns,
                      outcome : Outcomes]
      /\ driver'.pc = "driving" /\ driver'.seq = driver.seq /\ driver'.outcome = driver.outcome
      /\ driver.seq \in 0..MaxTurns
  BY <1>1, <1>3 DEF Shown!TurnStarts, Shown!WithLive, LiveTypes
<1>5. /\ live' \in Shown!AgentLive /\ live'.items = live.items /\ live'.seq = live.seq
      /\ live'.stage = "thinking"
  BY <1>3, <1>4 DEF Shown!AgentLive
<1>6. live' # None
  BY <1>5, NoneIsNone
<1>7. /\ notifier' \in Notifiers
      /\ notifier'.said = notifier.said /\ notifier'.listed = notifier.listed
      /\ notifier'.ended = notifier.ended
      /\ notifier'.turn = IF notifier.turn = 0 THEN driver.seq ELSE notifier.turn
  <2>1. notifier \in Notifiers
    BY <1>1 DEF LiveTypes, Notifiers
  <2> QED BY <1>1, <1>4, <2>1 DEF Notifiers
<1>8. LiveTypes'
  BY <1>1, <1>4, <1>5, <1>7 DEF LiveTypes, Notifiers
<1>9. LiveIsTurns'
  BY <1>1, <1>3, <1>4, <1>5, <1>6 DEF LiveIsTurns
<1>10. Unheard(views)' /\ View' = View
  BY <1>1, <1>2, <1>7, StillUnheard
<1>11. TextsRecorded'
  BY <1>1, <1>7 DEF TextsRecorded
<1>12. RowsRecorded'
  <2> SUFFICES ASSUME NEW u \in 1..Len(turns), CompletedTo(u) PROVE notifier'.turn # u
    BY <1>1, <1>10 DEF RowsRecorded, CompletedTo, Follow
  <2>1. notifier.turn # u
    BY <1>1 DEF RowsRecorded
  <2>2. u # driver.seq
    <3>1. turns[u].end = "completed"
      BY DEF CompletedTo
    <3> QED BY <1>1, <1>3, <3>1, NoneIsNone DEF LiveIsTurns
  <2> QED BY <1>7, <2>1, <2>2
<1>13. NotBegun'
  <2>1. notifier'.turn <= Len(turns)
    BY <1>1, <1>4, <1>7 DEF NotBegun, LiveIsTurns
  <2> QED BY <1>1, <1>7, <2>1 DEF NotBegun
<1>14. TextsShown(views[1])'
  BY <1>2, <1>3, <1>5 DEF TextsShown
<1>15. OneTurn(views[1])'
  <2> SUFFICES ASSUME Orderly
               PROVE  /\ notifier'.turn \in {0, driver.seq} /\ notices' = <<>>
                      /\ Follow(live'.items, views[1], driver'.seq)
    <3>1. notices' = <<>> => \A p \in 1..Len(notices') : FALSE
      OBVIOUS
    <3> QED BY <1>1, <1>4, <3>1 DEF OneTurn, Orderly, Follow
  <2>1. notifier.turn = 0 /\ notices = <<>> /\ Follow(live.items, views[1], driver.seq)
    BY <1>1, <1>2, <1>3 DEF OneTurn
  <2> QED BY <1>1, <1>4, <1>5, <1>7, <2>1
<1> QED BY <1>8, <1>9, <1>10, <1>11, <1>12, <1>13, <1>14, <1>15 DEF LiveInv

\* What was live is recorded, under the turn's number, and the live view is gone.
LEMMA TurnRecorded ==
    ASSUME LiveInv, driver.pc # "idle", NEW end \in {"completed", "given_up"},
           NEW o \in Outcomes, Explained(o),
           NEW record, record = [items |-> live.items, end |-> end, outcome |-> o],
           turns' = [turns EXCEPT ![driver.seq] = record],
           live' = None, driver' = [driver EXCEPT !.pc = "idle"],
           notifier'.said = notifier.said,
           NEW v \in Views, TextsShown(v), \A i \in Shown!Items : v.said[i] <= notifier.said[i]
    PROVE  /\ turns' \in Seq(Records) /\ Len(turns') = Len(turns)
           /\ driver.seq \in 1..Len(turns) /\ Len(turns) = driver.seq
           /\ turns'[driver.seq].items = live.items /\ turns'[driver.seq].end = end
           /\ \A u \in 1..Len(turns) : u # driver.seq => turns'[u] = turns[u]
           /\ live' = None /\ turns[driver.seq].end = None
           /\ driver' \in [pc : {"idle"}, seq : 0..MaxTurns, outcome : Outcomes]
           /\ driver'.seq = driver.seq
           /\ LiveIsTurns' /\ TextsRecorded'
<1>1. /\ LiveTypes /\ LiveIsTurns /\ TextsRecorded
      /\ turns \in Seq(Records) /\ Len(turns) \in Nat /\ live # None /\ live \in Shown!AgentLive
      /\ live.seq = driver.seq /\ Len(turns) = driver.seq
      /\ driver' = [driver EXCEPT !.pc = "idle"] /\ live' = None
  BY DEF LiveInv, LiveTypes, LiveIsTurns
<1>2. driver.seq \in 1..Len(turns) /\ live.items \in Seq(Shown!AgentLiveItem)
  BY <1>1, LiveBounds DEF Shown!AgentLive, Shown!Turns
<1>4. /\ record \in Records /\ record.items = live.items /\ record.end = end
      /\ record.outcome = o
  BY <1>2 DEF Records
<1>6. /\ turns' \in Seq(Records) /\ Len(turns') = Len(turns) /\ turns'[driver.seq] = record
      /\ \A u \in 1..Len(turns) : u # driver.seq => turns'[u] = turns[u]
  BY <1>1, <1>2, <1>4
<1>7. /\ driver' \in [pc : {"idle"}, seq : 0..MaxTurns, outcome : Outcomes]
      /\ driver'.seq = driver.seq /\ driver'.pc = "idle" /\ driver'.outcome = driver.outcome
  BY <1>1 DEF LiveTypes
<1>8. turns[driver.seq].end = None
  BY <1>1, <1>2 DEF LiveIsTurns
<1>9. LiveIsTurns'
  <2>1. \A u \in 1..Len(turns') : turns'[u].end # None
    <3> SUFFICES ASSUME NEW u \in 1..Len(turns) PROVE turns'[u].end # None
      BY <1>6
    <3>1. CASE u = driver.seq
      BY <1>4, <1>6, <3>1, NoneIsNone
    <3>2. CASE u # driver.seq
      BY <1>1, <1>6, <3>2 DEF LiveIsTurns
    <3> QED BY <3>1, <3>2
  <2>2. \A u \in 1..Len(turns') : Explained(turns'[u].outcome)
    <3> SUFFICES ASSUME NEW u \in 1..Len(turns) PROVE Explained(turns'[u].outcome)
      BY <1>6
    <3>1. CASE u = driver.seq
      BY <1>4, <1>6, <3>1
    <3>2. CASE u # driver.seq
      BY <1>1, <1>6, <3>2 DEF LiveIsTurns
    <3> QED BY <3>1, <3>2
  <2>3. Explained(driver.outcome)
    BY <1>1 DEF LiveIsTurns
  <2> QED BY <1>1, <1>6, <1>7, <2>1, <2>2, <2>3 DEF LiveIsTurns
<1>10. TextsRecorded'
  <2> SUFFICES ASSUME NEW u \in 1..Len(turns'), NEW n \in 1..Len(turns'[u].items),
                      NEW entry, entry = turns'[u].items[n]
               PROVE  /\ Seamless(entry.text)
                      /\ entry.text # <<>> =>
                            entry.text[Len(entry.text)] <= notifier.said[entry.item]
    BY DEF TextsRecorded
  <2>1. CASE u = driver.seq
    <3>1. n \in 1..Len(live.items) /\ entry = live.items[n]
      BY <1>4, <1>6, <2>1
    <3>2. TextShown(entry, v) /\ entry \in Shown!AgentLiveItem
      BY <1>1, <1>2, <3>1 DEF TextsShown
    <3>3. v.said[entry.item] <= notifier.said[entry.item]
      BY <3>2 DEF Shown!AgentLiveItem
    <3> QED BY <3>2, <3>3 DEF TextShown
  <2>2. CASE u # driver.seq
    BY <1>1, <1>6, <2>2 DEF TextsRecorded
  <2> QED BY <2>1, <2>2
<1> QED BY <1>1, <1>2, <1>4, <1>6, <1>7, <1>8, <1>9, <1>10

\* A turn that is given up.
LEMMA TurnGivenUp ==
    ASSUME LiveInv, Shown!GiveUp
    PROVE  LiveInv'
<1>1. /\ LiveTypes /\ LiveIsTurns /\ RowsRecorded /\ NotBegun
      /\ driver.pc # "idle" /\ notices' = notices
      /\ live' = None /\ driver' = [driver EXCEPT !.pc = "idle"]
      /\ notifier' = notifier \/ notifier' = [notifier EXCEPT !.turn = 0]
  BY DEF LiveInv, Shown!GiveUp, Shown!EndTurn
<1>0. PICK record : /\ record = [items |-> live.items, end |-> "given_up", outcome |-> Shown!NoOutcome]
                    /\ turns' = [turns EXCEPT ![driver.seq] = record]
  BY Zenon DEF Shown!GiveUp, Shown!EndTurn
<1>2. PICK views : Unheard(views) /\ TextsShown(views[1]) /\ OneTurn(views[1])
  BY DEF LiveInv
<1>3. /\ notifier' \in Notifiers /\ notifier'.turn \in {0, notifier.turn}
      /\ notifier'.said = notifier.said /\ notifier'.listed = notifier.listed
      /\ notifier'.ended = notifier.ended
  <2>1. notifier \in Notifiers /\ 0 \in 0..MaxTurns
    BY <1>1, LiveBounds DEF LiveTypes, Notifiers
  <2>2. CASE notifier' = notifier
    BY <2>1, <2>2
  <2>3. CASE notifier' = [notifier EXCEPT !.turn = 0]
    BY <2>1, <2>3 DEF Notifiers
  <2> QED BY <1>1, <2>2, <2>3
<1>4. Unheard(views)' /\ View' = View
  BY <1>1, <1>2, <1>3, StillUnheard
<1>5. views[1] \in Views /\ \A i \in Shown!Items : views[1].said[i] <= notifier.said[i]
  <2>1. 1 \in 1..Len(views)
    BY <1>1, <1>2 DEF Unheard, LiveTypes
  <2> QED BY <1>2, <2>1 DEF Unheard
<1>6. Shown!NoOutcome \in Outcomes /\ Explained(Shown!NoOutcome)
  <2>1. <<>> \in Seq(Shown!Bodies)
    OBVIOUS
  <2> QED BY <2>1 DEF Outcomes, Explained, Shown!NoOutcome
<1>7. /\ turns' \in Seq(Records) /\ Len(turns') = Len(turns)
      /\ driver.seq \in 1..Len(turns) /\ Len(turns) = driver.seq
      /\ turns'[driver.seq].end = "given_up"
      /\ \A u \in 1..Len(turns) : u # driver.seq => turns'[u] = turns[u]
      /\ live' = None
      /\ driver' \in [pc : {"idle"}, seq : 0..MaxTurns, outcome : Outcomes]
      /\ LiveIsTurns' /\ TextsRecorded'
  <2>1. "given_up" \in {"completed", "given_up"}
    OBVIOUS
  <2> QED BY <1>0, <1>1, <1>2, <1>3, <1>5, <1>6, <2>1, TurnRecorded
<1>8. LiveTypes'
  BY <1>1, <1>3, <1>7 DEF LiveTypes, Notifiers
<1>9. RowsRecorded'
  <2> SUFFICES ASSUME NEW u \in 1..Len(turns), CompletedTo(u)'
               PROVE  notifier'.turn # u /\ Follow(turns'[u].items, View, u)
    BY <1>4, <1>7 DEF RowsRecorded, Follow
  <2>1. \A k \in 1..u : turns'[k].end = "completed"
    BY DEF CompletedTo
  <2>2. u # driver.seq /\ u < driver.seq /\ u \in Nat /\ u >= 1
    BY <1>7, <2>1
  <2>3. \A k \in 1..u : k \in 1..Len(turns) /\ k # driver.seq
    BY <1>7, <2>2
  <2>4. CompletedTo(u) /\ turns'[u] = turns[u]
    BY <1>7, <2>1, <2>2, <2>3 DEF CompletedTo
  <2> QED BY <1>1, <1>3, <2>2, <2>4 DEF RowsRecorded
<1>10. NotBegun'
  <2>1. notifier'.turn <= Len(turns)
    BY <1>1, <1>3, <1>7 DEF NotBegun
  <2> QED BY <1>1, <1>3, <1>7, <2>1 DEF NotBegun
<1>11. TextsShown(views[1])' /\ OneTurn(views[1])'
  <2>1. ~Orderly'
    BY <1>7 DEF Orderly
  <2> QED BY <1>7, <2>1 DEF TextsShown, OneTurn
<1> QED BY <1>4, <1>7, <1>8, <1>9, <1>10, <1>11 DEF LiveInv

\* A turn that ends: if none was given up, nothing of it is left to be heard.
LEMMA TurnCompletes ==
    ASSUME LiveInv, Shown!ReceiveEnd
    PROVE  LiveInv'
<1>1. /\ LiveTypes /\ LiveIsTurns /\ RowsRecorded /\ NotBegun
      /\ driver.pc = "driving" /\ notices # <<>> /\ notices' = Tail(notices)
      /\ Head(notices).type = "end" /\ notifier' = notifier
      /\ live' = None /\ driver' = [driver EXCEPT !.pc = "idle"]
  BY DEF LiveInv, Shown!ReceiveEnd, Shown!Receive, Shown!EndTurn
<1>0. PICK record : /\ record = [items |-> live.items, end |-> "completed", outcome |-> driver.outcome]
                    /\ turns' = [turns EXCEPT ![driver.seq] = record]
  BY Zenon DEF Shown!ReceiveEnd, Shown!EndTurn
<1>2. PICK views : Unheard(views) /\ TextsShown(views[1]) /\ OneTurn(views[1])
  BY DEF LiveInv
<1>3. /\ views[1] \in Views /\ views[2] \in Views /\ Tail(views)[1] = views[2]
      /\ Head(notices) = notices[1]
      /\ Tells(notices[1], views[1], views[2])
      /\ \A i \in Shown!Items : views[2].said[i] <= notifier.said[i]
      /\ notices' \in Seq(Notices) /\ Len(notices') = Len(notices) - 1 /\ Len(notices) >= 1
      /\ Unheard(Tail(views))'
  BY <1>1, <1>2, NoticeHeard
<1>4. views[2] = views[1]
  BY <1>1, <1>3 DEF Tells
<1>5. driver.outcome \in Outcomes /\ Explained(driver.outcome)
  BY <1>1 DEF LiveTypes, LiveIsTurns
<1>6. /\ turns' \in Seq(Records) /\ Len(turns') = Len(turns)
      /\ driver.seq \in 1..Len(turns) /\ Len(turns) = driver.seq
      /\ turns'[driver.seq].items = live.items
      /\ \A u \in 1..Len(turns) : u # driver.seq => turns'[u] = turns[u]
      /\ live' = None /\ turns[driver.seq].end = None
      /\ driver' \in [pc : {"idle"}, seq : 0..MaxTurns, outcome : Outcomes]
      /\ LiveIsTurns' /\ TextsRecorded'
  <2>1. "completed" \in {"completed", "given_up"} /\ "completed" # "given_up"
    OBVIOUS
  <2>2. \A i \in Shown!Items : views[1].said[i] <= notifier.said[i]
    BY <1>3, <1>4
  <2> QED BY <1>0, <1>1, <1>2, <1>3, <1>5, <2>1, <2>2, TurnRecorded
<1>7. LiveTypes'
  BY <1>1, <1>3, <1>6 DEF LiveTypes
<1>8. View' = View
  BY <1>1 DEF View
<1>9. ASSUME Orderly
      PROVE  /\ notices' = <<>> /\ notifier.turn = 0 /\ views[1] = View
             /\ Follow(live.items, View, driver.seq)
  <2>1. 1 \in 1..Len(notices) /\ Len(notices) \in Nat
    BY <1>1, <1>3 DEF LiveTypes
  <2>2. 1 = Len(notices) /\ notifier.turn = 0
    BY <1>1, <1>2, <1>3, <1>9, <2>1 DEF OneTurn
  <2>3. Len(views) = 2 /\ views[Len(views)] = View
    <3>1. Len(views) = Len(notices) + 1 /\ views[Len(views)] = View
      BY <1>2 DEF Unheard
    <3>2. \A n : 1 = n => n + 1 = 2
      OBVIOUS
    <3>3. Len(notices) + 1 = 2
      BY <2>2, <3>2
    <3> QED BY <3>1, <3>3
  <2>4. notices' = <<>>
    <3>1. Len(notices') = 1 - 1 /\ notices' \in Seq(Notices)
      BY <1>3, <2>2
    <3>2. Len(notices') = 0
      BY <3>1
    <3> QED BY <3>1, <3>2, EmptySeq
  <2>5. Follow(live.items, views[1], driver.seq)
    BY <1>1, <1>2, <1>9 DEF OneTurn, LiveIsTurns
  <2> QED BY <1>4, <2>2, <2>3, <2>4, <2>5
<1>10. RowsRecorded'
  <2> SUFFICES ASSUME NEW u \in 1..Len(turns), CompletedTo(u)'
               PROVE  notifier.turn # u /\ Follow(turns'[u].items, View, u)
    BY <1>1, <1>6, <1>8 DEF RowsRecorded, Follow
  <2>1. \A k \in 1..u : turns'[k].end = "completed"
    BY DEF CompletedTo
  <2>2. u \in Nat /\ u >= 1 /\ Len(turns) \in Nat /\ u <= Len(turns)
    BY <1>6
  <2>3. CASE u = driver.seq
    <3>1. Orderly
      <4> SUFFICES ASSUME NEW k \in 1..Len(turns) PROVE turns[k].end # "given_up"
        BY DEF Orderly
      <4>1. CASE k = driver.seq
        BY <1>6, <4>1, NoneIsNone
      <4>2. CASE k # driver.seq
        <5>1. turns'[k].end = "completed"
          BY <1>6, <2>1, <2>3
        <5> QED BY <1>6, <4>2, <5>1
      <4> QED BY <4>1, <4>2
    <3> QED BY <1>6, <1>9, <2>2, <2>3, <3>1
  <2>4. CASE u # driver.seq
    <3>1. \A k \in 1..u : k \in 1..Len(turns) /\ k # driver.seq
      BY <1>6, <2>2, <2>4
    <3>2. CompletedTo(u) /\ turns'[u] = turns[u]
      BY <1>6, <2>1, <2>4, <3>1 DEF CompletedTo
    <3> QED BY <1>1, <3>2 DEF RowsRecorded
  <2> QED BY <2>3, <2>4
<1>11. NotBegun'
  BY <1>1, <1>6 DEF NotBegun
<1>12. TextsShown(views[2])'
  BY <1>6 DEF TextsShown
<1>13. OneTurn(views[2])'
  <2> SUFFICES ASSUME Orderly' PROVE notices' = <<>> /\ notifier.turn = 0
    <3>1. notices' = <<>> => \A p \in 1..Len(notices') : FALSE
      OBVIOUS
    <3> QED BY <1>1, <1>6, <3>1 DEF OneTurn
  <2>1. Orderly
    <3> SUFFICES ASSUME NEW k \in 1..Len(turns) PROVE turns[k].end # "given_up"
      BY DEF Orderly
    <3>1. CASE k = driver.seq
      BY <1>6, <3>1, NoneIsNone
    <3>2. CASE k # driver.seq
      BY <1>6, <3>2 DEF Orderly
    <3> QED BY <3>1, <3>2
  <2> QED BY <1>9, <2>1
<1>14. PICK later : later = Tail(views)
  OBVIOUS
<1> QED BY <1>3, <1>6, <1>7, <1>10, <1>11, <1>12, <1>13, <1>14 DEF LiveInv

LEMMA LiveNext == LiveInv /\ [Next]_vars => LiveInv'
<1> SUFFICES ASSUME LiveInv, [Next]_vars PROVE LiveInv'
  OBVIOUS
<1>1. CASE Shown!Next
  <2>1. CASE \E i \in Shown!Items : Shown!Announce(i) \/ Shown!SayOutput(i) \/ Shown!FinishItem(i)
    BY <2>1, RuntimeTells
  <2>2. CASE (\E body \in Shown!Bodies : Shown!Speak(body)) \/ Shown!AskOwner \/ Shown!EndOfTurn
    BY <2>2, RuntimeSpeaks
  <2>3. CASE \/ Shown!ReceiveStarted \/ Shown!ReceiveOutput \/ Shown!ReceiveFinished
             \/ Shown!ReceiveMessage \/ Shown!ReceiveAsk
    BY <2>3, SessionHears
  <2> QED BY <1>1, <2>1, <2>2, <2>3, SessionAnswers, TurnBegins, TurnIsTaken, TurnGivenUp,
             TurnCompletes DEF Shown!Next
<1>2. CASE UNCHANGED liveVars
  <2>1. UNCHANGED <<notifier, notices, driver, live, turns>>
    BY <1>2 DEF liveVars
  <2>2. PICK views : Unheard(views) /\ TextsShown(views[1]) /\ OneTurn(views[1])
    BY DEF LiveInv
  <2>3. Unheard(views)' /\ View' = View
    BY <2>1, <2>2, StillUnheard
  <2>4. LiveTypes' /\ LiveIsTurns' /\ TextsRecorded' /\ NotBegun'
    BY <2>1 DEF LiveInv, LiveTypes, LiveIsTurns, TextsRecorded, NotBegun
  <2>5. RowsRecorded'
    BY <2>1, <2>3 DEF LiveInv, RowsRecorded, CompletedTo, Follow
  <2>6. TextsShown(views[1])' /\ OneTurn(views[1])'
    BY <2>1, <2>2 DEF TextsShown, OneTurn, Orderly, Follow
  <2> QED BY <2>3, <2>4, <2>5, <2>6 DEF LiveInv
<1> QED BY <1>1, <1>2 DEF Next, OfTurn, OfClient, OfLive, vars

THEOREM LiveInvariant == FairSpec => []LiveInv
BY LiveInit, LiveNext, PTL DEF FairSpec

-----------------------------------------------------------------------------
(* The interface: what is shown is what happened                            *)

LEMMA OutputShownIsSeamless == LiveInv => Shown!OutputIsSeamless
<1> SUFFICES ASSUME LiveInv, NEW entry \in Shown!Shown \cup Shown!Recorded
             PROVE  /\ \A n \in 1..Len(entry.text) - 1 : entry.text[n + 1] = entry.text[n] + 1
                    /\ entry.text # <<>> => Shown!Last(entry.text) <= notifier.said[entry.item]
  BY DEF Shown!OutputIsSeamless
<1>1. LiveTypes /\ TextsRecorded
  BY DEF LiveInv
<1>2. CASE entry \in Shown!Shown
  <2>1. PICK views : Unheard(views) /\ TextsShown(views[1])
    BY DEF LiveInv
  <2>2. live # None /\ live \in Shown!AgentLive
    BY <1>1, <1>2 DEF Shown!Shown, LiveTypes
  <2>3. PICK n \in 1..Len(live.items) : entry = live.items[n]
    BY <1>2, <2>2 DEF Shown!Shown, Shown!ToSet, Shown!AgentLive
  <2>4. TextShown(entry, views[1]) /\ entry \in Shown!AgentLiveItem
    BY <2>1, <2>2, <2>3 DEF TextsShown, Shown!AgentLive
  <2>5. views[1].said[entry.item] <= notifier.said[entry.item]
    <3>1. 1 \in 1..Len(views)
      BY <1>1, <2>1 DEF Unheard, LiveTypes
    <3> QED BY <2>1, <2>4, <3>1 DEF Unheard, Shown!AgentLiveItem
  <2> QED BY <2>4, <2>5 DEF TextShown, Seamless, Shown!Last
<1>3. CASE entry \in Shown!Recorded
  <2>1. PICK t \in DOMAIN turns : entry \in Shown!ToSet(turns[t].items)
    BY <1>3 DEF Shown!Recorded
  <2>2. t \in 1..Len(turns) /\ turns[t].items \in Seq(Shown!AgentLiveItem)
    <3>1. t \in 1..Len(turns) /\ turns[t] \in Records
      BY <1>1, <2>1 DEF LiveTypes
    <3> QED BY <3>1 DEF Records
  <2>3. PICK n \in 1..Len(turns[t].items) : entry = turns[t].items[n]
    BY <2>1, <2>2 DEF Shown!ToSet
  <2> QED BY <1>1, <2>2, <2>3 DEF TextsRecorded, Seamless, Shown!Last
<1> QED BY <1>2, <1>3

LEMMA StepsKept == LiveInv => Shown!StepsAreRecorded
<1> SUFFICES ASSUME LiveInv, NEW t \in DOMAIN turns, \A u \in 1..t : turns[u].end = "completed"
             PROVE  /\ [n \in DOMAIN turns[t].items |-> turns[t].items[n].item] = notifier.listed[t]
                    /\ \A entry \in Shown!ToSet(turns[t].items) :
                          entry.state = notifier.ended[entry.item]
  BY DEF Shown!StepsAreRecorded
<1>1. LiveTypes /\ RowsRecorded /\ LiveIsTurns
  BY DEF LiveInv
<1>2. t \in 1..Len(turns) /\ turns[t].items \in Seq(Shown!AgentLiveItem)
  <2>1. t \in 1..Len(turns) /\ turns[t] \in Records
    BY <1>1 DEF LiveTypes
  <2> QED BY <2>1 DEF Records
<1>3. Follow(turns[t].items, View, t)
  BY <1>1, <1>2 DEF RowsRecorded, CompletedTo
<1>4. PICK rows : rows = turns[t].items
  OBVIOUS
<1>5. /\ rows \in Seq(Shown!AgentLiveItem) /\ DOMAIN rows = 1..Len(rows)
      /\ Len(rows) = Len(notifier.listed[t])
      /\ \A n \in 1..Len(rows) : /\ rows[n].item = notifier.listed[t][n]
                                 /\ rows[n].state = notifier.ended[rows[n].item]
  BY <1>2, <1>3, <1>4 DEF Follow, View
<1>6. t \in Shown!Turns
  BY <1>1, <1>2, LiveBounds DEF Shown!Turns, LiveTypes, LiveIsTurns
<1>7. notifier.listed[t] \in Seq(Shown!Items)
  BY <1>1, <1>6 DEF LiveTypes
<1>8. [n \in DOMAIN rows |-> rows[n].item] = notifier.listed[t]
  <2>1. PICK listed \in Seq(Shown!Items) : listed = notifier.listed[t]
    BY <1>7
  <2>2. listed = [n \in 1..Len(listed) |-> listed[n]]
    OBVIOUS
  <2>3. \A n \in 1..Len(rows) : rows[n].item = listed[n]
    BY <1>5, <2>1
  <2> QED BY <1>5, <2>1, <2>2, <2>3
<1>9. \A entry \in Shown!ToSet(rows) : entry.state = notifier.ended[entry.item]
  BY <1>5 DEF Shown!ToSet
<1> QED BY <1>4, <1>8, <1>9

LEMMA TurnShown == LiveInv => Shown!TurnIsShown
<1> SUFFICES ASSUME LiveInv PROVE Shown!TurnIsShown
  OBVIOUS
<1>1. /\ LiveIsTurns /\ DOMAIN turns = 1..Len(turns)
  BY DEF LiveInv, LiveTypes
<1>2. Shown!LiveOrRecorded
  <2>1. \A t \in DOMAIN turns : turns[t].end = None <=> live # None /\ live.seq = t
    BY <1>1 DEF LiveIsTurns
  <2>2. live # None => (live.stage = "awaiting" <=> driver.pc = "asking")
    BY <1>1 DEF LiveIsTurns
  <2> QED BY <2>1, <2>2 DEF Shown!LiveOrRecorded
<1>3. Shown!NoReportUnexplained
  BY <1>1 DEF LiveIsTurns, Explained, Shown!NoReportUnexplained
<1> QED BY <1>2, <1>3, OutputShownIsSeamless, StepsKept DEF Shown!TurnIsShown

-----------------------------------------------------------------------------
(* What an analysis promises                                               *)

\* No action of an agent is allowed that the owner did not allow.
THEOREM GrantsAreTheOwners == FairSpec => []GrantedByOwner
<1>1. TurnInv => GrantedByOwner
  BY DEF TurnInv, GrantedByOwner
<1> QED BY <1>1, TurnInvariant, PTL

LEMMA NoneLostIsUnheard == ClientInv => Client!NothingUnheard
<1> SUFFICES ASSUME ClientInv PROVE Client!NothingUnheard
  OBVIOUS
<1>1. /\ Received \in Seq(Messages) /\ written \in Seq(Messages)
      /\ Len(Received) \in Nat /\ Len(written) \in Nat /\ Len(Received) <= Len(written)
      /\ \A i \in 1..Len(Received) : Received[i] = written[i]
  BY DEF ClientInv, ClientTypes, NoneLost, Received
<1>2. SubSeq(Received, 1, Len(Received)) = SubSeq(written, 1, Len(Received))
  BY <1>1
<1>3. Client!IsPrefix(Received, written)
  BY <1>1, <1>2 DEF Client!IsPrefix
<1>4. reader = "ended" => Received = written
  <2>1. reader = "ended" => Len(Received) = Len(written)
    BY DEF ClientInv, NoneLost
  <2> QED BY <1>1, <2>1
<1> QED BY <1>3, <1>4 DEF Client!NothingUnheard, Received

\* The messages of two turns, and the answers to two calls, are kept apart, and what the
\* runtime wrote reaches the session in order.
THEOREM TurnsAndCallsKeptApart == FairSpec => []KeptApart
<1>1. TurnInv /\ ClientInv => KeptApart
  BY NoneLostIsUnheard DEF TurnInv, ClientInv, KeptApart
<1> QED BY <1>1, TurnInvariant, ClientInvariant, PTL

\* A client that is gone leaves no process of its runtime.
THEOREM NoProcessIsLeft == FairSpec => []NoProcessLeft
<1>1. ClientInv => NoProcessLeft
  BY DEF ClientInv, NoProcessLeft
<1> QED BY <1>1, ClientInvariant, PTL

\* The trace of a session is replayed without an objection at any moment; what the
\* interface shows and records of a turn is what the runtime did in it.
THEOREM TurnsStayRecorded == FairSpec => []TurnsAreRecorded
<1>1. TurnInv /\ LiveInv => TurnsAreRecorded
  BY TurnShown DEF TurnInv, TurnsAreRecorded
<1> QED BY <1>1, TurnInvariant, LiveInvariant, PTL

=============================================================================
