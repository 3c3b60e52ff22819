------------------------------ MODULE LiveTurn ------------------------------
(***************************************************************************)
(* What the interface sees of a turn: while it runs, the live view that     *)
(* LiveTracker (commands/agent_live.rs) folds from the runtime's             *)
(* notifications (agent/mod.rs, forward_progress); once it has ended, the    *)
(* record into which run_agent (commands/agent.rs) moves what was live.      *)
(*                                                                         *)
(* A text is the sequence of its chunks, which are numbered; an item is     *)
(* <<turn, number>>.  How a turn is driven, and given up, is AgentTurn's     *)
(* subject: here a turn that is given up may be left running.               *)
(***************************************************************************)
EXTENDS Integers, Sequences, SequencesExt

CONSTANTS
    MaxTurns,       \* bound: questions asked
    MaxItems,       \* bound: items of a turn
    MaxChunks,      \* bound: chunks of output of an item
    MaxNotices,     \* bound: notifications of the runtime
    TextTail,       \* ITEM_OUTPUT_TAIL and TEXT_TAIL, in chunks
    None

VARIABLES
    runtime,    \* [turn, sent, said, listed, ended]: the turn it works on; per item the
                \* chunks said; per turn the items announced, and those it ended
    messages,   \* its notifications, as queued for the session
    host,       \* [pc, seq, outcome]: run_turn, the tracker's turn and TurnOutcome
    live,       \* AgentStatus.live, or None
    turns       \* AgentStatus.turns

vars == <<runtime, messages, host, live, turns>>

Turns == 1 .. MaxTurns
Items == Turns \X (1 .. MaxItems)
Bodies == {"report", "object", "prose"}     \* of an agent message: JSON that conforms or not, or neither
Upto(n) == [i \in 1 .. n |-> i]

\* AgentLive and AgentLiveItem (commands/dto.rs), by what the properties tell apart.
States == {"running", "completed", "failed"}
AgentLiveItem == [item : Items, state : States, text : Seq(Nat)]
AgentLive == [seq : Turns, stage : {"thinking", "working", "writing", "awaiting"},
              items : Seq(AgentLiveItem)]

LiveAssumption ==
    /\ MaxTurns \in Nat /\ MaxItems \in Nat /\ MaxChunks \in Nat /\ MaxNotices \in Nat
    /\ TextTail \in Nat
    /\ None \notin AgentLive \cup {"completed", "given_up"}

NoOutcome == [messages |-> <<>>, report |-> None, reason |-> FALSE]

Init ==
    /\ runtime = [turn |-> 0, sent |-> 0, said |-> [i \in Items |-> 0],
                  listed |-> [t \in Turns |-> <<>>], ended |-> [i \in Items |-> "running"]]
    /\ messages = <<>>
    /\ host = [pc |-> "idle", seq |-> 0, outcome |-> NoOutcome]
    /\ live = None
    /\ turns = <<>>

-----------------------------------------------------------------------------
(* The runtime.                                                            *)

Emit(m, next) ==
    /\ runtime.turn # 0 /\ runtime.sent < MaxNotices
    /\ messages' = Append(messages, m)
    /\ runtime' = [next EXCEPT !.sent = @ + 1]
    /\ UNCHANGED <<host, live, turns>>

\* An item is announced, perhaps again, with or without the output it has so far.
Announce(i) ==
    /\ i[1] = runtime.turn /\ runtime.ended[i] = "running"
    /\ \E whole \in BOOLEAN :
          Emit([type |-> "started", item |-> i,
                text |-> IF whole THEN Upto(runtime.said[i]) ELSE <<>>],
               IF Contains(runtime.listed[i[1]], i) THEN runtime
               ELSE [runtime EXCEPT !.listed[i[1]] = Append(@, i)])

\* Output of an item, which may come before the item is announced.
SayOutput(i) ==
    /\ i[1] = runtime.turn /\ runtime.ended[i] = "running" /\ runtime.said[i] < MaxChunks
    /\ Emit([type |-> "output", item |-> i, text |-> <<runtime.said[i] + 1>>],
            [runtime EXCEPT !.said[i] = @ + 1])

FinishItem(i) ==
    /\ Contains(runtime.listed[i[1]], i)
    /\ i[1] = runtime.turn /\ runtime.ended[i] = "running"
    /\ \E state \in {"completed", "failed"}, whole \in BOOLEAN :
          Emit([type |-> "finished", item |-> i, state |-> state,
                text |-> IF whole THEN Upto(runtime.said[i]) ELSE <<>>],
               [runtime EXCEPT !.ended[i] = state])

Speak(body) == Emit([type |-> "message", body |-> body], runtime)

AskOwner == Emit([type |-> "ask"], runtime)

EndOfTurn == Emit([type |-> "end", turn |-> runtime.turn], [runtime EXCEPT !.turn = 0])

-----------------------------------------------------------------------------
(* LiveTracker.                                                            *)

\* push_capped: the tail of a text.
PushCapped(text, chunk) ==
    LET all == text \o chunk
    IN  IF Len(all) > TextTail THEN SubSeq(all, Len(all) - TextTail + 1, Len(all)) ELSE all

\* with_live: only the view of the tracker's own turn is touched.
WithLive(next) == live' = IF live # None /\ live.seq = host.seq THEN next ELSE live

Rows(i) == {n \in DOMAIN live.items : live.items[n].item = i}
Known(i) == Rows(i) # {}
Position(i) == CHOOSE n \in Rows(i) : \A m \in Rows(i) : n <= m

\* Mutant of ItemStarted: an item announced again is shown again.
ItemStarted_Appended(i, text) ==
    [live EXCEPT !.stage = "working",
                 !.items = Append(@, [item |-> i, state |-> "running", text |-> text])]

\* An item announced again keeps its row, and the output received.
ItemStarted(i, text) ==
    LET entry == [item |-> i, state |-> "running", text |-> text]
    IN  [live EXCEPT !.stage = "working",
                     !.items = IF Known(i) THEN [@ EXCEPT ![Position(i)].state = "running"]
                               ELSE Append(@, entry)]

\* Output goes to the item it belongs to; that of an unknown item goes nowhere.
ItemOutput(i, text) ==
    LET row == live.items[Position(i)]
        items == [live.items EXCEPT ![Position(i)] = [row EXCEPT !.text = PushCapped(row.text, text)]]
    IN  [live EXCEPT !.stage = "working", !.items = IF Known(i) THEN items ELSE @]

\* The final payload repeats the deltas: it counts only where nothing was streamed.
ItemFinished(i, state, text) ==
    LET row == live.items[Position(i)]
        final == IF row.text = <<>> THEN PushCapped(row.text, text) ELSE row.text
        items == [live.items EXCEPT ![Position(i)] = [row EXCEPT !.state = state, !.text = final]]
    IN  [live EXCEPT !.items = IF Known(i) THEN items ELSE @]

-----------------------------------------------------------------------------
(* run_agent and drive_turn.                                               *)

\* The question and its live view are there before the turn's first event.
BeginTurn ==
    /\ host.pc = "idle" /\ Len(turns) < MaxTurns
    /\ host' = [pc |-> "starting", seq |-> Len(turns) + 1, outcome |-> NoOutcome]
    /\ live' = [seq |-> Len(turns) + 1, stage |-> "thinking", items |-> <<>>]
    /\ turns' = Append(turns, [items |-> <<>>, outcome |-> NoOutcome, end |-> None])
    /\ UNCHANGED <<runtime, messages>>

\* turn/start, to which a runtime that is still at work gives no new turn.
TurnStarts ==
    /\ host.pc = "starting"
    /\ runtime' = [runtime EXCEPT !.turn = IF @ = 0 THEN host.seq ELSE @]
    /\ host' = [host EXCEPT !.pc = "driving"]
    /\ WithLive([live EXCEPT !.stage = "thinking"])
    /\ UNCHANGED <<messages, turns>>

\* The live steps move into the record, whatever became of the turn; what it said
\* only if it succeeded.
EndTurn(end, outcome) ==
    /\ turns' = [turns EXCEPT ![host.seq] =
                    [items |-> live.items, end |-> end,
                     outcome |-> IF end = "completed" THEN outcome ELSE NoOutcome]]
    /\ live' = None
    /\ host' = [host EXCEPT !.pc = "idle"]

\* A timeout, a limit, an answer that fails: the turn is interrupted, or left running.
GiveUp ==
    /\ host.pc \in {"starting", "driving", "asking"}
    /\ EndTurn("given_up", NoOutcome)
    /\ \E left \in BOOLEAN : runtime' = IF left THEN runtime ELSE [runtime EXCEPT !.turn = 0]
    /\ UNCHANGED messages

\* drive_turn's part of an agent message: each one is tried as the report.
Heard(outcome, body) ==
    [messages |-> Append(outcome.messages, body),
     report |-> IF body = "prose" THEN outcome.report ELSE body,
     reason |-> outcome.reason \/ body # "report"]

Receive(type) ==
    /\ host.pc = "driving" /\ messages # <<>> /\ Head(messages).type = type
    /\ messages' = Tail(messages)

ReceiveStarted ==
    /\ Receive("started")
    /\ WithLive(ItemStarted(Head(messages).item, Head(messages).text))
    /\ UNCHANGED <<runtime, host, turns>>

ReceiveOutput ==
    /\ Receive("output")
    /\ WithLive(ItemOutput(Head(messages).item, Head(messages).text))
    /\ UNCHANGED <<runtime, host, turns>>

ReceiveFinished ==
    /\ Receive("finished")
    /\ LET m == Head(messages) IN WithLive(ItemFinished(m.item, m.state, m.text))
    /\ UNCHANGED <<runtime, host, turns>>

ReceiveMessage ==
    /\ Receive("message")
    /\ host' = [host EXCEPT !.outcome = Heard(@, Head(messages).body)]
    /\ WithLive([live EXCEPT !.stage = "writing"])
    /\ UNCHANGED <<runtime, turns>>

ReceiveAsk ==
    /\ Receive("ask")
    /\ host' = [host EXCEPT !.pc = "asking"]
    /\ WithLive([live EXCEPT !.stage = "awaiting"])
    /\ UNCHANGED <<runtime, turns>>

Answered ==
    /\ host.pc = "asking"
    /\ host' = [host EXCEPT !.pc = "driving"]
    /\ WithLive([live EXCEPT !.stage = "working"])
    /\ UNCHANGED <<runtime, messages, turns>>

ReceiveEnd ==
    /\ Receive("end")
    /\ EndTurn("completed", host.outcome)
    /\ UNCHANGED runtime

Next ==
    \/ \E i \in Items : Announce(i) \/ SayOutput(i) \/ FinishItem(i)
    \/ \E body \in Bodies : Speak(body)
    \/ AskOwner \/ EndOfTurn
    \/ BeginTurn \/ TurnStarts \/ GiveUp
    \/ ReceiveStarted \/ ReceiveOutput \/ ReceiveFinished \/ ReceiveMessage
    \/ ReceiveAsk \/ Answered \/ ReceiveEnd

Spec == Init /\ [][Next]_vars

-----------------------------------------------------------------------------
(* What is shown is what happened.                                         *)

Shown == IF live = None THEN {} ELSE ToSet(live.items)
Recorded == UNION {ToSet(turns[t].items) : t \in DOMAIN turns}

\* The record of a turn the runtime ended holds every item it announced in it, once,
\* in order, as it ended, if no earlier turn was given up.
StepsAreRecorded ==
    \A t \in DOMAIN turns :
        (\A u \in 1 .. t : turns[u].end = "completed") =>
            /\ [n \in DOMAIN turns[t].items |-> turns[t].items[n].item] = runtime.listed[t]
            /\ \A entry \in ToSet(turns[t].items) : entry.state = runtime.ended[entry.item]

\* The output of an item is shown without a gap and without a repetition, whether its
\* chunks came before or after the announcement, or again with the final payload.
OutputIsSeamless ==
    \A entry \in Shown \cup Recorded :
        /\ \A n \in 1 .. Len(entry.text) - 1 : entry.text[n + 1] = entry.text[n] + 1
        /\ entry.text # <<>> => Last(entry.text) <= runtime.said[entry.item]

\* Work in progress is in the live view, finished work in the record, none in both.
LiveOrRecorded ==
    /\ \A t \in DOMAIN turns : turns[t].end = None <=> live # None /\ live.seq = t
    /\ live # None => (live.stage = "awaiting" <=> host.pc = "asking")

\* A turn that spoke and has no report that conforms says why.
NoReportUnexplained ==
    \A t \in DOMAIN turns :
        LET o == turns[t].outcome
        IN  o.messages # <<>> /\ o.report # "report" => o.reason

TurnIsShown ==
    StepsAreRecorded /\ OutputIsSeamless /\ LiveOrRecorded /\ NoReportUnexplained

\* Not so: nothing of an earlier turn appears in the current one (agent_live.rs).
OwnSteps ==
    \A t \in DOMAIN turns : \A entry \in ToSet(turns[t].items) : entry.item[1] = t

\* Not so: output that precedes the announcement of its item is kept (agent_live.rs).
EarlyOutputKept ==
    \A entry \in Recorded : entry.state # "running" /\ entry.text # <<>> =>
        entry.text[1] = 1 \/ Len(entry.text) >= TextTail

\* Not so: the report is what the final message says (PORT-01).
ReportIsFinal ==
    \A t \in DOMAIN turns :
        LET o == turns[t].outcome IN o.report # None => o.report = Last(o.messages)
=============================================================================
