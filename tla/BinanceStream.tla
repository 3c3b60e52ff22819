---------------------------- MODULE BinanceStream ----------------------------
(***************************************************************************)
(* The Binance order book feed: crates/core/src/venues/binance_stream.rs   *)
(* with the LocalOrderBook and the FeedPublisher of local_book.rs.         *)
(*                                                                         *)
(* A task keeps a WebSocket of depth events, bridges them to a REST        *)
(* snapshot that may be older or newer than any of them, and publishes the *)
(* local book while it is sure of it.  A BookFeed handle reads the last    *)
(* status, may ask for a reconnect, and ends the task when dropped.        *)
(*                                                                         *)
(* The venue's book is the sequence of prices its updates touched: what an *)
(* update sets a level to (a quantity, or zero for none) is named by the   *)
(* update's id.  An event [first, final] carries, for the prices touched   *)
(* between the two, their levels after update `final'.  Events may arrive  *)
(* in any order, again, overlapping, or not at all.                        *)
(***************************************************************************)
EXTENDS Integers, Sequences, FiniteSetsExt

CONSTANTS
    Prices,
    MaxId,          \* bound: updates of the venue's book
    MaxBuffered,    \* bound: events kept while the snapshot is on its way
    MaxGeneration,  \* bound: the last connection that may be left for another
    None            \* no snapshot, no book

Events == {e \in [first : 1 .. MaxId, final : 1 .. MaxId] : e.first <= e.final}
Books == [levels : [Prices -> 0 .. MaxId], sequence : 0 .. MaxId]

StreamAssumption ==
    /\ MaxId \in Nat
    /\ MaxBuffered \in Nat \ {0}
    /\ MaxGeneration \in Nat \ {0}
    /\ None \notin Books

VARIABLES
    history,  \* the price each update of the venue touched
    phase,    \* where the task is
    buffered, \* events received before the bridge
    fetched,  \* lastUpdateId of the REST snapshot, once it has arrived
    book,     \* the local book
    status,   \* the last status published
    pending,  \* a FeedCommand::Reconnect waits in the command channel
    dropped   \* the BookFeed handle is gone

handleVars == <<pending, dropped>>
taskVars == <<phase, buffered, fetched, book, status>>
vars == <<history, phase, buffered, fetched, book, status, pending, dropped>>

\* The phases in which the task waits in next_event.
Receiving == {"first", "fetch", "catchup", "live"}

-----------------------------------------------------------------------------
\* The level of price p after update n: the last update that touched it.
LevelAt(p, n) == Max({0} \cup {i \in 1 .. n : history[i] = p})

\* The venue's book after update n.
BookAt(n) == [levels |-> [p \in Prices |-> LevelAt(p, n)], sequence |-> n]

\* apply_event: the levels of the event replace those of the book.
ApplyEvent(b, e) ==
    [levels |-> [p \in Prices |->
        IF \E i \in e.first .. e.final : history[i] = p THEN LevelAt(p, e.final)
        ELSE b.levels[p]],
     sequence |-> e.final]

\* The book already holds what the event says.
IsOld(b, e) == e.final <= b.sequence

\* Updates between the book and the event are missing.
IsGap(b, e) == e.first > b.sequence + 1

\* One event of bridge_snapshot: None when the bridge has failed.  An old event
\* is dropped, whether before or behind the one that covers the successor of the
\* snapshot; that one is a gap unless it does.
BridgeEvent(b, e) ==
    IF b = None THEN None
    ELSE IF IsOld(b, e) THEN b
    ELSE IF IsGap(b, e) THEN None
    ELSE ApplyEvent(b, e)

\* bridge_snapshot: one event after the other.
Bridged(n, events) ==
    LET after[k \in 0 .. Len(events)] ==
            IF k = 0 THEN BookAt(n) ELSE BridgeEvent(after[k - 1], events[k])
    IN  after[Len(events)]

\* FeedPublisher::syncing.  The counters of reconnects and applied updates, which
\* nothing reads but displays, are left out.
Syncing ==
    status' = [state |-> "SYNCING", generation |-> status.generation + 1, snapshot |-> None]

\* FeedPublisher::valid
Valid(b) ==
    status' = [status EXCEPT !.state = "VALID", !.snapshot = b]

\* FeedPublisher::stale and FeedPublisher::invalid
Withdraw(state) == status' = [status EXCEPT !.state = state, !.snapshot = None]

\* run_connection returns; its buffer and its book are gone.
EndConnection(state) ==
    /\ Withdraw(state)
    /\ phase' = "backoff"
    /\ buffered' = <<>>
    /\ fetched' = None
    /\ book' = None

Init ==
    /\ history = <<>>
    /\ phase = "start"
    /\ buffered = <<>>
    /\ fetched = None
    /\ book = None
    /\ status = [state |-> "SYNCING", generation |-> 0, snapshot |-> None]
    /\ pending = FALSE
    /\ dropped = FALSE

\* The venue's book changes.
Update(p) ==
    /\ Len(history) < MaxId
    /\ history' = Append(history, p)
    /\ UNCHANGED <<taskVars, handleVars>>

\* The task's first turn of its loop.
Start ==
    /\ phase = "start"
    /\ phase' = "connect"
    /\ Syncing
    /\ UNCHANGED <<history, buffered, fetched, book, handleVars>>

Connect ==
    /\ phase = "connect"
    /\ phase' = "first"
    /\ UNCHANGED <<history, buffered, fetched, book, status, handleVars>>

ConnectFails ==
    /\ phase = "connect"
    /\ EndConnection("INVALID")
    /\ UNCHANGED <<history, handleVars>>

LastBuffered == buffered[Len(buffered)]

\* What the venue can have sent by now.
Sent(e) == e \in Events /\ e.final <= Len(history)

\* The first event starts the snapshot request; until it is answered, and then
\* until an event is newer than the snapshot, events are buffered.
Buffer(e) ==
    /\ phase \in {"first", "fetch", "catchup"}
    /\ Sent(e)
    /\ Len(buffered) < MaxBuffered
    /\ phase = "catchup" => LastBuffered.final <= fetched
    /\ buffered' = Append(buffered, e)
    /\ phase' = IF phase = "first" THEN "fetch" ELSE phase
    /\ UNCHANGED <<history, fetched, book, status, handleVars>>

\* The REST snapshot: of the present book, or of an earlier one.
FetchSnapshot(n) ==
    /\ phase = "fetch"
    /\ n \in 0 .. Len(history)
    /\ fetched' = n
    /\ phase' = "catchup"
    /\ UNCHANGED <<history, buffered, book, status, handleVars>>

\* bridge_snapshot, when the last event is newer than the snapshot.
Bridge ==
    /\ phase = "catchup"
    /\ LastBuffered.final > fetched
    /\ LET b == Bridged(fetched, buffered)
       IN  \/ /\ b # None
              /\ book' = b
              /\ Valid(b)
              /\ phase' = "live"
              /\ buffered' = <<>>
              /\ fetched' = None
           \/ /\ b = None
              /\ EndConnection("INVALID")
    /\ UNCHANGED <<history, handleVars>>

\* An event that continues the book.  Old ones are ignored.
Follow(e) ==
    /\ phase = "live"
    /\ Sent(e)
    /\ ~IsOld(book, e)
    /\ ~IsGap(book, e)
    /\ book' = ApplyEvent(book, e)
    /\ Valid(ApplyEvent(book, e))
    /\ UNCHANGED <<history, phase, buffered, fetched, handleVars>>

\* depth sequence gap
Gap(e) ==
    /\ phase = "live"
    /\ Sent(e)
    /\ ~IsOld(book, e)
    /\ IsGap(book, e)
    /\ EndConnection("INVALID")
    /\ UNCHANGED <<history, handleVars>>

\* No depth event for stale_after.
StaleDeadline ==
    /\ phase \in Receiving
    /\ EndConnection("STALE")
    /\ UNCHANGED <<history, handleVars>>

\* The stream is closed, an event is malformed or of another symbol, the request
\* of the snapshot fails, or the book has an empty side or is crossed.
StreamFails ==
    /\ phase \in Receiving
    /\ EndConnection("INVALID")
    /\ UNCHANGED <<history, handleVars>>

\* Mutant of ForcedReconnect: the request is taken and the connection goes on.
ForcedReconnect_Ignored ==
    /\ phase \in Receiving
    /\ pending
    /\ pending' = FALSE
    /\ UNCHANGED <<history, taskVars, dropped>>

\* next_event takes a reconnect command.
ForcedReconnect ==
    /\ phase \in Receiving
    /\ pending
    /\ pending' = FALSE
    /\ EndConnection("INVALID")
    /\ UNCHANGED <<history, dropped>>

Restart ==
    /\ phase' = "connect"
    /\ Syncing
    /\ UNCHANGED <<history, buffered, fetched, book>>

\* reconnect_delay is over, or a command that arrives meanwhile cuts it short.
SleepEnds ==
    /\ phase = "backoff"
    /\ status.generation < MaxGeneration
    /\ Restart
    /\ UNCHANGED handleVars

CommandCutsSleep ==
    /\ phase = "backoff"
    /\ pending
    /\ pending' = FALSE
    /\ Restart
    /\ UNCHANGED dropped

\* The command channel is closed and empty.
Closed == dropped /\ ~pending

\* recv returns None in next_event: the connection ends like a closed stream.
CloseConnection ==
    /\ phase \in Receiving
    /\ Closed
    /\ EndConnection("INVALID")
    /\ UNCHANGED <<history, handleVars>>

\* recv returns None between connections: the loop ends.
EndTask ==
    /\ phase = "backoff"
    /\ Closed
    /\ phase' = "done"
    /\ UNCHANGED <<history, buffered, fetched, book, status, handleVars>>

\* BookFeed::force_reconnect; the channel holds one command.
ForceReconnect ==
    /\ ~dropped
    /\ ~pending
    /\ status.generation < MaxGeneration
    /\ phase # "done"
    /\ pending' = TRUE
    /\ UNCHANGED <<history, taskVars, dropped>>

DropFeed ==
    /\ ~dropped
    /\ dropped' = TRUE
    /\ UNCHANGED <<history, taskVars, pending>>

Next ==
    \/ \E p \in Prices : Update(p)
    \/ Start \/ Connect \/ ConnectFails
    \/ \E e \in Events : Buffer(e) \/ Follow(e) \/ Gap(e)
    \/ \E n \in 0 .. MaxId : FetchSnapshot(n)
    \/ Bridge
    \/ StaleDeadline \/ StreamFails \/ ForcedReconnect \/ CloseConnection
    \/ SleepEnds \/ CommandCutsSleep \/ EndTask
    \/ ForceReconnect \/ DropFeed

Spec == Init /\ [][Next]_vars

\* The task runs, connecting comes to an end, the sleep is over, and select!, which
\* picks at random among the branches that are ready, takes the command in the end.
\* Nothing is assumed of the venue: no event need ever arrive.
Fairness ==
    /\ WF_vars(Start)
    /\ WF_vars(Connect \/ ConnectFails)
    /\ WF_vars(Bridge)
    /\ WF_vars(SleepEnds)
    /\ SF_vars(ForcedReconnect)
    /\ SF_vars(CommandCutsSleep)
    /\ SF_vars(CloseConnection)
    /\ SF_vars(EndTask)

FairSpec == Spec /\ Fairness

-----------------------------------------------------------------------------
\* Every variable stays in its range.
TypeOK ==
    /\ history \in Seq(Prices) /\ Len(history) <= MaxId
    /\ phase \in {"start", "connect", "backoff", "done"} \cup Receiving
    /\ buffered \in Seq(Events) /\ Len(buffered) <= MaxBuffered
    /\ fetched \in 0 .. MaxId \cup {None}
    /\ book \in Books \cup {None}
    /\ status \in [state : {"SYNCING", "VALID", "STALE", "INVALID"},
                   generation : 0 .. MaxGeneration + 1, snapshot : Books \cup {None}]
    /\ pending \in BOOLEAN /\ dropped \in BOOLEAN
    /\ (book = None) = (phase # "live")

\* A03-R01 to R04: a book is published exactly when the feed is VALID, and it is
\* the book the venue had after the update it is numbered with, whatever events
\* were missing, repeated or overlapping and however old the snapshot was.
ValidBookIsVenueBook ==
    /\ status.state = "VALID" <=> status.snapshot # None
    /\ status.snapshot # None => status.snapshot = BookAt(status.snapshot.sequence)

\* A03-R02, R04 and R05: the feed keeps what its holder is promised.  Within a
\* generation books only move forward, a withdrawn book is never shown again, a
\* reconnect request leads to a newer generation wherever it meets the task, and a
\* feed nobody holds any more ends its task.
Feed == INSTANCE BookFeed WITH done <- (phase = "done")

KeepsPromise == Feed!Spec
=============================================================================
