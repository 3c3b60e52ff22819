----------------------------- MODULE BybitStream -----------------------------
(***************************************************************************)
(* The Bybit order book feed: crates/core/src/venues/bybit_stream.rs with  *)
(* the LocalOrderBook and the FeedPublisher of local_book.rs.              *)
(*                                                                         *)
(* The stream itself brings the snapshot, and another whenever the venue   *)
(* starts afresh; between two of them come deltas.  Messages are ordered   *)
(* by the cross sequence `seq' alone: one that does not advance it is      *)
(* ignored, and nothing tells the task that one is missing (A-03 design,   *)
(* section 7).  The update id `u', which a restart of the venue resets,    *)
(* orders nothing and is left out; a book is numbered by its `seq'.        *)
(*                                                                         *)
(* The venue's book is what it is in BinanceStream: the sequence of prices *)
(* touched, a level being named by the update that set it.                 *)
(***************************************************************************)
EXTENDS Integers, Sequences, FiniteSetsExt

CONSTANTS
    Prices,
    MaxId,          \* bound: updates of the venue's book
    MaxGeneration,  \* bound: the last connection that may be left for another
    None            \* no book, no sequence

Books == [levels : [Prices -> 0 .. MaxId], sequence : 0 .. MaxId]

StreamAssumption ==
    /\ MaxId \in Nat
    /\ MaxGeneration \in Nat \ {0}
    /\ None \notin Books \cup 0 .. MaxId

VARIABLES
    history,  \* the price each update of the venue touched
    phase,    \* where the task is
    book,     \* the local book
    lastSeq,  \* last_cross_sequence
    missed,   \* ghost: updates since the last snapshot that no message brought
    status,   \* the last status published
    pending,  \* a FeedCommand::Reconnect waits in the command channel
    dropped   \* the BookFeed handle is gone

connectionVars == <<book, lastSeq, missed>>
taskVars == <<phase, connectionVars, status>>
handleVars == <<pending, dropped>>
vars == <<history, phase, book, lastSeq, missed, status, pending, dropped>>

\* A snapshot is of the whole book; a delta has the levels touched by first .. seq.
Messages ==
    [type : {"snapshot", "delta"}, first : 1 .. MaxId, seq : 0 .. MaxId]

Sent(m) ==
    /\ m.seq <= Len(history)
    /\ IF m.type = "snapshot" THEN m.first = 1 ELSE m.first <= m.seq

LevelAt(p, n) == Max({0} \cup {i \in 1 .. n : history[i] = p})

BookAt(n) == [levels |-> [p \in Prices |-> LevelAt(p, n)], sequence |-> n]

\* LocalOrderBook::apply
Applied(b, m) ==
    [levels |-> [p \in Prices |->
        IF \E i \in m.first .. m.seq : history[i] = p THEN LevelAt(p, m.seq)
        ELSE b.levels[p]],
     sequence |-> m.seq]

\* advances_cross_sequence
AdvancesCrossSequence(previous, next) == previous # None => next > previous

\* FeedPublisher::syncing
Syncing ==
    status' = [state |-> "SYNCING", generation |-> status.generation + 1, snapshot |-> None]

\* FeedPublisher::valid
Valid(b) == status' = [status EXCEPT !.state = "VALID", !.snapshot = b]

\* run_connection returns: FeedPublisher::stale or invalid.
EndConnection(state) ==
    /\ status' = [status EXCEPT !.state = state, !.snapshot = None]
    /\ phase' = "backoff"
    /\ book' = None
    /\ lastSeq' = None
    /\ missed' = {}

Init ==
    /\ history = <<>>
    /\ phase = "start"
    /\ book = None
    /\ lastSeq = None
    /\ missed = {}
    /\ status = [state |-> "SYNCING", generation |-> 0, snapshot |-> None]
    /\ pending = FALSE
    /\ dropped = FALSE

\* The venue's book changes.
Update(p) ==
    /\ Len(history) < MaxId
    /\ history' = Append(history, p)
    /\ UNCHANGED <<taskVars, handleVars>>

Start ==
    /\ phase = "start"
    /\ phase' = "connect"
    /\ Syncing
    /\ UNCHANGED <<history, connectionVars, handleVars>>

\* connect_async and the subscription.
Connect ==
    /\ phase = "connect"
    /\ phase' = "open"
    /\ UNCHANGED <<history, connectionVars, status, handleVars>>

ConnectFails ==
    /\ phase = "connect"
    /\ EndConnection("INVALID")
    /\ UNCHANGED <<history, handleVars>>

\* Mutant of ReceiveSnapshot: a second snapshot is merged into the book.
ReceiveSnapshot_Merges(m) ==
    /\ phase = "open"
    /\ Sent(m) /\ m.type = "snapshot"
    /\ AdvancesCrossSequence(lastSeq, m.seq)
    /\ book' = IF book = None THEN BookAt(m.seq) ELSE [book EXCEPT !.sequence = m.seq]
    /\ Valid(book')
    /\ lastSeq' = m.seq
    /\ missed' = {}
    /\ UNCHANGED <<history, phase, handleVars>>

\* A snapshot replaces the book, whenever it comes.
ReceiveSnapshot(m) ==
    /\ phase = "open"
    /\ Sent(m) /\ m.type = "snapshot"
    /\ AdvancesCrossSequence(lastSeq, m.seq)
    /\ book' = BookAt(m.seq)
    /\ Valid(book')
    /\ lastSeq' = m.seq
    /\ missed' = {}
    /\ UNCHANGED <<history, phase, handleVars>>

\* A delta is applied to the book there is, if it advances the sequence, whether or
\* not it continues it.
ReceiveDelta(m) ==
    /\ phase = "open"
    /\ Sent(m) /\ m.type = "delta"
    /\ AdvancesCrossSequence(lastSeq, m.seq)
    /\ book # None
    /\ book' = Applied(book, m)
    /\ Valid(book')
    /\ lastSeq' = m.seq
    /\ missed' = (missed \ (m.first .. m.seq)) \cup (lastSeq + 1 .. m.first - 1)
    /\ UNCHANGED <<history, phase, handleVars>>

\* Bybit delta arrived before snapshot
DeltaBeforeSnapshot ==
    /\ phase = "open"
    /\ book = None
    /\ EndConnection("INVALID")
    /\ UNCHANGED <<history, handleVars>>

\* No snapshot or delta for stale_after.
StaleDeadline ==
    /\ phase = "open"
    /\ EndConnection("STALE")
    /\ UNCHANGED <<history, handleVars>>

\* The stream is closed, the subscription is rejected, a message is malformed or of
\* another topic, or the book has an empty side or is crossed.
StreamFails ==
    /\ phase = "open"
    /\ EndConnection("INVALID")
    /\ UNCHANGED <<history, handleVars>>

\* recv, in the loop of run_connection.
ForcedReconnect ==
    /\ phase = "open"
    /\ pending
    /\ pending' = FALSE
    /\ EndConnection("INVALID")
    /\ UNCHANGED <<history, dropped>>

\* The command channel is closed and empty.
Closed == dropped /\ ~pending

CloseConnection ==
    /\ phase = "open"
    /\ Closed
    /\ EndConnection("INVALID")
    /\ UNCHANGED <<history, handleVars>>

Restart ==
    /\ phase' = "connect"
    /\ Syncing
    /\ UNCHANGED <<history, connectionVars>>

\* reconnect_delay is over, or a command that arrives meanwhile cuts it short.
SleepEnds ==
    /\ phase = "backoff"
    /\ status.generation < MaxGeneration
    /\ Restart
    /\ UNCHANGED handleVars

CommandCutsSleep ==
    /\ phase = "backoff"
    /\ pending
    /\ pending' = FALSE
    /\ Restart
    /\ UNCHANGED dropped

\* recv returns None between connections: the loop ends.
EndTask ==
    /\ phase = "backoff"
    /\ Closed
    /\ phase' = "done"
    /\ UNCHANGED <<history, connectionVars, status, handleVars>>

\* BookFeed::force_reconnect; the channel holds one command.
ForceReconnect ==
    /\ ~dropped
    /\ ~pending
    /\ status.generation < MaxGeneration
    /\ phase # "done"
    /\ pending' = TRUE
    /\ UNCHANGED <<history, taskVars, dropped>>

DropFeed ==
    /\ ~dropped
    /\ dropped' = TRUE
    /\ UNCHANGED <<history, taskVars, pending>>

Next ==
    \/ \E p \in Prices : Update(p)
    \/ Start \/ Connect \/ ConnectFails
    \/ \E m \in Messages : ReceiveSnapshot(m) \/ ReceiveDelta(m)
    \/ DeltaBeforeSnapshot \/ StaleDeadline \/ StreamFails
    \/ ForcedReconnect \/ CloseConnection
    \/ SleepEnds \/ CommandCutsSleep \/ EndTask
    \/ ForceReconnect \/ DropFeed

Spec == Init /\ [][Next]_vars

\* As in BinanceStream: the task runs, and select! takes the command in the end.
Fairness ==
    /\ WF_vars(Start)
    /\ WF_vars(Connect \/ ConnectFails)
    /\ WF_vars(SleepEnds)
    /\ SF_vars(ForcedReconnect)
    /\ SF_vars(CommandCutsSleep)
    /\ SF_vars(CloseConnection)
    /\ SF_vars(EndTask)

FairSpec == Spec /\ Fairness

-----------------------------------------------------------------------------
\* Every variable stays in its range.
TypeOK ==
    /\ history \in Seq(Prices) /\ Len(history) <= MaxId
    /\ phase \in {"start", "connect", "open", "backoff", "done"}
    /\ book = None <=> lastSeq = None
    /\ lastSeq \in 0 .. MaxId \cup {None}
    /\ missed \subseteq 1 .. MaxId
    /\ status.generation \in 0 .. MaxGeneration + 1
    /\ pending \in BOOLEAN /\ dropped \in BOOLEAN

\* A03-R03 and R04: the book is published exactly when the feed is VALID, and a
\* price shows the level the venue had after update `seq', unless one of the
\* messages that never came since the last snapshot was the last to touch it; then
\* it shows the level it had before them.  Repeated, late and overlapping messages
\* change nothing.
ValidBookIsVenueBook ==
    /\ status.state = "VALID" <=> status.snapshot # None
    /\ status.snapshot # None =>
        \A p \in Prices :
            status.snapshot.levels[p] =
                Max({0} \cup {i \in 1 .. status.snapshot.sequence :
                                  history[i] = p /\ i \notin missed})

\* A03-R03 to R05: the feed keeps what the holder of any feed is promised.
Feed == INSTANCE BookFeed WITH done <- (phase = "done")

KeepsPromise == Feed!Spec
=============================================================================
