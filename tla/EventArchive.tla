---------------------------- MODULE EventArchive -----------------------------
(***************************************************************************)
(* The event archive (archive/): the observer hands records to a bounded   *)
(* queue and never waits; one worker thread appends them, a line each, to  *)
(* the archive and writes what could not be kept to a second file, the gap *)
(* journal.  A process may die at any moment and start again on the same   *)
(* files; replay reads them at any moment.                                 *)
(*                                                                         *)
(* A file is its complete lines and the bytes after the last newline: none,*)
(* the start of one record, or the start of one with another run into it.  *)
(***************************************************************************)
EXTENDS Integers, Sequences, FiniteSets, Sums

CONSTANTS
    MaxRuns,        \* bound: starts of a writer on the files
    MaxOrdinal,     \* bound: records submitted to one writer
    QueueCapacity,
    MaxFailures,    \* bound: times that writing or opening a file fails
    TornWrites,     \* whether a failed write may leave a part of its line
    None, Corrupt

Runs == 1..MaxRuns
Ordinals == 1..MaxOrdinal
Record == [run : Runs, ordinal : Ordinals]
\* A repaired tail is a gap from 0 to 0 that dropped no event.
Gap == [run : Runs, first : 0..MaxOrdinal, last : 0..MaxOrdinal, dropped : 0..MaxOrdinal]

ArchiveAssumption ==
    /\ MaxRuns \in Nat /\ MaxOrdinal \in Nat
    /\ QueueCapacity \in Nat \ {0}
    /\ MaxFailures \in Nat /\ TornWrites \in BOOLEAN
    /\ {None, Corrupt} \cap (0..MaxOrdinal \cup Record \cup Gap) = {} /\ None # Corrupt

VARIABLES
    run,        \* writers started so far; the last is the current one
    up,         \* "open", "closing" (the sender is gone) or "down"
    next,       \* next_ordinal
    refused,    \* a record try_send gave back, not yet counted, or None
    pending,    \* pending_overflow: a PendingGap or None
    queue,      \* the channel: ordinals
    pc,         \* the worker: "recv", "overflow", "write" or "flush"
    held,       \* the record the worker received, or None
    todo,       \* gaps the worker writes before it goes on
    open,       \* whether the worker has the archive open
    archive, journal,   \* the two files
    failures,   \* failures so far
    printed,    \* gaps printed to stderr instead
    clean       \* history: the records of each run whose finish returned

submitter == <<run, up, next, refused>>
worker == <<pc, held, todo, open>>
vars == <<submitter, pending, queue, worker, archive, journal, failures, printed, clean>>

FileOf(E) == [lines : Seq(E \cup {Corrupt}), tail : E \cup {None, Corrupt}]
Empty == [lines |-> <<>>, tail |-> None]

TypeOK ==
    /\ run \in 0..MaxRuns /\ up \in {"open", "closing", "down"}
    /\ next \in 1..MaxOrdinal + 1 /\ refused \in Ordinals \cup {None}
    /\ pending \in Gap \cup {None}
    /\ queue \in Seq(Ordinals) /\ Len(queue) <= QueueCapacity
    /\ pc \in {"recv", "overflow", "write", "flush"}
    /\ held \in Ordinals \cup {None} /\ todo \in Seq(Gap) /\ open \in BOOLEAN
    /\ archive \in FileOf(Record) /\ journal \in FileOf(Gap)
    /\ failures \in 0..MaxFailures /\ printed \subseteq Gap
    /\ clean \in [Runs -> 0..MaxOrdinal]

Init ==
    /\ run = 0 /\ up = "down" /\ next = 1 /\ refused = None
    /\ pending = None /\ queue = <<>>
    /\ pc = "recv" /\ held = None /\ todo = <<>> /\ open = FALSE
    /\ archive = Empty /\ journal = Empty
    /\ failures = 0 /\ printed = {}
    /\ clean = [r \in Runs |-> 0]

-----------------------------------------------------------------------------
(* Files, opened for append.                                               *)

Begun(f, e) == [f EXCEPT !.tail = IF @ = None THEN e ELSE Corrupt]
Ended(f) == [lines |-> Append(f.lines, f.tail), tail |-> None]
Line(f, e) == Ended(Begun(f, e))

\* What may be in the file after a write of e that was not reported as done: a
\* writer that is dropped still flushes what it holds, so the line may be whole.
Left(f, e, torn) == {f, Line(f, e)} \cup (IF torn THEN {Begun(f, e)} ELSE {})

\* Mutant of Repaired: the incomplete tail stays where it is.
Repaired_Not(f) == f

\* repair_incomplete_tail cuts off what follows the last line end.
Repaired(f) == [f EXCEPT !.tail = None]

\* open_append succeeds or fails.
Opened ==
    \/ open' = TRUE /\ UNCHANGED failures
    \/ open' = FALSE /\ failures < MaxFailures /\ failures' = failures + 1

Current(o) == [run |-> run, ordinal |-> o]
GapOf(o) == [run |-> run, first |-> o, last |-> o, dropped |-> 1]

-----------------------------------------------------------------------------
(* The observer's side.                                                    *)

\* ArchiveWriter::start repairs both files; the worker reports each repair.
Start ==
    /\ up = "down" /\ run < MaxRuns
    /\ LET repair == [run |-> run + 1, first |-> 0, last |-> 0, dropped |-> 0]
       IN  todo' = [i \in 1..Cardinality({f \in {"archive", "journal"} :
                        (IF f = "archive" THEN archive.tail ELSE journal.tail) # None})
                    |-> repair]
    /\ archive' = Repaired(archive) /\ journal' = Repaired(journal)
    /\ run' = run + 1 /\ up' = "open" /\ next' = 1
    /\ pc' = "recv"
    /\ Opened
    /\ UNCHANGED <<refused, pending, queue, held, printed, clean>>

\* submit: the ordinal is taken, and the record queued or given back.
Submit ==
    /\ up = "open" /\ refused = None /\ next <= MaxOrdinal
    /\ next' = next + 1
    /\ IF Len(queue) < QueueCapacity
       THEN queue' = Append(queue, next) /\ UNCHANGED refused
       ELSE refused' = next /\ UNCHANGED queue
    /\ UNCHANGED <<run, up, pending, worker, archive, journal, failures, printed, clean>>

\* PendingGap::extend: drops in a row make one gap.
Extended(gap, o) ==
    IF gap = None THEN GapOf(o) ELSE [gap EXCEPT !.last = o, !.dropped = @ + 1]

\* submit, the queue being full: under the lock, the gap is begun or extended.
CountOverflow ==
    /\ up = "open" /\ refused # None
    /\ pending' = Extended(pending, refused)
    /\ refused' = None
    /\ UNCHANGED <<run, up, next, queue, worker, archive, journal, failures, printed, clean>>

\* finish, or the drop of the writer: the sender goes, the worker is waited for.
Close ==
    /\ up = "open" /\ refused = None
    /\ up' = "closing"
    /\ UNCHANGED <<run, next, refused, pending, queue, worker, archive, journal,
                   failures, printed, clean>>

-----------------------------------------------------------------------------
(* The worker (writer_loop).                                               *)

Receive ==
    /\ up # "down" /\ pc = "recv" /\ todo = <<>> /\ queue # <<>>
    /\ held' = Head(queue) /\ queue' = Tail(queue)
    /\ pc' = "overflow"
    /\ UNCHANGED <<submitter, pending, todo, open, archive, journal, failures, printed, clean>>

\* Mutant of AfterDrain: the last overflow is not written.
AfterDrain_NoFlush == "flush"

\* The queue is empty and has no sender: what is pending is written, then the end.
AfterDrain == "overflow"

Drained ==
    /\ up = "closing" /\ pc = "recv" /\ todo = <<>> /\ queue = <<>>
    /\ pc' = AfterDrain
    /\ UNCHANGED <<submitter, pending, queue, held, todo, open, archive, journal,
                   failures, printed, clean>>

\* flush_overflow_gap takes the pending gap under its lock.
TakeOverflow ==
    /\ up # "down" /\ pc = "overflow"
    /\ todo' = IF pending = None THEN <<>> ELSE <<pending>>
    /\ pending' = None
    /\ pc' = IF held = None THEN "flush" ELSE "write"
    /\ UNCHANGED <<submitter, queue, held, open, archive, journal, failures, printed, clean>>

Write ==
    /\ up # "down" /\ pc = "write" /\ todo = <<>> /\ open
    /\ archive' = Line(archive, Current(held))
    /\ held' = None /\ pc' = "recv"
    /\ UNCHANGED <<submitter, pending, queue, todo, open, journal, failures, printed, clean>>

\* The record becomes a gap, and the archive is opened again (no tail is repaired).
WriteFails ==
    /\ up # "down" /\ pc = "write" /\ todo = <<>>
    /\ IF open
       THEN /\ failures < MaxFailures
            /\ archive' \in Left(archive, Current(held), TornWrites)
            /\ open' \in BOOLEAN /\ failures' = failures + 1
       ELSE Opened /\ UNCHANGED archive
    /\ todo' = <<GapOf(held)>>
    /\ held' = None /\ pc' = "recv"
    /\ UNCHANGED <<submitter, pending, queue, journal, printed, clean>>

\* write_gap, opening the journal if the last write failed.
WriteGap ==
    /\ up # "down" /\ todo # <<>>
    /\ journal' = Line(journal, Head(todo))
    /\ todo' = Tail(todo)
    /\ UNCHANGED <<submitter, pending, queue, pc, held, open, archive, failures, printed, clean>>

WriteGapFails ==
    /\ up # "down" /\ todo # <<>>
    /\ failures < MaxFailures /\ failures' = failures + 1
    /\ journal' \in Left(journal, Head(todo), TornWrites)
    /\ printed' = printed \cup {Head(todo)}
    /\ todo' = Tail(todo)
    /\ UNCHANGED <<submitter, pending, queue, pc, held, open, archive, clean>>

\* The last flush has nothing left to write; the thread ends and close returns.
Finish ==
    /\ up # "down" /\ pc = "flush" /\ todo = <<>>
    /\ up' = "down" /\ pc' = "recv" /\ open' = FALSE
    /\ clean' = [clean EXCEPT ![run] = next - 1]
    /\ UNCHANGED <<run, next, refused, pending, queue, held, todo, archive, journal,
                   failures, printed>>

\* The process ends, possibly in the middle of a line.
Crash ==
    /\ up # "down"
    /\ up' = "down"
    /\ refused' = None /\ pending' = None /\ queue' = <<>>
    /\ pc' = "recv" /\ held' = None /\ todo' = <<>> /\ open' = FALSE
    /\ archive' \in IF pc = "write" /\ todo = <<>> /\ open
                    THEN Left(archive, Current(held), TRUE) ELSE {archive}
    /\ journal' \in IF todo # <<>> THEN Left(journal, Head(todo), TRUE) ELSE {journal}
    /\ UNCHANGED <<run, next, failures, printed, clean>>

Next ==
    \/ Start \/ Submit \/ CountOverflow \/ Close
    \/ Receive \/ Drained \/ TakeOverflow \/ Write \/ WriteFails
    \/ WriteGap \/ WriteGapFails \/ Finish \/ Crash

Spec == Init /\ [][Next]_vars

-----------------------------------------------------------------------------
(* replay_archive and read_gap_totals.                                     *)

Elements(f) == {f.lines[i] : i \in 1..Len(f.lines)}

\* for_each_snapshot_record skips the tail and fails on a line it cannot read;
\* replay_archive fails when a run's ordinals do not increase.
ReplaySucceeds ==
    /\ Corrupt \notin Elements(archive) \cup Elements(journal)
    /\ \A i, j \in 1..Len(archive.lines) :
          i < j /\ archive.lines[i].run = archive.lines[j].run
             => archive.lines[i].ordinal < archive.lines[j].ordinal

\* The dropped_events a reader counts for a run.
Declared(r) ==
    LET lines == {i \in 1..Len(journal.lines) : /\ journal.lines[i] # Corrupt
                                               /\ journal.lines[i].run = r}
    IN  SumOver([i \in lines |-> journal.lines[i].dropped], lines)
        + SumOver([g \in printed |-> g.dropped], {g \in printed : g.run = r})

Missing(r) == {o \in 1..clean[r] : [run |-> r, ordinal |-> o] \notin Elements(archive)}

-----------------------------------------------------------------------------
(* What the archive promises.                                              *)

\* Whatever crashes, restarts and failed writes came before, replay succeeds at
\* any moment (writer.rs repair_incomplete_tail; reader.rs).
Replayable == ReplaySucceeds

\* Once finish has returned, every record submitted to that writer is readable,
\* or lies in a gap that was journalled or at least printed, and the dropped
\* counts add up to no less than what is missing: nothing is lost silently (A-05
\* requirement R03).
NothingLostSilently ==
    \A r \in Runs :
        /\ \A o \in Missing(r) : \E g \in Elements(journal) \cup printed :
              g # Corrupt /\ g.run = r /\ g.first <= o /\ o <= g.last
        /\ Cardinality(Missing(r)) <= Declared(r)

=============================================================================
