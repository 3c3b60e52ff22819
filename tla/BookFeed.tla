------------------------------- MODULE BookFeed -------------------------------
(***************************************************************************)
(* What the holder of a BookFeed is promised, whatever the venue: the      *)
(* status of local_book.rs, seen from the other end of its watch channel.  *)
(*                                                                         *)
(* A connection is a generation.  Within one, books are published in the   *)
(* order of the venue and never again once the feed has been withdrawn; a  *)
(* book is never carried over to the next generation.  A request to        *)
(* reconnect is answered by a newer generation, and a feed that nobody     *)
(* holds comes to an end.                                                  *)
(***************************************************************************)
EXTENDS Naturals

CONSTANTS
    Prices,
    MaxId,
    MaxGeneration,
    None

VARIABLES
    status,   \* BookFeedStatus: the state, the generation and the book
    pending,  \* a FeedCommand::Reconnect has been sent and not been taken
    dropped,  \* the handle is gone
    done      \* the task has ended

vars == <<status, pending, dropped, done>>

Books == [levels : [Prices -> 0 .. MaxId], sequence : 0 .. MaxId]

\* A level is named by the update that set it: no price may go back.
Newer(b, c) ==
    /\ c.sequence > b.sequence
    /\ \A p \in Prices : c.levels[p] >= b.levels[p]

Init ==
    /\ status = [state |-> "SYNCING", generation |-> 0, snapshot |-> None]
    /\ pending = FALSE
    /\ dropped = FALSE
    /\ done = FALSE

Connected == status.generation > 0 /\ status.state \in {"SYNCING", "VALID"}

\* A new generation, with no book of the one before.
Synchronise ==
    /\ ~Connected
    /\ ~done
    /\ status' = [state |-> "SYNCING", generation |-> status.generation + 1,
                  snapshot |-> None]
    /\ pending' \in {pending, FALSE}
    /\ UNCHANGED <<dropped, done>>

Publish(b) ==
    /\ Connected
    /\ status.snapshot # None => Newer(status.snapshot, b)
    /\ status' = [status EXCEPT !.state = "VALID", !.snapshot = b]
    /\ UNCHANGED <<pending, dropped, done>>

Withdraw ==
    /\ Connected
    /\ status' \in {[status EXCEPT !.state = s, !.snapshot = None] :
                        s \in {"STALE", "INVALID"}}
    /\ pending' \in {pending, FALSE}
    /\ UNCHANGED <<dropped, done>>

End ==
    /\ ~Connected
    /\ dropped
    /\ ~pending
    /\ done' = TRUE
    /\ UNCHANGED <<status, pending, dropped>>

Ask ==
    /\ ~dropped
    /\ ~pending
    /\ pending' = TRUE
    /\ UNCHANGED <<status, dropped, done>>

Drop ==
    /\ dropped' = TRUE
    /\ UNCHANGED <<status, pending, done>>

Next ==
    \/ Synchronise \/ Withdraw \/ End \/ Ask \/ Drop
    \/ \E b \in Books : Publish(b)

\* run_reconnect_smoke waits for the first; observe_continuously, which only drops
\* its feeds when it ends, relies on the second.
Answered ==
    \A g \in 0 .. MaxGeneration - 1 :
        (pending /\ status.generation = g) ~> (status.generation > g \/ dropped)

Ended == dropped ~> done

Spec == Init /\ [][Next]_vars /\ Answered /\ Ended
===============================================================================
